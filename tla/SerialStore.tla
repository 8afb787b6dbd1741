----------------------------- MODULE SerialStore -----------------------------
(***************************************************************************)
(* What the transactions of StorageEnv promise (znet/storage/storagewdb.h):*)
(* a transaction works alone on the storages it names, its changes become  *)
(* everyone's in one step or not at all, and a checkpoint saves what all   *)
(* the storages held at one moment between transactions' ends.             *)
(***************************************************************************)
CONSTANTS Thread, Storage,
          Contents     \* the possible contents of a storage

VARIABLES store,       \* store[s]: the committed contents of s
          scope,       \* scope[t]: the storages t's transaction works on
          view,        \* view[t]: their contents as t sees them
          image        \* what the last checkpoint saves

vars == <<store, scope, view, image>>

Init ==
    /\ store \in [Storage -> Contents]
    /\ scope = [t \in Thread |-> {}]
    /\ view = [t \in Thread |-> [s \in {} |-> store[s]]]
    /\ image = store

\* A transaction starts on storages that no other one works on.
Begin(t, S) ==
    /\ scope[t] = {}
    /\ \A u \in Thread : scope[u] \cap S = {}
    /\ scope' = [scope EXCEPT ![t] = S]
    /\ view' = [view EXCEPT ![t] = [s \in S |-> store[s]]]
    /\ UNCHANGED <<store, image>>

Change(t) ==
    /\ \E s \in scope[t], c \in Contents : view' = [view EXCEPT ![t][s] = c]
    /\ UNCHANGED <<store, scope, image>>

End(t) ==
    /\ scope' = [scope EXCEPT ![t] = {}]
    /\ view' = [view EXCEPT ![t] = [s \in {} |-> store[s]]]
    /\ UNCHANGED image

Commit(t) ==
    /\ End(t)
    /\ store' = [s \in Storage |-> IF s \in scope[t] THEN view[t][s] ELSE store[s]]

Abort(t) == End(t) /\ UNCHANGED store

Checkpoint ==
    /\ image' = store
    /\ UNCHANGED <<store, scope, view>>

Next ==
    \/ \E t \in Thread : \/ \E S \in SUBSET Storage : Begin(t, S)
                         \/ Change(t)
                         \/ Commit(t)
                         \/ Abort(t)
    \/ Checkpoint

Spec == Init /\ [][Next]_vars
===============================================================================
