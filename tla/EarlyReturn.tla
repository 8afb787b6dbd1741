----------------------------- MODULE EarlyReturn -----------------------------
(* StorageTxn with a handler that returns after GetStorage and before it opens a
   Transaction: PutRole of gamedbd, when the request's two role ids differ. *)
EXTENDS MCStorageTxn

\* The storages stay in the thread's storage_vec; the next handler on the thread
\* adds its own.
ReturnEarly(t) ==
    /\ pc[t] = "run"
    /\ refcnt[t] = 0
    /\ asked[t] # {}
    /\ asked' = [asked EXCEPT ![t] = {}]
    /\ UNCHANGED <<storages, contexts, pc, todo, backup>>

EarlySpec == Init /\ [][Next \/ \E t \in Thread : ReturnEarly(t)]_vars

\* An abort rolls the transaction back (a comment in AbstractPlayers relies on
\* it): what it would put back in a storage stays what the transaction found
\* there, as long as the transaction is open.
AbortRollsBack ==
    [][\A t \in Thread : \A s \in Scope(t) \cap Scope(t)' :
          RolledBack(s)' = RolledBack(s)]_vars
===============================================================================
