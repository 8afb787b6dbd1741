------------------------------ MODULE StorageTxn ------------------------------
(***************************************************************************)
(* Transactions over the storages of a database daemon, and the snapshot   *)
(* its checkpoint takes (znet/storage/storagewdb.h).  A request handler    *)
(* asks for storages (GetStorage), opens a Transaction, and works on the   *)
(* storages; the first operation locks them all, in the order of their     *)
(* addresses.  A storage keeps the values a transaction replaced; when the *)
(* last Transaction of the thread is destroyed each storage forgets them   *)
(* or puts them back, and is unlocked.  checkpoint() takes every lock in   *)
(* the same order before the first snapshot.                               *)
(*                                                                         *)
(* Abstractions.  Compression and the cursor, which only reads, are left   *)
(* out.  An operation on a storage is one step: it holds the storage's     *)
(* lock.  checkpoint_locker lets one thread into checkpoint(): Backup.     *)
(***************************************************************************)
EXTENDS Naturals, FiniteSets

CONSTANTS Thread,     \* threads that serve requests
          Backup,     \* the thread in StorageEnv::checkpoint
          Nobody,     \* owner of a mutex that is free
          NS,         \* number of storages, in the order of their addresses
          Key,
          Val,
          NoVal,      \* the value of a key that is absent
          MaxRef,     \* bound: Transactions a thread has open
          MaxCopies   \* bound: entries for one storage in a storage_vec

ASSUME OwnerAssumption == /\ Backup \notin Thread
                          /\ Nobody \notin Thread \cup {Backup}
ASSUME NSAssumption    == NS \in Nat
ASSUME NoValAssumption == NoVal \notin Val
ASSUME BoundAssumption == MaxRef \in Nat /\ MaxCopies \in Nat

Storage  == 1..NS
Contents == [Key -> Val \cup {NoVal}]

VARIABLES
    \* struct Storage
    db,           \* db[s]: its table
    prepared,     \* prepared[s]: values to put back, NoVal where there is none
    new_key,      \* new_key[s]: keys to delete
    locker,       \* locker[s]: owner of its mutex
    \* struct ThreadContext
    storage_vec,  \* storage_vec[t]: how many entries t has for each storage
    locked, cancel, refcnt,
    \* the threads
    pc,           \* what thread t is doing
    asked,        \* asked[t]: the storages t's handler has pointers to
    todo,         \* todo[t]: entries of storage_vec[t] that a loop has yet to reach
    \* checkpoint()
    cpc,
    next,         \* the storage its loop has reached
    snapshot      \* snapshot[s]: contents of s at its snapshot_create

storages == <<db, prepared, new_key, locker>>
contexts == <<storage_vec, locked, cancel, refcnt>>
backup   == <<cpc, next, snapshot>>
vars     == <<storages, contexts, pc, asked, todo, backup>>

-------------------------------------------------------------------------------
(***************************************************************************)
(* Helpers.                                                                *)
(***************************************************************************)

EmptyVec == [s \in Storage |-> 0]
Nothing  == [k \in Key |-> NoVal]

\* for_each over a sorted storage_vec: its entries, in the order of addresses.
MutNextEntry(t) == {s \in Storage : todo[t][s] > 0}
NextEntry(t) ==
    {s \in Storage : todo[t][s] > 0 /\ \A r \in Storage : r < s => todo[t][r] = 0}

\* Mutex::Lock returns: the mutex is free, or it is the caller's own and
\* pthread_mutex_lock (PTHREAD_MUTEX_ERRORCHECK) answers EDEADLK.
LockReturns(s, p) == locker[s] \in {Nobody, p}

\* Mutex::UNLock: EPERM unless the caller owns the mutex.
MutUnlocked(s, p) ==
    [locker EXCEPT ![s] = IF @ = p /\ (p = Backup \/ ~cancel[p]) THEN Nobody ELSE @]
Unlocked(s, p) == [locker EXCEPT ![s] = IF @ = p THEN Nobody ELSE @]

\* Storage s as Storage::checkpoint(true) leaves it: the old values are put, then
\* the new keys are deleted.
RolledBack(s) == [k \in Key |-> IF k \in new_key[s] THEN NoVal
                                ELSE IF prepared[s][k] # NoVal THEN prepared[s][k]
                                ELSE db[s][k]]

-------------------------------------------------------------------------------
Init ==
    /\ db \in [Storage -> Contents]
    /\ prepared = [s \in Storage |-> Nothing]
    /\ new_key = [s \in Storage |-> {}]
    /\ locker = [s \in Storage |-> Nobody]
    /\ storage_vec = [t \in Thread |-> EmptyVec]
    /\ locked = [t \in Thread |-> FALSE]
    /\ cancel \in [Thread -> BOOLEAN]      \* the constructor leaves it as it is
    /\ refcnt = [t \in Thread |-> 0]
    /\ pc = [t \in Thread |-> "run"]
    /\ asked = [t \in Thread |-> {}]
    /\ todo = [t \in Thread |-> EmptyVec]
    /\ cpc = "idle"
    /\ next = 1
    /\ snapshot = db

-------------------------------------------------------------------------------
(***************************************************************************)
(* A handler's calls.                                                      *)
(***************************************************************************)

\* A handler asks for a storage once, before its first operation.
GetStorage(t, s) ==
    /\ pc[t] = "run" /\ ~locked[t]
    /\ s \notin asked[t]
    /\ storage_vec[t][s] < MaxCopies
    /\ storage_vec' = [storage_vec EXCEPT ![t][s] = @ + 1]
    /\ asked' = [asked EXCEPT ![t] = @ \cup {s}]
    /\ UNCHANGED <<storages, locked, cancel, refcnt, pc, todo, backup>>

\* Transaction().
Ref(t) ==
    /\ pc[t] = "run"
    /\ refcnt[t] < MaxRef
    /\ refcnt' = [refcnt EXCEPT ![t] = @ + 1]
    /\ UNCHANGED <<storages, storage_vec, locked, cancel, pc, asked, todo, backup>>

\* The first operation calls ThreadContext::lock, which sorts storage_vec.
BeginLock(t) ==
    /\ pc[t] = "run" /\ ~locked[t]
    /\ refcnt[t] > 0
    /\ pc' = [pc EXCEPT ![t] = "lock"]
    /\ todo' = [todo EXCEPT ![t] = storage_vec[t]]
    /\ UNCHANGED <<storages, contexts, asked, backup>>

LockStorage(t) ==
    /\ pc[t] = "lock"
    /\ \E s \in NextEntry(t) :
          /\ LockReturns(s, t)
          /\ locker' = [locker EXCEPT ![s] = t]
          /\ todo' = [todo EXCEPT ![t][s] = @ - 1]
    /\ UNCHANGED <<db, prepared, new_key, contexts, pc, asked, backup>>

EndLock(t) ==
    /\ pc[t] = "lock"
    /\ todo[t] = EmptyVec
    /\ locked' = [locked EXCEPT ![t] = TRUE]
    /\ cancel' = [cancel EXCEPT ![t] = FALSE]
    /\ pc' = [pc EXCEPT ![t] = "run"]
    /\ UNCHANGED <<storages, storage_vec, refcnt, asked, todo, backup>>

\* A handler works on a storage it has a pointer to.
Working(t, s) == pc[t] = "run" /\ locked[t] /\ refcnt[t] > 0 /\ s \in asked[t]

Untouched(s, k) == prepared[s][k] = NoVal /\ k \notin new_key[s]

MutInsert(t, s, k, v) ==
    /\ Working(t, s)
    /\ prepared' = [prepared EXCEPT ![s][k] = db[s][k]]
    /\ new_key' = IF db[s][k] = NoVal
                  THEN [new_key EXCEPT ![s] = @ \cup {k}] ELSE new_key
    /\ db' = [db EXCEPT ![s][k] = v]
    /\ UNCHANGED <<locker, contexts, pc, asked, todo, backup>>

\* insert: the first change of a key is noted in prepared or in new_key.
Insert(t, s, k, v) ==
    /\ Working(t, s)
    /\ prepared' = IF Untouched(s, k)
                   THEN [prepared EXCEPT ![s][k] = db[s][k]] ELSE prepared
    /\ new_key' = IF Untouched(s, k) /\ db[s][k] = NoVal
                  THEN [new_key EXCEPT ![s] = @ \cup {k}] ELSE new_key
    /\ db' = [db EXCEPT ![s][k] = v]
    /\ UNCHANGED <<locker, contexts, pc, asked, todo, backup>>

\* insert(WDB_NOOVERWRITE) of an absent key.  No handler inserts so a key that it
\* has deleted in the same transaction.
InsertNew(t, s, k, v) ==
    /\ Working(t, s)
    /\ db[s][k] = NoVal
    /\ prepared[s][k] = NoVal
    /\ new_key' = [new_key EXCEPT ![s] = @ \cup {k}]
    /\ db' = [db EXCEPT ![s][k] = v]
    /\ UNCHANGED <<prepared, locker, contexts, pc, asked, todo, backup>>

\* insert(WDB_NOOVERWRITE) of a key that is there, and find of one that is not,
\* throw: the transaction is cancelled, whatever the handler does next.
Throw(t, s) ==
    /\ Working(t, s)
    /\ cancel' = [cancel EXCEPT ![t] = TRUE]
    /\ UNCHANGED <<storages, storage_vec, locked, refcnt, pc, asked, todo, backup>>

\* del: a key the transaction has added is forgotten, another one's value kept.
Del(t, s, k) ==
    /\ Working(t, s)
    /\ prepared' = IF Untouched(s, k)
                   THEN [prepared EXCEPT ![s][k] = db[s][k]] ELSE prepared
    /\ new_key' = IF prepared[s][k] = NoVal
                  THEN [new_key EXCEPT ![s] = @ \ {k}] ELSE new_key
    /\ db' = [db EXCEPT ![s][k] = NoVal]
    /\ UNCHANGED <<locker, contexts, pc, asked, todo, backup>>

\* abort.  Before the first operation it is on a handler's way out: an exception
\* of the handler's own, or insert refusing an empty key before it locks.
Abort(t) ==
    /\ pc[t] = "run"
    /\ refcnt[t] > 0
    /\ cancel' = [cancel EXCEPT ![t] = TRUE]
    /\ pc' = [pc EXCEPT ![t] = IF locked[t] THEN "run" ELSE "leave"]
    /\ UNCHANGED <<storages, storage_vec, locked, refcnt, asked, todo, backup>>

MutReleaseTwice(t) ==
    /\ pc[t] \in {"run", "leave"}
    /\ refcnt' = [refcnt EXCEPT ![t] = @ - 1]
    /\ UNCHANGED <<storages, storage_vec, locked, cancel, pc, asked, todo, backup>>

MutRelease(t) ==
    /\ pc[t] \in {"run", "leave"}
    /\ refcnt[t] > 0
    /\ refcnt' = [refcnt EXCEPT ![t] = @ - 1]
    /\ IF locked[t]
       THEN /\ pc' = [pc EXCEPT ![t] = "unlock"]
            /\ todo' = [todo EXCEPT ![t] = storage_vec[t]]
            /\ UNCHANGED <<storage_vec, asked>>
       ELSE /\ pc' = [pc EXCEPT ![t] = "run"]
            /\ storage_vec' = [storage_vec EXCEPT ![t] = EmptyVec]
            /\ asked' = [asked EXCEPT ![t] = {}]
            /\ UNCHANGED todo
    /\ UNCHANGED <<storages, locked, cancel, backup>>

\* ~Transaction.  The last one unlocks the context, if it is locked; its
\* storage_vec is cleared, and the handler's pointers are gone.
Release(t) ==
    /\ pc[t] \in {"run", "leave"}
    /\ refcnt[t] > 0
    /\ refcnt' = [refcnt EXCEPT ![t] = @ - 1]
    /\ IF refcnt[t] > 1
       THEN UNCHANGED <<pc, todo, storage_vec, asked>>
       ELSE IF locked[t]
       THEN /\ pc' = [pc EXCEPT ![t] = "unlock"]
            /\ todo' = [todo EXCEPT ![t] = storage_vec[t]]
            /\ UNCHANGED <<storage_vec, asked>>
       ELSE /\ pc' = [pc EXCEPT ![t] = "run"]
            /\ storage_vec' = [storage_vec EXCEPT ![t] = EmptyVec]
            /\ asked' = [asked EXCEPT ![t] = {}]
            /\ UNCHANGED todo
    /\ UNCHANGED <<storages, locked, cancel, backup>>

\* Storage::checkpoint(cancel), for each entry of storage_vec.
UnlockStorage(t) ==
    /\ pc[t] = "unlock"
    /\ \E s \in NextEntry(t) :
          /\ db' = IF cancel[t] THEN [db EXCEPT ![s] = RolledBack(s)] ELSE db
          /\ prepared' = [prepared EXCEPT ![s] = Nothing]
          /\ new_key' = [new_key EXCEPT ![s] = {}]
          /\ locker' = Unlocked(s, t)
          /\ todo' = [todo EXCEPT ![t][s] = @ - 1]
    /\ UNCHANGED <<contexts, pc, asked, backup>>

EndUnlock(t) ==
    /\ pc[t] = "unlock"
    /\ todo[t] = EmptyVec
    /\ locked' = [locked EXCEPT ![t] = FALSE]
    /\ storage_vec' = [storage_vec EXCEPT ![t] = EmptyVec]
    /\ pc' = [pc EXCEPT ![t] = "run"]
    /\ asked' = [asked EXCEPT ![t] = {}]
    /\ UNCHANGED <<storages, cancel, refcnt, todo, backup>>

-------------------------------------------------------------------------------
(***************************************************************************)
(* StorageEnv::checkpoint.                                                 *)
(***************************************************************************)

BeginCheckpoint ==
    /\ cpc = "idle"
    /\ cpc' = "lock"
    /\ next' = 1
    /\ UNCHANGED <<storages, contexts, pc, asked, todo, snapshot>>

BackupLocks ==
    /\ cpc = "lock"
    /\ next \in Storage
    /\ locker[next] = Nobody
    /\ locker' = [locker EXCEPT ![next] = Backup]
    /\ next' = next + 1
    /\ UNCHANGED <<db, prepared, new_key, contexts, pc, asked, todo, cpc, snapshot>>

MutAllLocked == cpc = "lock" /\ next = NS
AllLocked == cpc = "lock" /\ next = NS + 1

BeginSnapshots ==
    /\ AllLocked
    /\ cpc' = "snapshot"
    /\ next' = 1
    /\ UNCHANGED <<storages, contexts, pc, asked, todo, snapshot>>

\* Storage::snapshot_create takes the snapshot of one storage and unlocks it.
SnapshotCreate ==
    /\ cpc = "snapshot"
    /\ next \in Storage
    /\ snapshot' = [snapshot EXCEPT ![next] = db[next]]
    /\ locker' = Unlocked(next, Backup)
    /\ next' = next + 1
    /\ UNCHANGED <<db, prepared, new_key, contexts, pc, asked, todo, cpc>>

\* checkpoint_prepare and checkpoint_commit save the snapshots, or fail.
Save ==
    /\ cpc = "snapshot"
    /\ next = NS + 1
    /\ cpc' = "release"
    /\ next' = 1
    /\ UNCHANGED <<storages, contexts, pc, asked, todo, snapshot>>

\* Storage::snapshot_release, under the storage's lock.
SnapshotRelease ==
    /\ cpc = "release"
    /\ next \in Storage
    /\ locker[next] = Nobody
    /\ next' = next + 1
    /\ UNCHANGED <<storages, contexts, pc, asked, todo, cpc, snapshot>>

EndCheckpoint ==
    /\ cpc = "release"
    /\ next = NS + 1
    /\ cpc' = "idle"
    /\ UNCHANGED <<storages, contexts, pc, asked, todo, next, snapshot>>

-------------------------------------------------------------------------------
Handler(t) ==
    \/ Ref(t) \/ BeginLock(t) \/ LockStorage(t) \/ EndLock(t)
    \/ Abort(t) \/ Release(t) \/ UnlockStorage(t) \/ EndUnlock(t)
    \/ \E s \in Storage : GetStorage(t, s) \/ Throw(t, s)
    \/ \E s \in Storage, k \in Key :
          \/ Del(t, s, k)
          \/ \E v \in Val : Insert(t, s, k, v) \/ InsertNew(t, s, k, v)

Checkpoint ==
    \/ BeginCheckpoint \/ BackupLocks \/ BeginSnapshots \/ SnapshotCreate
    \/ Save \/ SnapshotRelease \/ EndCheckpoint

Next == (\E t \in Thread : Handler(t)) \/ Checkpoint

Spec == Init /\ [][Next]_vars

-------------------------------------------------------------------------------
(***************************************************************************)
(* Properties.                                                             *)
(***************************************************************************)

TypeOK ==
    /\ db \in [Storage -> Contents]
    /\ prepared \in [Storage -> Contents]
    /\ new_key \in [Storage -> SUBSET Key]
    /\ locker \in [Storage -> Thread \cup {Backup, Nobody}]
    /\ storage_vec \in [Thread -> [Storage -> 0..MaxCopies]]
    /\ locked \in [Thread -> BOOLEAN]
    /\ cancel \in [Thread -> BOOLEAN]
    /\ refcnt \in [Thread -> 0..MaxRef]
    /\ pc \in [Thread -> {"run", "leave", "lock", "unlock"}]
    /\ asked \in [Thread -> SUBSET Storage]
    /\ todo \in [Thread -> [Storage -> 0..MaxCopies]]
    /\ cpc \in {"idle", "lock", "snapshot", "release"}
    /\ next \in 1..(NS + 1)
    /\ snapshot \in [Storage -> Contents]

\* Transactions and checkpoints implement the serial store: a transaction that
\* commits does so in one step, when its last Transaction is destroyed; one that
\* was cancelled leaves nothing, whatever it inserted and deleted and in which
\* order; nobody sees or saves half of one.
Committing(t) == pc[t] = "unlock" /\ ~cancel[t]
Committed(s) == IF \E t \in Thread : locker[s] = t /\ Committing(t)
                THEN db[s] ELSE RolledBack(s)
Scope(t) == IF locked[t] /\ pc[t] # "unlock"
            THEN {s \in Storage : storage_vec[t][s] > 0} ELSE {}
Waiting(s) == cpc = "snapshot" /\ next <= s
Serial == INSTANCE SerialStore
          WITH store <- [s \in Storage |-> Committed(s)],
               scope <- [t \in Thread |-> Scope(t)],
               view  <- [t \in Thread |-> [s \in Scope(t) |-> db[s]]],
               image <- [s \in Storage |-> IF Waiting(s) THEN db[s] ELSE snapshot[s]]
ImplementsSerialStore == Serial!Spec

\* No deadlock: in no set of threads does each wait for a storage that another one
\* of the set has locked, the thread in checkpoint() included.
WaitsFor(p, s) ==
    IF p = Backup
    THEN cpc \in {"lock", "release"} /\ s = next /\ locker[s] # Nobody
    ELSE pc[p] = "lock" /\ s \in NextEntry(p) /\ ~LockReturns(s, p)
NoDeadlock ==
    \A W \in SUBSET (Thread \cup {Backup}) :
        W # {} => \E p \in W : ~\E s \in Storage : WaitsFor(p, s) /\ locker[s] \in W

\* A Transaction inside another one's lifetime ends nothing: from the first
\* operation until the last Transaction of the thread is destroyed, aborts and
\* other ends included, every storage stays locked and its old values are kept.
KeepsScopes ==
    \A t \in Thread : refcnt[t] > 0 /\ refcnt'[t] > 0 =>
        \A s \in Scope(t) : s \in Scope(t)' /\ RolledBack(s)' = RolledBack(s)
OuterKeepsScope == [][KeepsScopes]_vars

\* A thread between two handlers holds no storage: no transaction, committed,
\* cancelled or nested, leaves a lock behind.
NoLockLeftBehind ==
    \A t \in Thread : pc[t] = "run" /\ ~locked[t] => \A s \in Storage : locker[s] # t
===============================================================================
