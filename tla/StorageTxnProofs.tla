--------------------------- MODULE StorageTxnProofs ---------------------------
(***************************************************************************)
(* Proofs about the transactions of StorageTxn, also with the handler that *)
(* returns early: types, who holds which lock, no deadlock, and undo logs  *)
(* that stay as they are while their transaction is open; and that         *)
(* StorageTxn implements SerialStore.  All is for any number of threads,   *)
(* storages, keys, values and nested Transactions.                         *)
(***************************************************************************)
EXTENDS EarlyReturn, WellFoundedInduction, TLAPS

-------------------------------------------------------------------------------
(* The inductive invariant *)

\* Where a thread is in lock(), its handler and unlock().
PhaseOK(t) ==
    /\ pc[t] \in {"lock", "leave"} => ~locked[t]
    /\ pc[t] = "unlock" => locked[t]
    /\ pc[t] \in {"lock", "unlock"} =>
          \A s \in Storage : todo[t][s] <= storage_vec[t][s]
    /\ \A s \in asked[t] : storage_vec[t][s] > 0

\* Thread t holds storage s.
Has(t, s) ==
    \/ pc[t] = "lock" /\ todo[t][s] < storage_vec[t][s]
    \/ pc[t] = "run" /\ locked[t] /\ storage_vec[t][s] > 0
    \/ pc[t] = "unlock" /\ storage_vec[t][s] > 0 /\ todo[t][s] = storage_vec[t][s]

\* So does the thread in checkpoint().
BackupHas(s) == (cpc = "lock" /\ s < next) \/ (cpc = "snapshot" /\ next <= s)

LocksOK ==
    /\ \A t \in Thread, s \in Storage : locker[s] = t <=> Has(t, s)
    /\ \A s \in Storage : locker[s] = Backup <=> BackupHas(s)

\* A thread locks in the order of addresses.
InOrder(t) ==
    pc[t] = "lock" => \A r, s \in Storage :
        r < s /\ todo[t][s] < storage_vec[t][s] => todo[t][r] = 0

\* Only a transaction at work, or about to end, has values to put back.
Clean(s) == prepared[s] = Nothing /\ new_key[s] = {}
LogsOK == \A s \in Storage :
    Clean(s) \/ \E t \in Thread : locker[s] = t /\ pc[t] # "lock"

IInv == /\ TypeOK
        /\ \A t \in Thread : PhaseOK(t) /\ InOrder(t)
        /\ LocksOK
        /\ LogsOK

EarlyNext == Next \/ \E t \in Thread : ReturnEarly(t)

-------------------------------------------------------------------------------
(* Types *)

LEMMA Typing ==
    /\ Nothing \in Contents
    /\ EmptyVec \in [Storage -> 0..MaxCopies]
    /\ Storage \subseteq Nat
    /\ Backup \notin Thread /\ Nobody \notin Thread /\ Nobody # Backup
BY OwnerAssumption, NSAssumption, BoundAssumption DEF Nothing, Contents, EmptyVec, Storage

LEMMA RolledBackTyped ==
    ASSUME TypeOK, NEW s \in Storage
    PROVE  RolledBack(s) \in Contents
BY DEF TypeOK, RolledBack, Contents

LEMMA UnlockedTyped ==
    ASSUME TypeOK, NEW s \in Storage, NEW p
    PROVE  Unlocked(s, p) \in [Storage -> Thread \cup {Backup, Nobody}]
BY DEF TypeOK, Unlocked

LEMMA DataTyped ==
    ASSUME TypeOK, NEW t \in Thread, NEW s \in Storage, NEW k \in Key,
           Del(t, s, k) \/ \E v \in Val : Insert(t, s, k, v) \/ InsertNew(t, s, k, v)
    PROVE  TypeOK'
<1>2. \A n \in [Storage -> SUBSET Key], A \in SUBSET Key :
          [n EXCEPT ![s] = A] \in [Storage -> SUBSET Key]
  OBVIOUS
<1>3. db[s][k] \in Val \cup {NoVal} /\ new_key[s] \in SUBSET Key
  BY DEF TypeOK, Contents
<1>4. new_key[s] \cup {k} \in SUBSET Key /\ new_key[s] \ {k} \in SUBSET Key
  BY <1>3
<1>5. UNCHANGED <<locker, storage_vec, locked, refcnt, cancel, pc, asked, todo, backup>>
  BY DEF Insert, InsertNew, Del, contexts
<1>6. db' \in [Storage -> Contents]
  <2>1. PICK x \in Val \cup {NoVal} : db' = [db EXCEPT ![s][k] = x]
    BY DEF Insert, InsertNew, Del
  <2>2. db \in [Storage -> [Key -> Val \cup {NoVal}]]
    BY DEF TypeOK, Contents
  <2>3. db' \in [Storage -> [Key -> Val \cup {NoVal}]]
    BY <2>1, <2>2
  <2> QED BY <2>3 DEF Contents
<1>7. prepared' \in [Storage -> Contents]
  <2>1. prepared' = prepared \/ prepared' = [prepared EXCEPT ![s][k] = db[s][k]]
    BY DEF Insert, InsertNew, Del
  <2>2. prepared \in [Storage -> [Key -> Val \cup {NoVal}]]
    BY DEF TypeOK, Contents
  <2>3. prepared' \in [Storage -> [Key -> Val \cup {NoVal}]]
    BY <1>3, <2>1, <2>2
  <2> QED BY <2>3 DEF Contents
<1>8. new_key' \in [Storage -> SUBSET Key]
  BY <1>2, <1>4 DEF Insert, InsertNew, Del, TypeOK
<1> QED BY <1>5, <1>6, <1>7, <1>8 DEF TypeOK, backup

\* An entry of storage_vec is dealt with.
LEMMA EntryTyped ==
    ASSUME TypeOK, NEW t \in Thread, NEW s \in NextEntry(t)
    PROVE  /\ s \in Storage /\ todo[t][s] \in 1..MaxCopies
           /\ [todo EXCEPT ![t][s] = @ - 1] \in [Thread -> [Storage -> 0..MaxCopies]]
<1>1. s \in Storage /\ todo[t][s] \in 0..MaxCopies /\ todo[t][s] > 0
  BY DEF NextEntry, TypeOK
<1>2. todo[t][s] \in 1..MaxCopies /\ todo[t][s] - 1 \in 0..MaxCopies
  BY <1>1, BoundAssumption
<1> QED BY <1>1, <1>2 DEF TypeOK

LEMMA HandlerTyped ==
    ASSUME TypeOK, NEW t \in Thread, Handler(t) \/ ReturnEarly(t)
    PROVE  TypeOK'
<1> USE Typing
<1>1. CASE Ref(t)
  BY <1>1, BoundAssumption DEF Ref, TypeOK, storages, backup
<1>2. CASE BeginLock(t)
  BY <1>2 DEF BeginLock, TypeOK, storages, contexts, backup
<1>3. CASE LockStorage(t)
  <2>1. PICK s \in NextEntry(t) : /\ locker' = [locker EXCEPT ![s] = t]
                                 /\ todo' = [todo EXCEPT ![t][s] = @ - 1]
    BY <1>3 DEF LockStorage
  <2> QED BY <1>3, <2>1, EntryTyped DEF LockStorage, TypeOK, contexts, backup
<1>4. CASE EndLock(t)
  BY <1>4 DEF EndLock, TypeOK, storages, backup
<1>5. CASE Abort(t)
  BY <1>5 DEF Abort, TypeOK, storages, backup
<1>6. CASE Release(t)
  <2>1. /\ refcnt \in [Thread -> 0..MaxRef] /\ refcnt[t] > 0
        /\ refcnt' = [refcnt EXCEPT ![t] = refcnt[t] - 1]
    BY <1>6 DEF Release, TypeOK
  <2>2. refcnt[t] \in 0..MaxRef /\ refcnt[t] - 1 \in 0..MaxRef
    BY <2>1, BoundAssumption
  <2>3. refcnt' \in [Thread -> 0..MaxRef]
    BY <2>1, <2>2
  <2>4. pc' \in [Thread -> {"run", "leave", "lock", "unlock"}]
    <3>1. \/ pc' = pc \/ pc' = [pc EXCEPT ![t] = "unlock"] \/ pc' = [pc EXCEPT ![t] = "run"]
      BY <1>6 DEF Release
    <3> QED BY <3>1 DEF TypeOK
  <2>5. todo' \in [Thread -> [Storage -> 0..MaxCopies]]
    <3>1. storage_vec[t] \in [Storage -> 0..MaxCopies]
      BY DEF TypeOK
    <3>2. todo' = todo \/ todo' = [todo EXCEPT ![t] = storage_vec[t]]
      BY <1>6 DEF Release
    <3> QED BY <3>1, <3>2 DEF TypeOK
  <2>6. storage_vec' \in [Thread -> [Storage -> 0..MaxCopies]]
    BY <1>6 DEF Release, TypeOK
  <2>7. asked' \in [Thread -> SUBSET Storage]
    BY <1>6 DEF Release, TypeOK
  <2>8. UNCHANGED <<db, prepared, new_key, locker, locked, cancel, cpc, next, snapshot>>
    BY <1>6 DEF Release, storages, backup
  <2> QED BY <2>3, <2>4, <2>5, <2>6, <2>7, <2>8 DEF TypeOK
<1>7. CASE UnlockStorage(t)
  <2>1. PICK s \in NextEntry(t) :
               /\ db' = IF cancel[t] THEN [db EXCEPT ![s] = RolledBack(s)] ELSE db
               /\ prepared' = [prepared EXCEPT ![s] = Nothing]
               /\ new_key' = [new_key EXCEPT ![s] = {}]
               /\ locker' = Unlocked(s, t)
               /\ todo' = [todo EXCEPT ![t][s] = @ - 1]
    BY <1>7 DEF UnlockStorage
  <2>2. locker' \in [Storage -> Thread \cup {Backup, Nobody}] /\ db' \in [Storage -> Contents]
    BY <2>1, EntryTyped, UnlockedTyped, RolledBackTyped DEF TypeOK
  <2> QED BY <1>7, <2>1, <2>2, EntryTyped DEF UnlockStorage, TypeOK, contexts, backup
<1>8. CASE EndUnlock(t)
  BY <1>8 DEF EndUnlock, TypeOK, storages, backup
<1>9. CASE \E s \in Storage : GetStorage(t, s) \/ Throw(t, s)
  <2>1. ASSUME NEW s \in Storage, Throw(t, s) PROVE TypeOK'
    BY <2>1 DEF Throw, TypeOK, storages, backup
  <2>2. ASSUME NEW s \in Storage, GetStorage(t, s) PROVE TypeOK'
    <3>1. /\ storage_vec[t][s] \in 0..MaxCopies /\ storage_vec[t][s] < MaxCopies
          /\ storage_vec' = [storage_vec EXCEPT ![t][s] = @ + 1]
      BY <2>2 DEF GetStorage, TypeOK
    <3>2. storage_vec[t][s] + 1 \in 0..MaxCopies
      BY <3>1, BoundAssumption
    <3>3. storage_vec' \in [Thread -> [Storage -> 0..MaxCopies]]
      BY <3>1, <3>2 DEF TypeOK
    <3> QED BY <2>2, <3>3 DEF GetStorage, TypeOK, storages, backup
  <2> QED BY <1>9, <2>1, <2>2
<1>10. CASE \E s \in Storage, k \in Key :
               Del(t, s, k) \/ \E v \in Val : Insert(t, s, k, v) \/ InsertNew(t, s, k, v)
  BY <1>10, DataTyped
<1>11. CASE ReturnEarly(t)
  BY <1>11 DEF ReturnEarly, TypeOK, storages, contexts, backup
<1> QED
  BY <1>1, <1>2, <1>3, <1>4, <1>5, <1>6, <1>7, <1>8, <1>9, <1>10, <1>11 DEF Handler

LEMMA CheckpointTyped == TypeOK /\ Checkpoint => TypeOK'
<1> SUFFICES ASSUME TypeOK, Checkpoint PROVE TypeOK'
  OBVIOUS
<1> USE Typing, NSAssumption
<1>1. CASE BeginCheckpoint
  BY <1>1 DEF BeginCheckpoint, TypeOK, storages, contexts
<1>2. CASE BackupLocks
  BY <1>2 DEF BackupLocks, TypeOK, contexts, Storage
<1>3. CASE BeginSnapshots
  BY <1>3 DEF BeginSnapshots, TypeOK, storages, contexts
<1>4. CASE SnapshotCreate
  <2>1. next \in Storage /\ next' = next + 1 /\ next' \in 1..(NS + 1)
    BY <1>4 DEF SnapshotCreate, Storage
  <2>2. snapshot' \in [Storage -> Contents] /\ locker' \in [Storage -> Thread \cup {Backup, Nobody}]
    BY <1>4, <2>1, UnlockedTyped DEF SnapshotCreate, TypeOK
  <2> QED BY <1>4, <2>1, <2>2 DEF SnapshotCreate, TypeOK, contexts
<1>5. CASE Save
  BY <1>5 DEF Save, TypeOK, storages, contexts
<1>6. CASE SnapshotRelease
  BY <1>6 DEF SnapshotRelease, TypeOK, storages, contexts, Storage
<1>7. CASE EndCheckpoint
  BY <1>7 DEF EndCheckpoint, TypeOK, storages, contexts
<1> QED BY <1>1, <1>2, <1>3, <1>4, <1>5, <1>6, <1>7 DEF Checkpoint

LEMMA InitOK == Init => IInv
<1> SUFFICES ASSUME Init PROVE IInv
  OBVIOUS
<1> USE Typing
<1>1. TypeOK
  BY NSAssumption, BoundAssumption DEF Init, TypeOK
<1>2. \A t \in Thread : PhaseOK(t) /\ InOrder(t)
  BY DEF Init, PhaseOK, InOrder
<1>3. LocksOK
  BY DEF Init, LocksOK, Has, BackupHas
<1>4. LogsOK
  BY DEF Init, LogsOK, Clean
<1> QED BY <1>1, <1>2, <1>3, <1>4 DEF IInv

-------------------------------------------------------------------------------
(* The locks *)

SameThread(u) == /\ pc'[u] = pc[u] /\ locked'[u] = locked[u] /\ todo'[u] = todo[u]
                 /\ storage_vec'[u] = storage_vec[u] /\ asked'[u] = asked[u]

\* A handler's step changes its own context only, and no lock of others.
LEMMA Alone ==
    ASSUME TypeOK, NEW t \in Thread, Handler(t) \/ ReturnEarly(t)
    PROVE  /\ \A u \in Thread \ {t} : SameThread(u)
           /\ \A s \in Storage : locker'[s] # locker[s] =>
                 locker[s] \in {Nobody, t} /\ locker'[s] \in {Nobody, t}
           /\ UNCHANGED backup
<1>1. CASE Ref(t) \/ BeginLock(t) \/ EndLock(t) \/ Abort(t) \/ Release(t)
           \/ EndUnlock(t) \/ ReturnEarly(t)
  BY <1>1 DEF Ref, BeginLock, EndLock, Abort, Release, EndUnlock, ReturnEarly,
              storages, contexts, SameThread, TypeOK
<1>2. CASE LockStorage(t)
  BY <1>2 DEF LockStorage, LockReturns, contexts, SameThread, TypeOK
<1>3. CASE UnlockStorage(t)
  BY <1>3 DEF UnlockStorage, Unlocked, contexts, SameThread, TypeOK
<1>4. CASE \E s \in Storage : \/ GetStorage(t, s) \/ Throw(t, s)
                              \/ \E k \in Key : \/ Del(t, s, k)
                                                \/ \E v \in Val : Insert(t, s, k, v) \/ InsertNew(t, s, k, v)
  BY <1>4 DEF GetStorage, Throw, Del, Insert, InsertNew, storages, contexts, SameThread, TypeOK
<1> QED BY <1>1, <1>2, <1>3, <1>4 DEF Handler

LocksOf(t) == \A s \in Storage : locker[s] = t <=> Has(t, s)
ThreadOK(t) == PhaseOK(t) /\ InOrder(t) /\ LocksOf(t)

LEMMA SameThreadOK ==
    ASSUME NEW u \in Thread, SameThread(u), ThreadOK(u),
           \A s \in Storage : locker'[s] = u <=> locker[s] = u
    PROVE  ThreadOK(u)'
BY DEF SameThread, ThreadOK, PhaseOK, InOrder, LocksOf, Has

LEMMA LockStorageOK ==
    ASSUME TypeOK, NEW t \in Thread, ThreadOK(t), LockStorage(t)
    PROVE  ThreadOK(t)'
<1>1. PICK s \in NextEntry(t) : /\ locker' = [locker EXCEPT ![s] = t]
                                /\ todo' = [todo EXCEPT ![t][s] = @ - 1]
  BY DEF LockStorage
<1>2. /\ pc[t] = "lock" /\ pc' = pc /\ locked' = locked /\ storage_vec' = storage_vec
      /\ asked' = asked
  BY DEF LockStorage, contexts
<1>3. /\ s \in Storage /\ todo[t][s] > 0 /\ todo[t][s] \in Nat
      /\ \A r \in Storage : r < s => todo[t][r] = 0
  BY <1>1 DEF NextEntry, TypeOK
<1>4. \A r \in Storage : /\ todo'[t][r] = IF r = s THEN todo[t][r] - 1 ELSE todo[t][r]
                         /\ locker'[r] = IF r = s THEN t ELSE locker[r]
  BY <1>1, <1>3 DEF TypeOK
<1>5. \A r \in Storage : /\ todo[t][r] \in Nat /\ storage_vec[t][r] \in Nat /\ r \in Nat
                         /\ todo[t][r] <= storage_vec[t][r]
  <2>1. \A r \in Storage : todo[t][r] \in Nat /\ storage_vec[t][r] \in Nat
    BY BoundAssumption DEF TypeOK
  <2> QED BY <1>2, <2>1, Typing DEF ThreadOK, PhaseOK
<1>6. PhaseOK(t)'
  BY <1>2, <1>3, <1>4, <1>5 DEF PhaseOK, ThreadOK
<1>7. InOrder(t)'
  BY <1>2, <1>3, <1>4, <1>5 DEF InOrder, ThreadOK
<1>8. LocksOf(t)'
  BY <1>2, <1>3, <1>4, <1>5 DEF LocksOf, Has, ThreadOK
<1> QED BY <1>6, <1>7, <1>8 DEF ThreadOK

LEMMA UnlockStorageOK ==
    ASSUME TypeOK, NEW t \in Thread, ThreadOK(t), UnlockStorage(t)
    PROVE  ThreadOK(t)'
<1>1. PICK s \in NextEntry(t) : /\ locker' = Unlocked(s, t)
                                /\ todo' = [todo EXCEPT ![t][s] = @ - 1]
  BY DEF UnlockStorage
<1>2. /\ pc[t] = "unlock" /\ pc' = pc /\ locked' = locked /\ storage_vec' = storage_vec
      /\ asked' = asked
  BY DEF UnlockStorage, contexts
<1>3. s \in Storage /\ todo[t][s] > 0 /\ todo[t][s] \in Nat /\ Nobody # t
  BY <1>1, OwnerAssumption DEF NextEntry, TypeOK
<1>4. \A r \in Storage :
          /\ todo'[t][r] = IF r = s THEN todo[t][r] - 1 ELSE todo[t][r]
          /\ locker'[r] = IF r = s /\ locker[r] = t THEN Nobody ELSE locker[r]
  BY <1>1, <1>3 DEF TypeOK, Unlocked
<1>5. \A r \in Storage : /\ todo[t][r] \in Nat /\ storage_vec[t][r] \in Nat
                         /\ todo[t][r] <= storage_vec[t][r]
  BY <1>2, BoundAssumption DEF TypeOK, ThreadOK, PhaseOK
<1>6. PhaseOK(t)'
  BY <1>2, <1>3, <1>4, <1>5 DEF PhaseOK, ThreadOK
<1>7. InOrder(t)'
  BY <1>2 DEF InOrder
<1>8. LocksOf(t)'
  BY <1>2, <1>3, <1>4, <1>5 DEF LocksOf, Has, ThreadOK
<1> QED BY <1>6, <1>7, <1>8 DEF ThreadOK

LEMMA OwnLocks ==
    ASSUME TypeOK, NEW t \in Thread, ThreadOK(t), Handler(t) \/ ReturnEarly(t)
    PROVE  ThreadOK(t)'
<1>1. \A s \in Storage : storage_vec[t][s] \in Nat /\ todo[t][s] \in Nat
  BY BoundAssumption DEF TypeOK
<1>2. CASE Ref(t) \/ Abort(t)
  <2>1. pc[t] = "run" /\ UNCHANGED <<locker, storage_vec, locked, asked, todo>>
        /\ pc'[t] \in {"run", "leave"} /\ (locked[t] => pc'[t] = "run")
    BY <1>2 DEF Ref, Abort, storages, TypeOK
  <2> QED BY <2>1 DEF ThreadOK, PhaseOK, InOrder, LocksOf, Has
<1>3. CASE BeginLock(t)
  <2>1. /\ pc[t] = "run" /\ ~locked[t] /\ pc'[t] = "lock" /\ todo'[t] = storage_vec[t]
        /\ UNCHANGED <<locker, storage_vec, locked, asked>>
    BY <1>3 DEF BeginLock, storages, contexts, TypeOK
  <2> QED BY <1>1, <2>1 DEF ThreadOK, PhaseOK, InOrder, LocksOf, Has
<1>4. CASE EndLock(t)
  <2>1. /\ pc[t] = "lock" /\ pc'[t] = "run" /\ locked'[t] /\ \A s \in Storage : todo[t][s] = 0
        /\ UNCHANGED <<locker, storage_vec, asked, todo>>
    BY <1>4 DEF EndLock, EmptyVec, storages, TypeOK
  <2> QED BY <1>1, <2>1 DEF ThreadOK, PhaseOK, InOrder, LocksOf, Has
<1>5. CASE Release(t) /\ refcnt[t] > 1
  <2>1. UNCHANGED <<locker, storage_vec, locked, asked, todo, pc>>
    BY <1>5 DEF Release, storages
  <2> QED BY <2>1 DEF ThreadOK, PhaseOK, InOrder, LocksOf, Has
<1>6. CASE Release(t) /\ refcnt[t] <= 1 /\ locked[t]
  <2>1. /\ pc[t] \in {"run", "leave"} /\ locked[t] /\ pc'[t] = "unlock"
        /\ todo'[t] = storage_vec[t]
        /\ UNCHANGED <<locker, storage_vec, locked, asked>>
    BY <1>6 DEF Release, storages, TypeOK
  <2> QED BY <1>1, <2>1 DEF ThreadOK, PhaseOK, InOrder, LocksOf, Has
<1>7. CASE Release(t) /\ refcnt[t] <= 1 /\ ~locked[t]
  <2>1. /\ pc[t] \in {"run", "leave"} /\ ~locked[t] /\ pc'[t] = "run" /\ asked'[t] = {}
        /\ UNCHANGED <<locker, locked>>
    BY <1>7 DEF Release, storages, TypeOK
  <2> QED BY <2>1 DEF ThreadOK, PhaseOK, InOrder, LocksOf, Has
<1>8. CASE EndUnlock(t)
  <2>1. /\ pc[t] = "unlock" /\ \A s \in Storage : todo[t][s] = 0
        /\ pc'[t] = "run" /\ ~locked'[t] /\ asked'[t] = {} /\ UNCHANGED locker
    BY <1>8 DEF EndUnlock, EmptyVec, storages, TypeOK
  <2> QED BY <1>1, <2>1 DEF ThreadOK, PhaseOK, InOrder, LocksOf, Has
<1>9. ASSUME NEW s \in Storage, GetStorage(t, s) PROVE ThreadOK(t)'
  <2>1. /\ pc[t] = "run" /\ ~locked[t] /\ asked'[t] = asked[t] \cup {s}
        /\ \A r \in Storage : storage_vec'[t][r] = IF r = s THEN storage_vec[t][r] + 1 ELSE storage_vec[t][r]
        /\ UNCHANGED <<pc, locked, locker>> /\ asked[t] \subseteq Storage
    BY <1>9 DEF GetStorage, storages, TypeOK
  <2>2. \A r \in asked'[t] : storage_vec'[t][r] > 0
    BY <1>1, <2>1 DEF ThreadOK, PhaseOK
  <2>3. PhaseOK(t)' /\ InOrder(t)'
    BY <2>1, <2>2 DEF PhaseOK, InOrder
  <2>4. LocksOf(t)'
    BY <2>1 DEF ThreadOK, LocksOf, Has
  <2> QED BY <2>3, <2>4 DEF ThreadOK
<1>10. CASE \E s \in Storage : \/ Throw(t, s)
                               \/ \E k \in Key : \/ Del(t, s, k)
                                                 \/ \E v \in Val : Insert(t, s, k, v) \/ InsertNew(t, s, k, v)
  <2>1. UNCHANGED <<locker, storage_vec, locked, asked, todo, pc>>
    BY <1>10 DEF Throw, Del, Insert, InsertNew, storages, contexts
  <2> QED BY <2>1 DEF ThreadOK, PhaseOK, InOrder, LocksOf, Has
<1>11. CASE ReturnEarly(t)
  <2>1. asked'[t] = {} /\ UNCHANGED <<locker, storage_vec, locked, todo, pc>>
    BY <1>11 DEF ReturnEarly, storages, contexts, TypeOK
  <2> QED BY <2>1 DEF ThreadOK, PhaseOK, InOrder, LocksOf, Has
<1>12. refcnt[t] \in Nat
  BY BoundAssumption DEF TypeOK
<1> QED BY <1>2, <1>3, <1>4, <1>5, <1>6, <1>7, <1>8, <1>9, <1>10, <1>11, <1>12,
           LockStorageOK, UnlockStorageOK DEF Handler

-------------------------------------------------------------------------------
(* The undo logs *)

\* A storage a handler works on is locked by it.
LEMMA WorkingHas ==
    ASSUME IInv, NEW t \in Thread, NEW s \in Storage, Working(t, s)
    PROVE  locker[s] = t /\ pc[t] = "run"
<1>1. pc[t] = "run" /\ locked[t] /\ storage_vec[t][s] > 0
  BY DEF Working, IInv, PhaseOK
<1> QED BY <1>1 DEF IInv, LocksOK, Has

LEMMA LogsStep ==
    ASSUME IInv, NEW t \in Thread, Handler(t) \/ ReturnEarly(t)
    PROVE  LogsOK'
<1> SUFFICES ASSUME NEW s \in Storage
             PROVE  Clean(s)' \/ \E u \in Thread : locker'[s] = u /\ pc'[u] # "lock"
  BY DEF LogsOK
<1>1. TypeOK /\ ThreadOK(t)
  BY DEF IInv, LocksOK, ThreadOK, LocksOf
<1>2. Clean(s) \/ \E u \in Thread : locker[s] = u /\ pc[u] # "lock"
  BY DEF IInv, LogsOK
<1>3. ASSUME NEW u \in Thread \ {t}, locker[s] = u, pc[u] # "lock"
      PROVE  locker'[s] = u /\ pc'[u] # "lock"
  BY <1>1, <1>3, Alone, Typing DEF SameThread
<1>4. CASE Ref(t) \/ EndLock(t) \/ Abort(t) \/ Release(t) \/ EndUnlock(t) \/ ReturnEarly(t)
           \/ \E r \in Storage : GetStorage(t, r) \/ Throw(t, r)
  <2>1. UNCHANGED <<prepared, new_key, locker>> /\ pc'[t] \in {pc[t], "run", "leave", "unlock"}
    BY <1>1, <1>4 DEF Ref, EndLock, Abort, Release, EndUnlock, ReturnEarly, GetStorage, Throw,
                      storages, contexts, TypeOK
  <2> QED BY <1>2, <1>3, <2>1 DEF Clean
<1>5. CASE BeginLock(t)
  <2>1. UNCHANGED <<prepared, new_key, locker>> /\ pc[t] = "run" /\ ~locked[t]
    BY <1>5 DEF BeginLock, storages
  <2>2. locker[s] # t
    BY <1>1, <2>1 DEF ThreadOK, LocksOf, Has
  <2> QED BY <1>2, <1>3, <2>1, <2>2 DEF Clean
<1>6. CASE LockStorage(t)
  <2>1. UNCHANGED <<prepared, new_key, pc>> /\ pc[t] = "lock"
    BY <1>6 DEF LockStorage
  <2> QED BY <1>2, <1>3, <2>1 DEF Clean
<1>7. CASE UnlockStorage(t)
  <2>1. PICK r \in NextEntry(t) : /\ prepared' = [prepared EXCEPT ![r] = Nothing]
                                  /\ new_key' = [new_key EXCEPT ![r] = {}]
                                  /\ locker' = Unlocked(r, t) /\ pc' = pc
    BY <1>7 DEF UnlockStorage
  <2>2. CASE r = s
    BY <1>1, <2>1, <2>2 DEF Clean, TypeOK
  <2>3. CASE r # s
    <3>1. prepared'[s] = prepared[s] /\ new_key'[s] = new_key[s] /\ locker'[s] = locker[s]
      BY <1>1, <2>1, <2>3 DEF TypeOK, Unlocked
    <3> QED BY <1>2, <2>1, <3>1 DEF Clean
  <2> QED BY <2>2, <2>3
<1>8. ASSUME NEW r \in Storage, NEW k \in Key,
             Del(t, r, k) \/ \E v \in Val : Insert(t, r, k, v) \/ InsertNew(t, r, k, v)
      PROVE  Clean(s)' \/ \E u \in Thread : locker'[s] = u /\ pc'[u] # "lock"
  <2>1. Working(t, r) /\ UNCHANGED <<locker, pc>>
    BY <1>8 DEF Del, Insert, InsertNew
  <2>2. CASE r = s
    BY <2>1, <2>2, WorkingHas
  <2>3. CASE r # s
    <3>1. prepared'[s] = prepared[s] /\ new_key'[s] = new_key[s]
      BY <1>1, <1>8, <2>3 DEF Del, Insert, InsertNew, TypeOK
    <3> QED BY <1>2, <2>1, <3>1 DEF Clean
  <2> QED BY <2>2, <2>3
<1> QED BY <1>4, <1>5, <1>6, <1>7, <1>8 DEF Handler

-------------------------------------------------------------------------------
(* Invariance *)

LEMMA HandlerStep ==
    ASSUME IInv, NEW t \in Thread, Handler(t) \/ ReturnEarly(t)
    PROVE  IInv'
<1>1. TypeOK /\ \A u \in Thread : ThreadOK(u)
  BY DEF IInv, LocksOK, ThreadOK, LocksOf
<1>2. ASSUME NEW u \in Thread PROVE ThreadOK(u)'
  <2>1. CASE u = t
    BY <1>1, <2>1, OwnLocks
  <2>2. CASE u # t
    <3>1. SameThread(u) /\ \A s \in Storage : locker'[s] = u <=> locker[s] = u
      BY <1>1, <2>2, Alone, Typing
    <3> QED BY <1>1, <3>1, SameThreadOK
  <2> QED BY <2>1, <2>2
<1>3. LocksOK'
  <2>1. \A s \in Storage : locker'[s] = Backup <=> locker[s] = Backup
    BY <1>1, Alone, Typing
  <2>2. UNCHANGED backup
    BY <1>1, Alone
  <2>3. \A s \in Storage : BackupHas(s)' <=> BackupHas(s)
    BY <2>2 DEF BackupHas, backup
  <2>4. \A s \in Storage : locker'[s] = Backup <=> BackupHas(s)'
    BY <2>1, <2>3 DEF IInv, LocksOK
  <2>5. \A u \in Thread, s \in Storage : locker'[s] = u <=> Has(u, s)'
    BY <1>2 DEF ThreadOK, LocksOf
  <2> QED BY <2>4, <2>5 DEF LocksOK
<1> QED BY <1>1, <1>2, <1>3, HandlerTyped, LogsStep DEF IInv, ThreadOK

LEMMA CheckpointStep == IInv /\ Checkpoint => IInv'
<1> SUFFICES ASSUME IInv, Checkpoint PROVE IInv'
  OBVIOUS
<1>1. /\ UNCHANGED <<db, prepared, new_key, storage_vec, locked, cancel, refcnt, pc, asked, todo>>
      /\ TypeOK /\ TypeOK'
  BY CheckpointTyped DEF IInv, Checkpoint, BeginCheckpoint, BackupLocks, BeginSnapshots,
     SnapshotCreate, Save, SnapshotRelease, EndCheckpoint, storages, contexts
<1>2. /\ \A t \in Thread, s \in Storage : locker'[s] = t <=> locker[s] = t
      /\ \A s \in Storage : locker'[s] = Backup <=> BackupHas(s)'
  <2>1. /\ next \in Nat /\ NS \in Nat /\ Storage \subseteq Nat /\ \A s \in Storage : 1 <= s /\ s <= NS
        /\ \A s \in Storage : locker[s] = Backup <=> BackupHas(s)
    BY <1>1, NSAssumption DEF TypeOK, Storage, IInv, LocksOK
  <2>2. CASE BeginCheckpoint
    BY <2>1, <2>2 DEF BeginCheckpoint, BackupHas, storages
  <2>3. CASE BackupLocks
    <3>1. /\ cpc = "lock" /\ cpc' = "lock" /\ next' = next + 1 /\ locker[next] = Nobody
          /\ \A s \in Storage : locker'[s] = IF s = next THEN Backup ELSE locker[s]
      BY <1>1, <2>3 DEF BackupLocks, TypeOK
    <3>2. ASSUME NEW t \in Thread, NEW s \in Storage PROVE locker'[s] = t <=> locker[s] = t
      BY <3>1, Typing
    <3>3. \A s \in Storage : locker'[s] = Backup <=> s < next \/ s = next
      BY <2>1, <3>1 DEF BackupHas
    <3>4. \A s \in Storage : BackupHas(s)' <=> s < next \/ s = next
      BY <2>1, <3>1 DEF BackupHas
    <3> QED BY <3>2, <3>3, <3>4
  <2>4. CASE BeginSnapshots
    BY <2>1, <2>4 DEF BeginSnapshots, AllLocked, BackupHas, storages
  <2>5. CASE SnapshotCreate
    <3>1. /\ cpc = "snapshot" /\ cpc' = "snapshot" /\ next' = next + 1 /\ next \in Storage
          /\ \A s \in Storage : locker'[s] = IF s = next /\ locker[s] = Backup THEN Nobody
                                            ELSE locker[s]
      BY <1>1, <2>5 DEF SnapshotCreate, Unlocked, TypeOK
    <3>2. ASSUME NEW t \in Thread, NEW s \in Storage PROVE locker'[s] = t <=> locker[s] = t
      BY <3>1, Typing
    <3>3. \A s \in Storage : locker'[s] = Backup <=> next <= s /\ s # next
      BY <2>1, <3>1, Typing DEF BackupHas
    <3>4. \A s \in Storage : BackupHas(s)' <=> next <= s /\ s # next
      BY <2>1, <3>1 DEF BackupHas
    <3> QED BY <3>2, <3>3, <3>4
  <2>6. CASE Save
    BY <2>1, <2>6 DEF Save, BackupHas, storages
  <2>7. CASE SnapshotRelease \/ EndCheckpoint
    BY <2>1, <2>7 DEF SnapshotRelease, EndCheckpoint, BackupHas, storages
  <2> QED BY <2>2, <2>3, <2>4, <2>5, <2>6, <2>7 DEF Checkpoint
<1>3. \A t \in Thread : PhaseOK(t)' /\ InOrder(t)'
  BY <1>1 DEF IInv, PhaseOK, InOrder
<1>4. LocksOK'
  BY <1>1, <1>2 DEF IInv, LocksOK, Has
<1>5. LogsOK'
  BY <1>1, <1>2 DEF IInv, LogsOK, Clean
<1> QED BY <1>1, <1>3, <1>4, <1>5 DEF IInv

LEMMA InvariantStep == IInv /\ [EarlyNext]_vars => IInv'
<1>1. IInv /\ UNCHANGED vars => IInv'
  BY DEF IInv, TypeOK, PhaseOK, InOrder, LocksOK, Has, BackupHas, LogsOK, Clean,
         vars, storages, contexts, backup
<1> QED BY <1>1, HandlerStep, CheckpointStep DEF EarlyNext, Next

\* The inductive invariant, with the handler that returns early.
THEOREM Invariance == EarlySpec => []IInv
BY InitOK, InvariantStep, PTL DEF EarlySpec, EarlyNext

\* Every variable has its type.
THEOREM TypeCorrect == EarlySpec => []TypeOK
<1>1. IInv => TypeOK
  BY DEF IInv
<1> QED BY <1>1, Invariance, PTL

\* A thread between two handlers holds no storage.
THEOREM NoLockStaysBehind == EarlySpec => []NoLockLeftBehind
<1>1. IInv => NoLockLeftBehind
  BY DEF IInv, LocksOK, Has, NoLockLeftBehind
<1> QED BY <1>1, Invariance, PTL

-------------------------------------------------------------------------------
(* No deadlock *)

LEMMA LargestExists ==
    ASSUME NEW n \in Nat, NEW S \in SUBSET (1..n), S # {}
    PROVE  \E m \in S : \A s \in S : s <= m
<1> DEFINE R == {ss \in Nat \X Nat : ss[1] < ss[2]}
           D == {n - s : s \in S}
<1>1. IsWellFoundedOn(R, Nat)
  BY NatLessThanWellFounded DEF OpToRel
<1>2. D \in SUBSET Nat /\ D # {}
  <2>1. \A s \in S : n - s \in Nat
    OBVIOUS
  <2> QED BY <2>1
<1>3. PICK d \in D : \A e \in D : ~ (<<e, d>> \in R)
  <2> HIDE DEF R, D
  <2> QED BY <1>1, <1>2, WFMin
<1>4. PICK m \in S : d = n - m
  OBVIOUS
<1>5. ASSUME NEW s \in S PROVE s <= m
  <2>1. ~ (n - s < d)
    BY <1>2, <1>3
  <2> QED BY <1>4, <2>1
<1> QED BY <1>5

\* Who holds a storage waits only for later ones.
LEMMA WaitsForLater ==
    ASSUME IInv, NEW q \in Thread \cup {Backup}, NEW s \in Storage, NEW r \in Storage,
           locker[s] = q, WaitsFor(q, r)
    PROVE  s < r
<1>1. s \in Nat /\ r \in Nat
  BY Typing
<1>2. CASE q = Backup
  <2>1. BackupHas(s) /\ cpc \in {"lock", "release"} /\ r = next
    BY <1>2 DEF IInv, LocksOK, WaitsFor
  <2> QED BY <2>1 DEF BackupHas
<1>3. CASE q # Backup
  <2>1. q \in Thread /\ pc[q] = "lock" /\ todo[q][r] > 0 /\ locker[r] # q
    BY <1>3 DEF WaitsFor, NextEntry, LockReturns
  <2>2. todo[q][s] < storage_vec[q][s]
    BY <2>1 DEF IInv, LocksOK, Has
  <2>3. todo[q][r] # 0
    BY <2>1
  <2>4. ~ (r < s)
    BY <2>1, <2>2, <2>3 DEF IInv, InOrder
  <2> QED BY <1>1, <2>1, <2>4
<1> QED BY <1>2, <1>3

\* In no set of threads does each wait for a storage that another one has locked.
THEOREM NoDeadlockEver == EarlySpec => []NoDeadlock
<1>1. ASSUME IInv, NEW W \in SUBSET (Thread \cup {Backup}), W # {},
             \A p \in W : \E s \in Storage : WaitsFor(p, s) /\ locker[s] \in W
      PROVE  FALSE
  <2> DEFINE S == {s \in Storage : \E p \in W : WaitsFor(p, s) /\ locker[s] \in W}
  <2>1. S \in SUBSET (1..NS) /\ S # {}
    BY <1>1 DEF Storage
  <2>2. PICK m \in S : \A s \in S : s <= m
    <3> HIDE DEF S
    <3> QED BY <2>1, LargestExists, NSAssumption
  <2>3. m \in Storage /\ locker[m] \in W
    OBVIOUS
  <2>4. PICK r \in Storage : WaitsFor(locker[m], r) /\ locker[r] \in W
    BY <1>1, <2>3
  <2>5. r \in S
    BY <2>3, <2>4
  <2>6. m < r
    BY <1>1, <2>3, <2>4, WaitsForLater
  <2> QED BY <2>2, <2>3, <2>5, <2>6, Typing
<1>2. IInv => NoDeadlock
  BY <1>1 DEF NoDeadlock
<1> QED BY <1>2, Invariance, PTL

-------------------------------------------------------------------------------
(* Without the early return *)

\* A handler's storages are in its context once.
Once(t) == \A s \in Storage : storage_vec[t][s] = IF s \in asked[t] THEN 1 ELSE 0

SInv == IInv /\ \A t \in Thread : Once(t)

LEMMA OnceStep ==
    ASSUME TypeOK, NEW t \in Thread, Once(t), Handler(t)
    PROVE  Once(t)'
<1>1. CASE \E s \in Storage : GetStorage(t, s)
  BY <1>1 DEF GetStorage, Once, TypeOK
<1>2. CASE Release(t)
  BY <1>2 DEF Release, Once, EmptyVec, TypeOK
<1>3. CASE EndUnlock(t)
  BY <1>3 DEF EndUnlock, Once, EmptyVec, TypeOK
<1>4. CASE \/ Ref(t) \/ BeginLock(t) \/ LockStorage(t) \/ EndLock(t) \/ Abort(t) \/ UnlockStorage(t)
           \/ \E s \in Storage : \/ Throw(t, s)
                                 \/ \E k \in Key : \/ Del(t, s, k)
                                                   \/ \E v \in Val : Insert(t, s, k, v) \/ InsertNew(t, s, k, v)
  <2>1. UNCHANGED <<storage_vec, asked>>
    BY <1>4 DEF Ref, BeginLock, LockStorage, EndLock, Abort, UnlockStorage, Throw, Del, Insert,
                InsertNew, contexts
  <2> QED BY <2>1 DEF Once
<1> QED BY <1>1, <1>2, <1>3, <1>4 DEF Handler

LEMMA SInvStep == SInv /\ [Next]_vars => SInv'
<1> SUFFICES ASSUME SInv, [Next]_vars PROVE SInv'
  OBVIOUS
<1>1. IInv /\ TypeOK /\ IInv'
  BY InvariantStep DEF SInv, IInv, EarlyNext
<1>2. CASE Checkpoint \/ UNCHANGED vars
  <2>1. UNCHANGED <<storage_vec, asked>>
    BY <1>2 DEF Checkpoint, BeginCheckpoint, BackupLocks, BeginSnapshots, SnapshotCreate, Save,
                SnapshotRelease, EndCheckpoint, contexts, vars
  <2> QED BY <1>1, <2>1 DEF SInv, Once
<1>3. ASSUME NEW t \in Thread, Handler(t) PROVE SInv'
  <2>1. \A u \in Thread \ {t} : Once(u)'
    BY <1>1, <1>3, Alone DEF SInv, Once, SameThread
  <2> QED BY <1>1, <1>3, <2>1, OnceStep DEF SInv
<1> QED BY <1>2, <1>3 DEF Next

LEMMA SInvInit == Init => SInv
BY InitOK DEF SInv, Init, Once, EmptyVec

\* The invariant of the storages without the early return.
THEOREM SerialInvariance == Spec => []SInv
BY SInvInit, SInvStep, PTL DEF Spec

\* What a thread unlocks it has locked.
LEMMA UnlocksItsOwn ==
    ASSUME SInv, NEW t \in Thread, pc[t] = "unlock", NEW s \in NextEntry(t)
    PROVE  s \in Storage /\ locker[s] = t
<1>1. s \in Storage /\ todo[t][s] \in Nat /\ todo[t][s] > 0 /\ todo[t][s] <= storage_vec[t][s]
  BY BoundAssumption DEF NextEntry, SInv, IInv, TypeOK, PhaseOK
<1>2. storage_vec[t][s] = 1
  BY <1>1 DEF SInv, Once
<1>3. Has(t, s)
  BY <1>1, <1>2 DEF Has
<1> QED BY <1>1, <1>3 DEF SInv, IInv, LocksOK

\* A handler changes no storage that it has not locked.
LEMMA OthersData ==
    ASSUME SInv, NEW t \in Thread, Handler(t), NEW s \in Storage, locker[s] # t
    PROVE  db'[s] = db[s] /\ prepared'[s] = prepared[s] /\ new_key'[s] = new_key[s]
<1>1. IInv /\ TypeOK
  BY DEF SInv, IInv
<1>2. CASE UnlockStorage(t)
  <2>1. PICK r \in NextEntry(t) : /\ db' = IF cancel[t] THEN [db EXCEPT ![r] = RolledBack(r)] ELSE db
                                  /\ prepared' = [prepared EXCEPT ![r] = Nothing]
                                  /\ new_key' = [new_key EXCEPT ![r] = {}]
    BY <1>2 DEF UnlockStorage
  <2>2. pc[t] = "unlock"
    BY <1>2 DEF UnlockStorage
  <2>3. r # s
    BY <2>2, UnlocksItsOwn
  <2> QED BY <1>1, <2>1, <2>3 DEF TypeOK
<1>3. ASSUME NEW r \in Storage, NEW k \in Key,
             Del(t, r, k) \/ \E v \in Val : Insert(t, r, k, v) \/ InsertNew(t, r, k, v)
      PROVE  db'[s] = db[s] /\ prepared'[s] = prepared[s] /\ new_key'[s] = new_key[s]
  <2>1. r # s
    BY <1>1, <1>3, WorkingHas DEF Del, Insert, InsertNew
  <2> QED BY <1>1, <1>3, <2>1 DEF Del, Insert, InsertNew, TypeOK
<1>4. CASE \/ Ref(t) \/ BeginLock(t) \/ LockStorage(t) \/ EndLock(t) \/ Abort(t) \/ Release(t)
           \/ EndUnlock(t) \/ \E r \in Storage : GetStorage(t, r) \/ Throw(t, r)
  BY <1>4 DEF Ref, BeginLock, LockStorage, EndLock, Abort, Release, EndUnlock, GetStorage, Throw, storages
<1> QED BY <1>2, <1>3, <1>4 DEF Handler

\* What an abort would put back is not changed by an operation.
LEMMA OperationsKeepLogs ==
    ASSUME TypeOK, NEW t \in Thread, NEW r \in Storage, NEW k \in Key,
           Del(t, r, k) \/ \E v \in Val : Insert(t, r, k, v) \/ InsertNew(t, r, k, v),
           NEW s \in Storage
    PROVE  RolledBack(s)' = RolledBack(s)
<1> DEFINE Back(x) == IF x \in new_key[s] THEN NoVal
                      ELSE IF prepared[s][x] # NoVal THEN prepared[s][x] ELSE db[s][x]
<1>1. SUFFICES ASSUME NEW x \in Key PROVE Back(x)' = Back(x)
  BY DEF RolledBack
<1>2. CASE s = r /\ x = k
  <2>1. CASE \E v \in Val : Insert(t, r, k, v)
    <3>1. /\ prepared'[s][x] = IF Untouched(s, x) THEN db[s][x] ELSE prepared[s][x]
          /\ new_key'[s] = IF Untouched(s, x) /\ db[s][x] = NoVal THEN new_key[s] \cup {x} ELSE new_key[s]
      BY <1>2, <2>1 DEF Insert, TypeOK, Contents
    <3> QED BY <3>1 DEF Untouched
  <2>2. CASE \E v \in Val : InsertNew(t, r, k, v)
    <3>1. /\ prepared'[s][x] = prepared[s][x] /\ db[s][x] = NoVal /\ prepared[s][x] = NoVal
          /\ new_key'[s] = new_key[s] \cup {x}
      BY <1>2, <2>2 DEF InsertNew, TypeOK, Contents
    <3> QED BY <3>1
  <2>3. CASE Del(t, r, k)
    <3>1. /\ prepared'[s][x] = IF Untouched(s, x) THEN db[s][x] ELSE prepared[s][x]
          /\ new_key'[s] = IF prepared[s][x] = NoVal THEN new_key[s] \ {x} ELSE new_key[s]
          /\ db'[s][x] = NoVal
      BY <1>2, <2>3 DEF Del, TypeOK, Contents
    <3> QED BY <3>1 DEF Untouched
  <2> QED BY <2>1, <2>2, <2>3
<1>3. CASE ~(s = r /\ x = k)
  <2>1. /\ db'[s][x] = db[s][x] /\ prepared'[s][x] = prepared[s][x]
    BY <1>3 DEF Del, Insert, InsertNew, TypeOK, Contents
  <2>2. x \in new_key'[s] <=> x \in new_key[s]
    BY <1>3 DEF Del, Insert, InsertNew, TypeOK
  <2> QED BY <2>1, <2>2
<1> QED BY <1>2, <1>3

\* A storage of an open transaction is locked by its thread.
LEMMA ScopeIsLocked ==
    ASSUME IInv, NEW t \in Thread, NEW s \in Scope(t)
    PROVE  s \in Storage /\ locker[s] = t /\ locked[t] /\ pc[t] = "run" /\ storage_vec[t][s] > 0
<1>1. s \in Storage /\ locked[t] /\ pc[t] # "unlock" /\ storage_vec[t][s] > 0
  BY DEF Scope
<1>2. pc[t] = "run"
  BY <1>1 DEF IInv, TypeOK, PhaseOK
<1> QED BY <1>1, <1>2 DEF IInv, LocksOK, Has

\* Only the end of the last Transaction of a thread ends its scope.
THEOREM OuterTransactionDecides == Spec => OuterKeepsScope
<1>1. ASSUME SInv, [Next]_vars, NEW t \in Thread, refcnt[t] > 0, refcnt'[t] > 0, NEW s \in Scope(t)
      PROVE  s \in Scope(t)' /\ RolledBack(s)' = RolledBack(s)
  <2>1. IInv /\ TypeOK
    BY <1>1 DEF SInv, IInv
  <2>2. s \in Storage /\ locker[s] = t /\ locked[t] /\ pc[t] = "run" /\ storage_vec[t][s] > 0
    BY <2>1, ScopeIsLocked
  <2>3. CASE Checkpoint \/ UNCHANGED vars
    <3>1. UNCHANGED <<db, prepared, new_key, storage_vec, locked, pc>>
      BY <2>3 DEF Checkpoint, BeginCheckpoint, BackupLocks, BeginSnapshots, SnapshotCreate, Save,
                  SnapshotRelease, EndCheckpoint, storages, contexts, vars
    <3> QED BY <2>2, <3>1 DEF Scope, RolledBack
  <2>4. ASSUME NEW u \in Thread \ {t}, Handler(u)
        PROVE  s \in Scope(t)' /\ RolledBack(s)' = RolledBack(s)
    <3>1. db'[s] = db[s] /\ prepared'[s] = prepared[s] /\ new_key'[s] = new_key[s]
      BY <1>1, <2>2, <2>4, OthersData
    <3>2. SameThread(t)
      BY <2>1, <2>4, Alone
    <3> QED BY <2>2, <3>1, <3>2 DEF Scope, RolledBack, SameThread
  <2>5. CASE Handler(t)
    <3>1. CASE Ref(t) \/ Abort(t) \/ Release(t) \/ \E r \in Storage : Throw(t, r)
      <4>1. refcnt[t] \in Nat /\ (Release(t) => refcnt'[t] = refcnt[t] - 1)
        BY <2>1, BoundAssumption DEF TypeOK, Release
      <4>2. Release(t) => refcnt[t] > 1
        BY <1>1, <4>1
      <4>3. UNCHANGED <<db, prepared, new_key, storage_vec, locked>> /\ pc'[t] = "run"
        BY <2>1, <2>2, <3>1, <4>2 DEF Ref, Abort, Release, Throw, storages, TypeOK
      <4> QED BY <2>2, <4>3 DEF Scope, RolledBack
    <3>2. ASSUME NEW r \in Storage, NEW k \in Key,
                 Del(t, r, k) \/ \E v \in Val : Insert(t, r, k, v) \/ InsertNew(t, r, k, v)
          PROVE  s \in Scope(t)' /\ RolledBack(s)' = RolledBack(s)
      <4>1. UNCHANGED <<storage_vec, locked, pc>>
        BY <3>2 DEF Del, Insert, InsertNew, contexts
      <4> QED BY <2>1, <2>2, <3>2, <4>1, OperationsKeepLogs DEF Scope
    <3>3. ~(\E r \in Storage : GetStorage(t, r)) /\ ~BeginLock(t) /\ ~LockStorage(t) /\ ~EndLock(t)
          /\ ~UnlockStorage(t) /\ ~EndUnlock(t)
      BY <2>2 DEF GetStorage, BeginLock, LockStorage, EndLock, UnlockStorage, EndUnlock
    <3> QED BY <2>5, <3>1, <3>2, <3>3 DEF Handler
  <2> QED BY <1>1, <2>3, <2>4, <2>5 DEF Next
<1>2. SInv /\ [Next]_vars => [KeepsScopes]_vars
  BY <1>1 DEF KeepsScopes
<1> QED BY <1>2, SerialInvariance, PTL DEF Spec, OuterKeepsScope

-------------------------------------------------------------------------------
(* The serial store: transactions and checkpoints of StorageTxn implement   *)
(* SerialStore.                                                             *)

Image(s) == IF Waiting(s) THEN db[s] ELSE snapshot[s]

\* A storage without values to put back is as its last transaction left it.
LEMMA CleanIsCommitted ==
    ASSUME TypeOK, NEW s \in Storage, Clean(s)
    PROVE  RolledBack(s) = db[s] /\ Committed(s) = db[s]
<1>1. db[s] = [k \in Key |-> db[s][k]]
  BY DEF TypeOK, Contents
<1>2. RolledBack(s) = [k \in Key |-> db[s][k]]
  BY DEF Clean, Nothing, RolledBack
<1> QED BY <1>1, <1>2 DEF Committed

LEMMA CleanCounts == \A s \in Storage : TypeOK /\ Clean(s) => Committed(s) = db[s]
BY CleanIsCommitted

LEMMA InitRefines == Init => Serial!Init
<1> SUFFICES ASSUME Init PROVE Serial!Init
  OBVIOUS
<1>1. TypeOK /\ \A s \in Storage : Clean(s)
  BY InitOK DEF Init, Clean, IInv
<1>2. \A s \in Storage : Committed(s) = db[s] /\ db[s] \in Contents /\ Image(s) = db[s]
  BY <1>1, CleanIsCommitted DEF TypeOK, Init, Image, Waiting
<1>3. \A t \in Thread : Scope(t) = {}
  BY DEF Init, Scope
<1> QED BY <1>2, <1>3 DEF Serial!Init, Image

-------------------------------------------------------------------------------
(* What a handler's step leaves to the others *)

LEMMA OthersStay ==
    ASSUME SInv, NEW t \in Thread, Handler(t), NEW u \in Thread \ {t}
    PROVE  /\ Scope(u)' = Scope(u)
           /\ \A s \in Scope(u) : db'[s] = db[s]
           /\ Committing(u)' <=> Committing(u)
<1>1. IInv /\ TypeOK
  BY DEF SInv, IInv
<1>2. SameThread(u)
  BY <1>1, Alone
<1>3. \A s \in Scope(u) : s \in Storage /\ locker[s] # t
  BY <1>1, ScopeIsLocked
<1>4. cancel'[u] = cancel[u]
  BY <1>1 DEF TypeOK, Handler, Ref, BeginLock, LockStorage, EndLock, Abort, Release, UnlockStorage,
              EndUnlock, GetStorage, Throw, Del, Insert, InsertNew, contexts
<1> QED BY <1>2, <1>3, <1>4, OthersData DEF Scope, SameThread, Committing

LEMMA ImageStays ==
    ASSUME SInv, NEW t \in Thread, Handler(t), NEW s \in Storage
    PROVE  Image(s)' = Image(s)
<1>1. UNCHANGED backup
  BY Alone DEF SInv, IInv
<1>2. Waiting(s) => locker[s] = Backup
  BY DEF Waiting, BackupHas, SInv, IInv, LocksOK
<1>3. Waiting(s) => db'[s] = db[s]
  BY <1>2, OthersData, Typing
<1> QED BY <1>1, <1>3 DEF Image, Waiting, backup

LEMMA CommittedStays ==
    ASSUME SInv, NEW t \in Thread, Handler(t), NEW s \in Storage, locker[s] # t
    PROVE  Committed(s)' = Committed(s)
<1>1. db'[s] = db[s] /\ RolledBack(s)' = RolledBack(s)
  BY OthersData DEF RolledBack
<1>2. \A u \in Thread \ {t} : /\ Committing(u)' <=> Committing(u)
                              /\ locker'[s] = u <=> locker[s] = u
  BY OthersStay, Alone, Typing DEF SInv, IInv
<1>3. ~(locker'[s] = t /\ Committing(t)')
  <2>1. SUFFICES ASSUME locker'[s] = t PROVE pc'[t] # "unlock"
    BY DEF Committing
  <2>2. CASE LockStorage(t)
    BY <2>2 DEF LockStorage
  <2>3. CASE UnlockStorage(t)
    BY <2>1, <2>3 DEF UnlockStorage, Unlocked, SInv, IInv, TypeOK
  <2>4. CASE ~LockStorage(t) /\ ~UnlockStorage(t)
    BY <2>1, <2>4 DEF Handler, Ref, BeginLock, EndLock, Abort, Release, EndUnlock, GetStorage, Throw,
                      Del, Insert, InsertNew, storages
  <2> QED BY <2>2, <2>3, <2>4
<1> QED BY <1>1, <1>2, <1>3 DEF Committed

\* Of a storage of its own, the thread decides what counts.
LEMMA OwnCommitted ==
    \A t \in Thread, s \in Storage : locker[s] = t =>
        Committed(s) = IF Committing(t) THEN db[s] ELSE RolledBack(s)
BY DEF Committed

\* What the step of thread t does to t itself decides the abstract step.
LEMMA StutterStep ==
    ASSUME SInv, NEW t \in Thread, Handler(t), Scope(t)' = Scope(t),
           \A s \in Scope(t) : db'[s] = db[s],
           \A s \in Storage : locker[s] = t => Committed(s)' = Committed(s)
    PROVE  UNCHANGED Serial!vars
<1>1. \A s \in Storage : Committed(s)' = Committed(s) /\ Image(s)' = Image(s)
  BY CommittedStays, ImageStays
<1>2. \A u \in Thread : Scope(u)' = Scope(u) /\ \A s \in Scope(u) : db'[s] = db[s]
  BY OthersStay
<1> QED BY <1>1, <1>2 DEF Serial!vars, Image

-------------------------------------------------------------------------------
(* The steps of a handler *)

\* The first operation begins the transaction.
LEMMA EndLockRefines ==
    ASSUME SInv, NEW t \in Thread, EndLock(t), IInv', NEW S, S = Scope(t)'
    PROVE  Serial!Begin(t, S)
<1>1. /\ Handler(t) /\ IInv /\ TypeOK /\ ~locked[t] /\ pc[t] = "lock" /\ UNCHANGED storages
      /\ pc'[t] = "run"
  BY DEF Handler, EndLock, SInv, IInv, PhaseOK, TypeOK
<1>2. Scope(t) = {}
  BY <1>1 DEF Scope
<1>3. \A s \in S : s \in Storage /\ locker'[s] = t
  <2>1. \A s \in S : s \in Storage /\ storage_vec'[t][s] > 0 /\ locked'[t]
    BY DEF Scope
  <2> QED BY <1>1, <2>1 DEF IInv, LocksOK, Has
<1>4. \A s \in S : s \in Storage /\ locker[s] = t /\ Clean(s)
  BY <1>1, <1>3 DEF storages, IInv, LogsOK
<1>5. \A u \in Thread : Scope(u) \cap S = {}
  BY <1>1, <1>2, <1>4, ScopeIsLocked
<1>6. \A s \in S : Committed(s) = db[s] /\ db'[s] = db[s]
  BY <1>1, <1>4, CleanIsCommitted DEF storages
<1>7. \A s \in Storage : Committed(s)' = Committed(s)
  <2>1. \A s \in Storage : locker[s] = t => Committed(s)' = Committed(s)
    <3>1. ~Committing(t) /\ ~Committing(t)'
      BY <1>1 DEF Committing
    <3>2. \A s \in Storage : locker[s] = t => Committed(s) = RolledBack(s)
      BY <3>1, OwnCommitted
    <3>3. \A s \in Storage : locker[s] = t => Committed(s)' = RolledBack(s)'
      BY <1>1, <3>1 DEF Committed, storages
    <3> QED BY <1>1, <3>2, <3>3 DEF RolledBack, storages
  <2> QED BY <1>1, <2>1, CommittedStays
<1>8. \A s \in Storage : Image(s)' = Image(s)
  BY <1>1, ImageStays
<1>9. \A u \in Thread \ {t} : Scope(u)' = Scope(u) /\ \A s \in Scope(u) : db'[s] = db[s]
  BY <1>1, OthersStay
<1>10. S \subseteq Storage
  BY <1>4
<1>11. [u \in Thread |-> Scope(u)]' = [[u \in Thread |-> Scope(u)] EXCEPT ![t] = S]
  BY <1>9
<1>12. [u \in Thread |-> [s \in Scope(u) |-> db[s]]]' =
       [[u \in Thread |-> [s \in Scope(u) |-> db[s]]] EXCEPT
            ![t] = [s \in S |-> [r \in Storage |-> Committed(r)][s]]]
  BY <1>6, <1>9, <1>10
<1> QED BY <1>2, <1>5, <1>7, <1>8, <1>11, <1>12 DEF Serial!Begin, Image

\* insert and del change what their transaction sees.
LEMMA OperationRefines ==
    ASSUME SInv, NEW t \in Thread, NEW r \in Storage, NEW k \in Key,
           Del(t, r, k) \/ \E v \in Val : Insert(t, r, k, v) \/ InsertNew(t, r, k, v)
    PROVE  Serial!Change(t)
<1>1. Handler(t) /\ IInv /\ TypeOK
  BY DEF Handler, SInv, IInv
<1>2. Working(t, r) /\ UNCHANGED <<locker, pc, locked, cancel, storage_vec>>
  BY DEF Del, Insert, InsertNew, contexts
<1>3. r \in Scope(t) /\ pc[t] = "run" /\ Scope(t)' = Scope(t)
  BY <1>1, <1>2 DEF Working, Scope, IInv, PhaseOK
<1>4. db'[r] \in Contents /\ \A s \in Storage \ {r} : db'[s] = db[s]
  <2>1. TypeOK'
    BY <1>1, HandlerTyped
  <2> QED BY <1>1, <2>1 DEF TypeOK, Del, Insert, InsertNew
<1>5. \A s \in Storage : Committed(s)' = Committed(s)
  <2>1. ~Committing(t) /\ ~Committing(t)'
    BY <1>2, <1>3 DEF Committing
  <2>2. \A s \in Storage : RolledBack(s)' = RolledBack(s)
    BY <1>1, OperationsKeepLogs
  <2>3. \A s \in Storage : locker[s] = t => Committed(s) = RolledBack(s)
    BY <2>1, OwnCommitted
  <2>4. \A s \in Storage : locker[s] = t => Committed(s)' = RolledBack(s)'
    BY <1>2, <2>1 DEF Committed
  <2> QED BY <1>1, <2>2, <2>3, <2>4, CommittedStays
<1>6. \A s \in Storage : Image(s)' = Image(s)
  BY <1>1, ImageStays
<1>7. \A u \in Thread \ {t} : Scope(u)' = Scope(u) /\ \A s \in Scope(u) : db'[s] = db[s]
  BY <1>1, OthersStay
<1>8. [u \in Thread |-> Scope(u)]' = [u \in Thread |-> Scope(u)]
  BY <1>3, <1>7
<1>9. [u \in Thread |-> [s \in Scope(u) |-> db[s]]]' =
      [[u \in Thread |-> [s \in Scope(u) |-> db[s]]] EXCEPT ![t][r] = db'[r]]
  <2>1. [s \in Scope(t) |-> db[s]]' = [[s \in Scope(t) |-> db[s]] EXCEPT ![r] = db'[r]]
    <3>1. Scope(t) \subseteq Storage
      BY DEF Scope
    <3> QED BY <1>3, <1>4, <3>1
  <2>2. \A u \in Thread \ {t} : [s \in Scope(u) |-> db[s]]' = [s \in Scope(u) |-> db[s]]
    BY <1>7
  <2> QED BY <2>1, <2>2
<1> QED BY <1>3, <1>4, <1>5, <1>6, <1>8, <1>9 DEF Serial!Change, Image

\* The end of a thread's last Transaction commits or rolls back in one step.
LEMMA ReleaseRefines ==
    ASSUME SInv, NEW t \in Thread, Release(t), refcnt[t] <= 1, locked[t]
    PROVE  Serial!Commit(t) \/ Serial!Abort(t)
<1>1. Handler(t) /\ IInv /\ TypeOK
  BY DEF Handler, SInv, IInv
<1>2. refcnt[t] \in Nat
  BY <1>1, BoundAssumption DEF TypeOK
<1>3. /\ pc[t] = "run" /\ pc'[t] = "unlock"
      /\ UNCHANGED <<db, prepared, new_key, locker, locked, cancel>>
  BY <1>1, <1>2 DEF Release, TypeOK, IInv, PhaseOK, storages
<1>4. Scope(t)' = {}
  BY <1>3 DEF Scope
<1>5. \A s \in Storage : locker[s] = t <=> s \in Scope(t)
  BY <1>1, <1>3 DEF IInv, LocksOK, Has, Scope
<1>6. \A s \in Storage : locker[s] = t =>
          /\ Committed(s) = RolledBack(s)
          /\ Committed(s)' = IF cancel[t] THEN RolledBack(s) ELSE db[s]
  <2>1. ~Committing(t) /\ (Committing(t)' <=> ~cancel[t])
    BY <1>3 DEF Committing
  <2>2. \A s \in Storage : RolledBack(s)' = RolledBack(s)
    BY <1>3 DEF RolledBack
  <2>3. \A s \in Storage : locker[s] = t => Committed(s) = RolledBack(s)
    BY <2>1, OwnCommitted
  <2>4. \A s \in Storage : locker[s] = t =>
            Committed(s)' = IF Committing(t)' THEN db'[s] ELSE RolledBack(s)'
    BY <1>3 DEF Committed
  <2> QED BY <1>3, <2>1, <2>2, <2>3, <2>4
<1>7. \A s \in Storage \ Scope(t) : Committed(s)' = Committed(s)
  BY <1>1, <1>5, CommittedStays
<1>8. \A s \in Storage : Image(s)' = Image(s)
  BY <1>1, ImageStays
<1>9. \A u \in Thread \ {t} : Scope(u)' = Scope(u) /\ \A s \in Scope(u) : db'[s] = db[s]
  BY <1>1, OthersStay
<1>10. [u \in Thread |-> Scope(u)]' = [[u \in Thread |-> Scope(u)] EXCEPT ![t] = {}]
  BY <1>4, <1>9
<1>11. [u \in Thread |-> [s \in Scope(u) |-> db[s]]]' =
       [[u \in Thread |-> [s \in Scope(u) |-> db[s]]] EXCEPT
            ![t] = [s \in {} |-> [r \in Storage |-> Committed(r)][s]]]
  <2>1. [s \in Scope(t) |-> db[s]]' = [s \in {} |-> [r \in Storage |-> Committed(r)][s]]
    BY <1>4
  <2>2. \A u \in Thread \ {t} : [s \in Scope(u) |-> db[s]]' = [s \in Scope(u) |-> db[s]]
    BY <1>9
  <2> QED BY <2>1, <2>2
<1>12. Serial!End(t)
  BY <1>8, <1>10, <1>11 DEF Serial!End, Image
<1>13. CASE cancel[t]
  <2>1. \A s \in Storage : Committed(s)' = Committed(s)
    BY <1>5, <1>6, <1>7, <1>13
  <2> QED BY <1>12, <2>1 DEF Serial!Abort
<1>14. CASE ~cancel[t]
  <2>1. \A s \in Storage : Committed(s)' = IF s \in Scope(t) THEN db[s] ELSE Committed(s)
    BY <1>5, <1>6, <1>7, <1>14
  <2> QED BY <1>12, <2>1 DEF Serial!Commit
<1> QED BY <1>13, <1>14

\* Storage::checkpoint changes nothing that counts.
LEMMA UnlockRefines ==
    ASSUME SInv, NEW t \in Thread, UnlockStorage(t)
    PROVE  UNCHANGED Serial!vars
<1>1. Handler(t) /\ IInv /\ TypeOK /\ pc[t] = "unlock"
      /\ UNCHANGED <<pc, cancel, locked, storage_vec>>
  BY DEF Handler, UnlockStorage, SInv, IInv, contexts
<1>2. Scope(t) = {} /\ Scope(t)' = {}
  BY <1>1 DEF Scope
<1>3. PICK r \in NextEntry(t) :
          /\ db' = IF cancel[t] THEN [db EXCEPT ![r] = RolledBack(r)] ELSE db
          /\ prepared' = [prepared EXCEPT ![r] = Nothing]
          /\ new_key' = [new_key EXCEPT ![r] = {}]
          /\ locker' = Unlocked(r, t)
  BY DEF UnlockStorage
<1>4. r \in Storage /\ locker[r] = t
  BY <1>1, <1>3, UnlocksItsOwn
<1>5. Committed(r)' = Committed(r)
  <2>1. TypeOK' /\ Clean(r)'
    BY <1>1, <1>3, <1>4, HandlerTyped DEF Clean, TypeOK
  <2>2. TypeOK' /\ Clean(r)' => Committed(r)' = db'[r]
    <3>1. (\A s \in Storage : TypeOK /\ Clean(s) => Committed(s) = db[s])'
      BY CleanCounts, PTL
    <3> QED BY <1>4, <3>1
  <2>3. db'[r] = IF cancel[t] THEN RolledBack(r) ELSE db[r]
    BY <1>1, <1>3, <1>4 DEF TypeOK
  <2>4. Committed(r) = IF cancel[t] THEN RolledBack(r) ELSE db[r]
    BY <1>1, <1>4, OwnCommitted DEF Committing
  <2> QED BY <2>1, <2>2, <2>3, <2>4
<1>6. ASSUME NEW s \in Storage, locker[s] = t PROVE Committed(s)' = Committed(s)
  <2>1. CASE s = r
    BY <1>5, <2>1
  <2>2. CASE s # r
    <3>1. db'[s] = db[s] /\ prepared'[s] = prepared[s] /\ new_key'[s] = new_key[s] /\ locker'[s] = t
      BY <1>1, <1>3, <1>4, <1>6, <2>2 DEF TypeOK, Unlocked
    <3>2. Committing(t)' <=> Committing(t)
      BY <1>1 DEF Committing
    <3>3. Committed(s)' = IF Committing(t)' THEN db'[s] ELSE RolledBack(s)'
      BY <3>1 DEF Committed
    <3>4. Committed(s) = IF Committing(t) THEN db[s] ELSE RolledBack(s)
      BY <1>6, OwnCommitted
    <3> QED BY <3>1, <3>2, <3>3, <3>4 DEF RolledBack
  <2> QED BY <2>1, <2>2
<1> QED BY <1>1, <1>2, <1>6, StutterStep

LEMMA OthersRefine ==
    ASSUME SInv, NEW t \in Thread,
           \/ Ref(t) \/ BeginLock(t) \/ LockStorage(t) \/ Abort(t) \/ EndUnlock(t)
           \/ Release(t) /\ (refcnt[t] > 1 \/ ~locked[t])
           \/ \E s \in Storage : GetStorage(t, s) \/ Throw(t, s)
    PROVE  UNCHANGED Serial!vars
<1>1. Handler(t) /\ IInv /\ TypeOK
  BY DEF Handler, SInv, IInv
<1>2. UNCHANGED <<db, prepared, new_key>>
  BY DEF Ref, BeginLock, LockStorage, Abort, EndUnlock, Release, GetStorage, Throw, storages
<1>3. CASE Ref(t) \/ Abort(t) \/ (Release(t) /\ refcnt[t] > 1) \/ \E s \in Storage : Throw(t, s)
  <2>1. /\ UNCHANGED <<locker, locked, storage_vec>>
        /\ pc[t] # "unlock" /\ pc'[t] # "unlock"
    BY <1>1, <1>3 DEF Ref, Abort, Release, Throw, Working, storages, TypeOK
  <2>2. Scope(t)' = Scope(t) /\ ~Committing(t) /\ ~Committing(t)'
    BY <2>1 DEF Scope, Committing
  <2>3. ASSUME NEW s \in Storage, locker[s] = t PROVE Committed(s)' = Committed(s)
    <3>1. Committed(s)' = RolledBack(s)'
      BY <2>1, <2>2, <2>3 DEF Committed
    <3> QED BY <1>2, <2>2, <2>3, <3>1, OwnCommitted DEF RolledBack
  <2> QED BY <1>1, <1>2, <2>2, <2>3, StutterStep
<1>4. CASE BeginLock(t) \/ LockStorage(t) \/ \E s \in Storage : GetStorage(t, s)
  <2>1. /\ ~locked[t] /\ ~locked'[t] /\ pc[t] # "unlock" /\ pc'[t] # "unlock"
        /\ \A s \in Storage : locker[s] = t => locker'[s] = t
    BY <1>1, <1>4 DEF BeginLock, LockStorage, GetStorage, storages, contexts, TypeOK, IInv, PhaseOK
  <2>2. Scope(t) = {} /\ Scope(t)' = {} /\ ~Committing(t) /\ ~Committing(t)'
    BY <2>1 DEF Scope, Committing
  <2>3. ASSUME NEW s \in Storage, locker[s] = t PROVE Committed(s)' = Committed(s)
    <3>1. Committed(s)' = RolledBack(s)'
      BY <2>1, <2>2, <2>3 DEF Committed
    <3> QED BY <1>2, <2>2, <2>3, <3>1, OwnCommitted DEF RolledBack
  <2> QED BY <1>1, <2>2, <2>3, StutterStep
<1>5. CASE Release(t) /\ refcnt[t] <= 1 /\ ~locked[t]
  <2>1. ~locked'[t] /\ pc[t] \in {"run", "leave"}
    BY <1>5 DEF Release
  <2>2. Scope(t) = {} /\ Scope(t)' = {} /\ \A s \in Storage : locker[s] # t
    BY <1>1, <1>5, <2>1 DEF Scope, IInv, LocksOK, Has
  <2> QED BY <1>1, <2>2, StutterStep
<1>6. CASE EndUnlock(t)
  <2>1. /\ pc[t] = "unlock" /\ ~locked'[t] /\ \A s \in Storage : todo[t][s] = 0
    BY <1>1, <1>6 DEF EndUnlock, EmptyVec, TypeOK
  <2>2. Scope(t) = {} /\ Scope(t)' = {} /\ \A s \in Storage : locker[s] # t
    BY <1>1, <2>1 DEF Scope, IInv, LocksOK, Has
  <2> QED BY <1>1, <2>2, StutterStep
<1>7. refcnt[t] \in Nat
  BY <1>1, BoundAssumption DEF TypeOK
<1> QED BY <1>3, <1>4, <1>5, <1>6, <1>7

-------------------------------------------------------------------------------
(* The checkpoint *)

\* The image is what every storage holds when the snapshots begin.
LEMMA CheckpointRefines ==
    ASSUME IInv, Checkpoint, IInv'
    PROVE  Serial!Checkpoint \/ UNCHANGED Serial!vars
<1>1. /\ UNCHANGED <<db, prepared, new_key, storage_vec, locked, cancel, pc, todo>>
      /\ TypeOK
  BY DEF IInv, Checkpoint, BeginCheckpoint, BackupLocks, BeginSnapshots,
     SnapshotCreate, Save, SnapshotRelease, EndCheckpoint, storages, contexts
<1>2. \A t \in Thread, s \in Storage : locker'[s] = t <=> locker[s] = t
  BY <1>1 DEF IInv, LocksOK, Has
<1>3. \A s \in Storage : Committed(s)' = Committed(s)
  BY <1>1, <1>2 DEF Committed, Committing, RolledBack
<1>4. \A t \in Thread : Scope(t)' = Scope(t)
  BY <1>1 DEF Scope
<1>5. UNCHANGED [t \in Thread |-> Scope(t)]
      /\ UNCHANGED [t \in Thread |-> [s \in Scope(t) |-> db[s]]]
  BY <1>1, <1>4
<1>6. next \in Nat /\ NS \in Nat /\ \A s \in Storage : s \in Nat /\ 1 <= s /\ s <= NS
  BY <1>1, NSAssumption DEF TypeOK, Storage
<1>7. CASE BeginSnapshots
  <2>1. \A s \in Storage : locker[s] = Backup
    BY <1>6, <1>7 DEF BeginSnapshots, AllLocked, IInv, LocksOK, BackupHas
  <2>2. \A s \in Storage : Committed(s) = db[s]
    BY <1>1, <2>1, CleanIsCommitted, Typing DEF IInv, LogsOK
  <2>3. \A s \in Storage : Image(s)' = db[s]
    BY <1>1, <1>6, <1>7 DEF BeginSnapshots, Image, Waiting
  <2> QED BY <1>3, <1>5, <2>2, <2>3 DEF Serial!Checkpoint, Image
<1>8. CASE ~BeginSnapshots
  <2>1. \A s \in Storage : Image(s)' = Image(s)
    <3>1. CASE SnapshotCreate
      <4>1. /\ cpc = "snapshot" /\ cpc' = "snapshot" /\ next \in Storage /\ next' = next + 1
            /\ \A s \in Storage : snapshot'[s] = IF s = next THEN db[s] ELSE snapshot[s]
        BY <1>1, <3>1 DEF SnapshotCreate, TypeOK
      <4>2. \A s \in Storage : Waiting(s)' <=> Waiting(s) /\ s # next
        BY <1>6, <4>1 DEF Waiting
      <4>3. Waiting(next)
        BY <1>6, <4>1 DEF Waiting
      <4> QED BY <1>1, <4>1, <4>2, <4>3 DEF Image
    <3>2. CASE ~SnapshotCreate
      <4>1. \A s \in Storage : ~Waiting(s) /\ ~Waiting(s)'
        BY <1>6, <1>8, <3>2 DEF Checkpoint, BeginCheckpoint, BackupLocks, Save, SnapshotRelease,
                                EndCheckpoint, Waiting
      <4>2. snapshot' = snapshot
        BY <1>8, <3>2 DEF Checkpoint, BeginCheckpoint, BackupLocks, Save, SnapshotRelease,
                          EndCheckpoint
      <4> QED BY <4>1, <4>2 DEF Image
    <3> QED BY <3>1, <3>2
  <2> QED BY <1>3, <1>5, <2>1 DEF Serial!vars, Image
<1> QED BY <1>7, <1>8

-------------------------------------------------------------------------------
\* Transactions and checkpoints implement the serial store.
THEOREM Refinement == Spec => ImplementsSerialStore
<1>1. ASSUME SInv, IInv', NEW t \in Thread, Handler(t)
      PROVE  Serial!Next \/ UNCHANGED Serial!vars
  <2>1. CASE EndLock(t)
    <3>1. PICK S : S = Scope(t)'
      OBVIOUS
    <3>2. S \in SUBSET Storage
      BY <3>1 DEF Scope
    <3> QED BY <1>1, <2>1, <3>1, <3>2, EndLockRefines DEF Serial!Next
  <2>2. CASE \E s \in Storage, k \in Key :
                 Del(t, s, k) \/ \E v \in Val : Insert(t, s, k, v) \/ InsertNew(t, s, k, v)
    BY <1>1, <2>2, OperationRefines DEF Serial!Next
  <2>3. CASE Release(t) /\ refcnt[t] <= 1 /\ locked[t]
    BY <1>1, <2>3, ReleaseRefines DEF Serial!Next
  <2>4. CASE UnlockStorage(t)
    BY <1>1, <2>4, UnlockRefines
  <2>5. CASE \/ Ref(t) \/ BeginLock(t) \/ LockStorage(t) \/ Abort(t) \/ EndUnlock(t)
             \/ Release(t) /\ (refcnt[t] > 1 \/ ~locked[t])
             \/ \E s \in Storage : GetStorage(t, s) \/ Throw(t, s)
    BY <1>1, <2>5, OthersRefine
  <2>6. refcnt[t] \in Nat
    BY <1>1, BoundAssumption DEF SInv, IInv, TypeOK
  <2> QED BY <1>1, <2>1, <2>2, <2>3, <2>4, <2>5, <2>6 DEF Handler
<1>2. ASSUME UNCHANGED vars PROVE UNCHANGED Serial!vars
  <2>1. /\ \A s \in Storage : Committed(s)' = Committed(s) /\ Image(s)' = Image(s)
        /\ \A t \in Thread : Scope(t)' = Scope(t)
        /\ db' = db
    BY <1>2 DEF vars, storages, contexts, backup, Committed, Committing, RolledBack, Image, Waiting,
                Scope
  <2> QED BY <2>1 DEF Serial!vars, Image
<1>3. SInv /\ SInv' /\ [Next]_vars => [Serial!Next]_(Serial!vars)
  <2> SUFFICES ASSUME SInv, SInv', [Next]_vars
               PROVE  Serial!Next \/ UNCHANGED Serial!vars
    OBVIOUS
  <2>1. IInv /\ IInv'
    BY DEF SInv
  <2>2. CASE Checkpoint
    BY <2>1, <2>2, CheckpointRefines DEF Serial!Next
  <2> QED BY <1>1, <1>2, <2>1, <2>2 DEF Next
<1> QED BY InitRefines, SerialInvariance, <1>3, PTL DEF Spec, ImplementsSerialStore, Serial!Spec
===============================================================================
