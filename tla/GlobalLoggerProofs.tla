-------------------------- MODULE GlobalLoggerProofs --------------------------
(***************************************************************************)
(* The checkpoint protocol is correct for every number of tables, pages,   *)
(* records and log files: the inductive invariant and what follows from    *)
(* it.  Then: it implements the atomic checkpoint.                         *)
(***************************************************************************)
EXTENDS GlobalLogger, TLAPS

-------------------------------------------------------------------------------
(***************************************************************************)
(* The inductive invariant.                                                *)
(***************************************************************************)

Saving     == pc \in {"begin", "save"}
Committing == pc \in {"commit", "restore"}
Serving    == pc # "down" /\ ~redoing

\* Log files are numbered up to clock, and those to come are blank.
LogsInOrder ==
    /\ log_file <= clock
    /\ \A t \in Table : disk_id[t] <= clock
    /\ \A l \in LogId : l > clock => log[l].check # "prepared"

\* A table's pages are saved with its page 0 or not at all.
MagicIsSaved ==
    /\ \A l \in LogId, t \in Table :
          DOMAIN log[l].pages[t] # {} => Magic \in DOMAIN log[l].pages[t]
    /\ \A t \in Table : DOMAIN snapshot[t] # {} => Magic \in DOMAIN snapshot[t]

\* There is a youngest log file among those the tables know.
SomeYoungest ==
    \E m \in {disk_id[t] : t \in Table} \cup {0} : \A t \in Table : disk_id[t] <= m

\* Before a record is PREPARED no record needs a redo, and the open log file is
\* the youngest.
NothingToRedo ==
    pc \in {"run", "rotate", "begin", "save"} =>
        /\ ~redoing
        /\ MaxLoggerId # 0 => log[MaxLoggerId].check # "prepared"
        /\ log_file # 0 => /\ MaxLoggerId <= log_file
                           /\ log[log_file].check # "prepared"
                           /\ ~need_rotate => log[log_file].tables = Table
        /\ Saving => log_file # 0 /\ log[log_file].tables = Table

\* Table t's data file holds the pages saved in the current record.
Holds(t) ==
    \A p \in DOMAIN log[log_file].pages[t] : data[t][p] = log[log_file].pages[t][p]

\* How far a commit or a redo has come.
CommitProgress ==
    Committing =>
        /\ log_file # 0
        /\ log[log_file].check = "prepared"
        /\ \A t \in Table : disk_id[t] <= log_file
        /\ MaxLoggerId # log_file =>
              /\ pc = "commit" /\ it = 1 /\ ~redoing
              /\ MaxLoggerId # 0 => log[MaxLoggerId].check # "prepared"
        /\ \A t \in Table :
              t < it /\ (redoing => disk_id[t] # 0) => disk_id[t] = log_file /\ Holds(t)
        /\ pc = "restore" =>
              /\ it \in Table
              /\ disk_id[it] = log_file
              /\ Magic \in DOMAIN Saved
              /\ todo \subseteq DOMAIN Saved \ {Magic}
              /\ \A p \in DOMAIN Saved \ (todo \cup {Magic}) : data[it][p] = Saved[p]

RedoProgress ==
    redoing => /\ Committing
               /\ \A t \in Table : logger_id[t] = 0 <=> disk_id[t] = 0

\* What a checkpoint has saved so far is the snapshot.
SnapshotIsSaved ==
    /\ pc = "save" => \A t \in Table : t < it => log[log_file].pages[t] = snapshot[t]
    /\ Committing /\ ~redoing =>
          /\ log[log_file].tables = Table
          /\ \A t \in Table : log[log_file].pages[t] = snapshot[t]

\* The snapshot and the pages it leaves out make the contents at its time.
SnapshotIsShot ==
    pc \in {"rotate", "begin", "save", "commit", "restore"} /\ ~redoing =>
        \A t \in Table : shot[t] = Overlay(data[t], snapshot[t])

\* A page of the snapshot that is not dirty has not changed since.
SnapshotInCache ==
    Serving => \A t \in Table, p \in PageSet :
        p \in DOMAIN snapshot[t] /\ p \notin dirty[t] => cache[t][p] = snapshot[t][p]

SnapshotReleased ==
    pc = "run" => \A t \in Table : DOMAIN snapshot[t] = {}

IInv ==
    /\ TypeOK
    /\ LogsInOrder
    /\ RecordInPage
    /\ MagicIsSaved
    /\ SomeYoungest
    /\ YoungestLogDecides
    /\ NothingToRedo
    /\ CommitProgress
    /\ RedoProgress
    /\ SnapshotIsSaved
    /\ SnapshotIsShot
    /\ SnapshotInCache
    /\ SnapshotReleased
    /\ CleanPagesOnDisk

-------------------------------------------------------------------------------
(***************************************************************************)
(* Lemmas about the operators.                                             *)
(***************************************************************************)

\* A patch gives contents to some pages of a table.
LEMMA PatchType ==
    ASSUME NEW x \in Patch
    PROVE  /\ DOMAIN x \subseteq PageSet
           /\ \A p \in DOMAIN x : x[p] \in Val
           /\ x = [p \in DOMAIN x |-> x[p]]
BY DEF Patch

\* A function from some pages to contents is a patch.
LEMMA PatchIntro ==
    ASSUME NEW S \in SUBSET PageSet, NEW x \in [S -> Val]
    PROVE  x \in Patch
BY DEF Patch

\* The empty patch is a patch, of no page.
LEMMA NoPatchType == NoPatch \in Patch /\ DOMAIN NoPatch = {}
<1>1. NoPatch \in [{} -> Val]
  BY DEF NoPatch
<1>2. {} \in SUBSET PageSet
  OBVIOUS
<1> QED
  BY <1>1, <1>2, PatchIntro DEF NoPatch

\* A patch over a table's contents is contents of the table.
LEMMA OverlayType ==
    ASSUME NEW c \in Content, NEW x \in Patch
    PROVE  Overlay(c, x) \in Content
BY PatchType DEF Content, Overlay

\* A zeroed record, and the one that follows a record that is not the last.
LEMMA BlankRecordType ==
    ASSUME NEW cur \in 0..(RecMax + 1), NEW S \in SUBSET Table
    PROVE  BlankRecord(cur, S) \in LogRecord
BY NoPatchType DEF BlankRecord, LogRecord

\* The greatest of a function's values, when there is one.
LEMMA GreatestIs ==
    ASSUME NEW f \in [Table -> Nat], NEW m \in {f[t] : t \in Table} \cup {0},
           \A t \in Table : f[t] <= m
    PROVE  Greatest(f) = m
<1> DEFINE IsGreatest(x) == /\ x \in {f[t] : t \in Table} \cup {0}
                            /\ \A t \in Table : f[t] <= x
<1>1. m \in Nat /\ {f[t] : t \in Table} \cup {0} \subseteq Nat
  OBVIOUS
<1>2. ASSUME NEW x, IsGreatest(x)
      PROVE  x = m
  BY <1>1, <1>2
<1>3. IsGreatest(Greatest(f))
  BY DEF Greatest
<1> HIDE DEF IsGreatest
<1> QED
  BY <1>2, <1>3


\* The youngest log file the tables know is one of theirs, and was created.
LEMMA Youngest ==
    ASSUME TypeOK, SomeYoungest, LogsInOrder
    PROVE  /\ MaxLoggerId \in {disk_id[t] : t \in Table} \cup {0}
           /\ \A t \in Table : disk_id[t] <= MaxLoggerId
           /\ MaxLoggerId \in 0..MaxLog
           /\ MaxLoggerId <= clock
<1>1. PICK m \in {disk_id[t] : t \in Table} \cup {0} : \A t \in Table : disk_id[t] <= m
  BY DEF SomeYoungest
<1>2. disk_id \in [Table -> Nat] /\ m \in 0..MaxLog /\ m <= clock
  BY <1>1, MaxLogAssumption DEF TypeOK, LogsInOrder
<1>3. MaxLoggerId = m
  BY <1>1, <1>2, GreatestIs DEF MaxLoggerId
<1> QED
  BY <1>1, <1>2, <1>3

-------------------------------------------------------------------------------
(***************************************************************************)
(* The invariant holds at first.                                           *)
(***************************************************************************)

\* The collection before the process first starts satisfies the invariant.
LEMMA InitIInv == Init => IInv
<1> SUFFICES ASSUME Init PROVE IInv
  OBVIOUS
<1>1. PICK old \in SUBSET Table, cur \in 0..RecMax :
        /\ disk_id = [t \in Table |-> IF t \in old THEN 1 ELSE 0]
        /\ log = [l \in LogId |->
                    IF l = 1 THEN BlankRecord(cur, old) ELSE BlankRecord(0, {})]
        /\ clock = IF old = {} THEN 0 ELSE 1
        /\ clock <= MaxLog
  BY DEF Init
<1>2. disk_id \in [Table -> 0..MaxLog] /\ clock \in 0..MaxLog
  BY <1>1, MaxLogAssumption
<1>3. log \in [LogId -> LogRecord]
  <2>1. 0 \in 0..(RecMax + 1) /\ cur \in 0..(RecMax + 1)
    BY RecMaxAssumption
  <2> QED
    BY <1>1, <2>1, BlankRecordType DEF LogId
<1>4. dirty \in [Table -> SUBSET PageSet] /\ snapshot \in [Table -> Patch]
  BY NoPatchType DEF Init
<1>5. todo \in SUBSET PageSet /\ it \in 1..(NT + 1)
  BY NTAssumption DEF Init
<1>6. /\ data \in [Table -> Content] /\ cache \in [Table -> Content]
      /\ shot \in [Table -> Content] /\ logger_id \in [Table -> 0..MaxLog]
      /\ log_file \in 0..MaxLog
  BY MaxLogAssumption DEF Init
<1>7. TypeOK
  BY <1>2, <1>3, <1>4, <1>5, <1>6 DEF Init, TypeOK
<1>8. LogsInOrder /\ RecordInPage /\ MagicIsSaved
  BY <1>1, NoPatchType DEF Init, LogsInOrder, RecordInPage, MagicIsSaved, BlankRecord, LogId
<1>9. SomeYoungest
  BY <1>1 DEF SomeYoungest
<1>10. YoungestLogDecides
  <2>1. old # {} => MaxLoggerId = 1 /\ MaxLoggerId \in LogId
    BY <1>1, <1>7, <1>8, <1>9, Youngest DEF LogId
  <2> QED
    BY <1>1, <2>1 DEF YoungestLogDecides, Enrolled, BlankRecord
<1> QED
  BY <1>7, <1>8, <1>9, <1>10
     DEF Init, IInv, NothingToRedo, CommitProgress, RedoProgress, SnapshotIsSaved,
         SnapshotIsShot, SnapshotInCache, SnapshotReleased, CleanPagesOnDisk,
         Committing, Serving

-------------------------------------------------------------------------------
(***************************************************************************)
(* Every action keeps the invariant.                                       *)
(***************************************************************************)

\* The parts of the invariant that speak of the disk and of nothing that
\* changes while the disk does not.
LEMMA SameDisk ==
    ASSUME IInv, UNCHANGED <<disk_id, log, clock>>
    PROVE  /\ MaxLoggerId' = MaxLoggerId
           /\ SomeYoungest'
           /\ YoungestLogDecides'
BY DEF IInv, MaxLoggerId, SomeYoungest, YoungestLogDecides, Enrolled

\* A user's change of a page (Wload marks it dirty) preserves the invariant.
LEMMA WriteStep ==
    ASSUME IInv, NEW t \in Table, NEW p \in PageSet, Write(t, p)
    PROVE  IInv'
<1>1. PICK v \in Val : cache' = [cache EXCEPT ![t][p] = v]
  BY DEF Write
<1>2. TypeOK'
  BY <1>1 DEF IInv, TypeOK, Write, disk, Content
<1>3. /\ SomeYoungest' /\ YoungestLogDecides' /\ MaxLoggerId' = MaxLoggerId
  BY SameDisk DEF Write, disk
<1>4. SnapshotInCache' /\ CleanPagesOnDisk'
  BY <1>1 DEF IInv, TypeOK, Write, disk, Content, SnapshotInCache, CleanPagesOnDisk, Serving
<1> QED
  BY <1>2, <1>3, <1>4
     DEF IInv, Write, disk, LogsInOrder, RecordInPage, MagicIsSaved, NothingToRedo,
         CommitProgress, RedoProgress, SnapshotIsSaved, SnapshotIsShot, SnapshotReleased,
         Committing, Saving, Holds, Saved

\* snapshot_create on every table preserves the invariant.
LEMMA TakeSnapshotStep ==
    ASSUME IInv, TakeSnapshot
    PROVE  IInv'
<1> DEFINE Snap(t) == [p \in SnapshotPages(t) |-> cache[t][p]]
<1>1. ASSUME NEW t \in Table
      PROVE  /\ Snap(t) \in Patch
             /\ DOMAIN Snap(t) = SnapshotPages(t)
             /\ SnapshotPages(t) # {} => Magic \in SnapshotPages(t)
  <2>1. SnapshotPages(t) \in SUBSET PageSet
    BY DEF IInv, TypeOK, SnapshotPages, PageSet
  <2>2. Snap(t) \in [SnapshotPages(t) -> Val]
    BY <2>1 DEF IInv, TypeOK, Content
  <2> QED
    BY <2>1, <2>2, PatchIntro DEF SnapshotPages
<1>2. /\ snapshot' = [t \in Table |-> Snap(t)]
      /\ shot' = cache
      /\ dirty' = [t \in Table |-> {}]
      /\ pc = "run" /\ pc' = "rotate"
  BY DEF TakeSnapshot
<1> HIDE DEF Snap
<1>3. TypeOK'
  BY <1>1, <1>2 DEF IInv, TypeOK, TakeSnapshot, disk
<1>4. /\ SomeYoungest' /\ YoungestLogDecides' /\ MaxLoggerId' = MaxLoggerId
  BY SameDisk DEF TakeSnapshot, disk
<1>5. ~redoing /\ CleanPagesOnDisk /\ SnapshotReleased
  BY <1>2 DEF IInv, NothingToRedo
<1>6. \A t \in Table, p \in PageSet :
         IF p \in DOMAIN snapshot'[t] THEN snapshot'[t][p] = cache[t][p]
                                      ELSE data[t][p] = cache[t][p]
  <2> SUFFICES ASSUME NEW t \in Table, NEW p \in PageSet
               PROVE  IF p \in DOMAIN snapshot'[t] THEN snapshot'[t][p] = cache[t][p]
                                                   ELSE data[t][p] = cache[t][p]
    OBVIOUS
  <2>1. DOMAIN snapshot'[t] = SnapshotPages(t)
    BY <1>1, <1>2
  <2>2. CASE p \in SnapshotPages(t)
    BY <1>2, <2>1, <2>2 DEF Snap
  <2>3. CASE p \notin SnapshotPages(t)
    BY <1>2, <1>5, <2>1, <2>3 DEF CleanPagesOnDisk, SnapshotReleased, SnapshotPages
  <2> QED
    BY <2>2, <2>3
<1>7. SnapshotIsShot'
  <2>1. \A t \in Table : cache[t] = [p \in PageSet |-> cache[t][p]]
    BY DEF IInv, TypeOK, Content
  <2>2. \A t \in Table : Overlay(data[t], snapshot'[t]) = cache[t]
    BY <1>6, <2>1 DEF Overlay
  <2> QED
    BY <1>2, <2>2 DEF SnapshotIsShot, TakeSnapshot, disk
<1>8. SnapshotInCache' /\ CleanPagesOnDisk'
  BY <1>2, <1>6 DEF TakeSnapshot, disk, SnapshotInCache, CleanPagesOnDisk
<1>9. MagicIsSaved'
  BY <1>1, <1>2 DEF IInv, MagicIsSaved, TakeSnapshot, disk
<1> QED
  BY <1>2, <1>3, <1>4, <1>5, <1>7, <1>8, <1>9
     DEF IInv, TakeSnapshot, disk, LogsInOrder, RecordInPage, NothingToRedo,
         CommitProgress, RedoProgress, SnapshotIsSaved, SnapshotReleased,
         Committing, Saving

\* A crash at any write, a kill or a close preserves the invariant.
LEMMA StopStep ==
    ASSUME IInv, Stop
    PROVE  IInv'
<1>1. Recovered \in [Table -> Content]
  <2>1. Redoable => MaxLoggerId \in LogId
    BY Youngest DEF IInv, Redoable, LogId
  <2>2. \A t \in Table : Redoable => log[MaxLoggerId].pages[t] \in Patch
    BY <2>1 DEF IInv, TypeOK, LogRecord
  <2>3. \A t \in Table : data[t] \in Content
    BY DEF IInv, TypeOK
  <2>4. \A t \in Table : Redoable => Overlay(data[t], log[MaxLoggerId].pages[t]) \in Content
    BY <2>2, <2>3, OverlayType
  <2> QED
    BY <2>3, <2>4 DEF Recovered
<1>2. TypeOK'
  <2>1. dirty' \in [Table -> SUBSET PageSet] /\ snapshot' \in [Table -> Patch]
    BY NoPatchType DEF Stop
  <2>2. /\ logger_id' \in [Table -> 0..MaxLog] /\ log_file' \in 0..MaxLog
        /\ it' \in 1..(NT + 1)
    BY NTAssumption, MaxLogAssumption DEF Stop
  <2> QED
    BY <1>1, <2>1, <2>2 DEF IInv, TypeOK, Stop, disk
<1>3. /\ SomeYoungest' /\ YoungestLogDecides' /\ MaxLoggerId' = MaxLoggerId
  BY SameDisk DEF Stop, disk
<1>4. LogsInOrder' /\ RecordInPage' /\ MagicIsSaved'
  BY NoPatchType DEF IInv, TypeOK, Stop, disk, LogsInOrder, RecordInPage, MagicIsSaved
<1>5. /\ NothingToRedo' /\ CommitProgress' /\ RedoProgress' /\ SnapshotIsSaved'
      /\ SnapshotIsShot' /\ SnapshotInCache' /\ SnapshotReleased' /\ CleanPagesOnDisk'
  BY DEF Stop, NothingToRedo, CommitProgress, RedoProgress, SnapshotIsSaved, SnapshotIsShot,
         SnapshotReleased, Committing, SnapshotInCache, Serving, CleanPagesOnDisk
<1> QED
  BY <1>2, <1>3, <1>4, <1>5 DEF IInv

\* logger_check_rotate keeping the open log file preserves the invariant.
LEMMA KeepLogFileStep ==
    ASSUME IInv, KeepLogFile
    PROVE  IInv'
<1>1. TypeOK'
  BY DEF IInv, TypeOK, KeepLogFile, disk
<1>2. /\ SomeYoungest' /\ YoungestLogDecides' /\ MaxLoggerId' = MaxLoggerId
  BY SameDisk DEF KeepLogFile, disk
<1>3. LogsInOrder' /\ RecordInPage' /\ MagicIsSaved'
  BY DEF IInv, KeepLogFile, disk, HasRecord, LogsInOrder, RecordInPage, MagicIsSaved
<1>4. NothingToRedo' /\ CommitProgress' /\ RedoProgress' /\ SnapshotIsSaved'
  BY <1>2 DEF IInv, KeepLogFile, disk, NothingToRedo, CommitProgress, RedoProgress,
              SnapshotIsSaved, Committing, Saving
<1>5. SnapshotIsShot' /\ SnapshotInCache' /\ SnapshotReleased' /\ CleanPagesOnDisk'
  BY DEF IInv, KeepLogFile, disk, SnapshotIsShot, SnapshotReleased, SnapshotInCache,
         Serving, CleanPagesOnDisk
<1> QED
  BY <1>1, <1>2, <1>3, <1>4, <1>5 DEF IInv

\* A new log file leaves those the tables know as they are.
LEMMA NewLogFileKeepsOthers ==
    ASSUME IInv, NewLogFile, UNCHANGED disk_id
    PROVE  /\ clock' \in LogId /\ clock' = clock + 1 /\ log_file' = clock'
           /\ log' \in [LogId -> LogRecord]
           /\ log'[clock'] = BlankRecord(0, Table)
           /\ \A l \in LogId : l # clock' => log'[l] = log[l]
           /\ MaxLoggerId' = MaxLoggerId
           /\ MaxLoggerId # 0 => MaxLoggerId \in LogId /\ log'[MaxLoggerId] = log[MaxLoggerId]
           /\ SomeYoungest'
           /\ YoungestLogDecides'
<1>1. clock' = clock + 1 /\ log_file' = clock' /\ clock' \in LogId
  BY MaxLogAssumption DEF NewLogFile, IInv, TypeOK, LogId
<1>2. BlankRecord(0, Table) \in LogRecord
  BY BlankRecordType, RecMaxAssumption
<1>3. /\ log' \in [LogId -> LogRecord]
      /\ log'[clock'] = BlankRecord(0, Table)
      /\ \A l \in LogId : l # clock' => log'[l] = log[l]
  BY <1>1, <1>2 DEF NewLogFile, IInv, TypeOK
<1>4. MaxLoggerId' = MaxLoggerId /\ SomeYoungest'
  BY DEF MaxLoggerId, SomeYoungest, IInv
<1>5. /\ MaxLoggerId # 0 => MaxLoggerId \in LogId /\ log'[MaxLoggerId] = log[MaxLoggerId]
      /\ \A t \in Enrolled : MaxLoggerId # 0
  BY <1>1, <1>3, Youngest DEF IInv, LogId, Enrolled, TypeOK
<1>6. YoungestLogDecides'
  BY <1>4, <1>5 DEF IInv, YoungestLogDecides, Enrolled
<1> QED
  BY <1>1, <1>3, <1>4, <1>5, <1>6

\* logger_check_rotate opening a new log file preserves the invariant.
LEMMA RotateStep ==
    ASSUME IInv, Rotate
    PROVE  IInv'
<1>1. NewLogFile /\ UNCHANGED disk_id /\ pc = "rotate" /\ pc' = "begin"
  BY DEF Rotate
<1>2. /\ clock' \in LogId /\ clock' = clock + 1 /\ log_file' = clock'
      /\ log' \in [LogId -> LogRecord]
      /\ log'[clock'] = BlankRecord(0, Table)
      /\ \A l \in LogId : l # clock' => log'[l] = log[l]
      /\ MaxLoggerId' = MaxLoggerId
      /\ MaxLoggerId # 0 => MaxLoggerId \in LogId /\ log'[MaxLoggerId] = log[MaxLoggerId]
      /\ SomeYoungest'
      /\ YoungestLogDecides'
  BY <1>1, NewLogFileKeepsOthers
<1>3. TypeOK'
  BY <1>1, <1>2 DEF IInv, TypeOK, Rotate, LogId
<1>4. LogsInOrder' /\ RecordInPage' /\ MagicIsSaved'
  <2>1. LogsInOrder'
    BY <1>1, <1>2, MaxLogAssumption DEF IInv, TypeOK, LogsInOrder, BlankRecord, LogId
  <2>2. RecordInPage'
    BY <1>1, <1>2, RecMaxAssumption DEF IInv, RecordInPage, BlankRecord, LogId
  <2>3. MagicIsSaved'
    BY <1>2, NoPatchType DEF IInv, Rotate, MagicIsSaved, BlankRecord
  <2> QED
    BY <2>1, <2>2, <2>3
<1>5. NothingToRedo'
  <2>1. MaxLoggerId <= clock
    BY Youngest DEF IInv
  <2> QED
    BY <1>1, <1>2, <2>1 DEF IInv, TypeOK, Rotate, NothingToRedo, BlankRecord, Saving, LogId
<1>6. CommitProgress' /\ RedoProgress' /\ SnapshotIsSaved'
  BY DEF IInv, Rotate, NothingToRedo, CommitProgress, RedoProgress, SnapshotIsSaved, Committing
<1>7. SnapshotIsShot' /\ SnapshotInCache' /\ SnapshotReleased' /\ CleanPagesOnDisk'
  BY DEF IInv, Rotate, SnapshotIsShot, SnapshotReleased, SnapshotInCache, Serving,
         CleanPagesOnDisk
<1> QED
  BY <1>2, <1>3, <1>4, <1>5, <1>6, <1>7 DEF IInv

\* init() on a collection that was never checkpointed preserves the invariant.
LEMMA OpenFreshStep ==
    ASSUME IInv, OpenFresh
    PROVE  IInv'
<1>1. /\ NewLogFile /\ UNCHANGED disk_id /\ LoadTables /\ logger_id' = disk_id
      /\ pc = "down" /\ pc' = "run" /\ MaxLoggerId = 0 /\ need_rotate' = FALSE
      /\ UNCHANGED <<data, redoing, it, todo, shot>>
  BY DEF OpenFresh
<1>2. /\ clock' \in LogId /\ clock' = clock + 1 /\ log_file' = clock'
      /\ log' \in [LogId -> LogRecord]
      /\ log'[clock'] = BlankRecord(0, Table)
      /\ \A l \in LogId : l # clock' => log'[l] = log[l]
      /\ MaxLoggerId' = MaxLoggerId
      /\ SomeYoungest'
      /\ YoungestLogDecides'
  BY <1>1, NewLogFileKeepsOthers
<1>3. ~redoing /\ ~redoing'
  BY <1>1 DEF IInv, RedoProgress, Committing
<1>4. /\ dirty' \in [Table -> SUBSET PageSet] /\ snapshot' \in [Table -> Patch]
      /\ \A t \in Table : DOMAIN snapshot'[t] = {}
  BY <1>1, NoPatchType DEF LoadTables, PageSet
<1>5. TypeOK'
  <2>1. clock' \in 0..MaxLog /\ log_file' \in 0..MaxLog
    BY <1>2, MaxLogAssumption DEF LogId
  <2>2. need_rotate' \in BOOLEAN
    BY <1>1
  <2> QED
    BY <1>1, <1>2, <1>4, <2>1, <2>2 DEF IInv, TypeOK, LoadTables
<1>6. LogsInOrder'
  BY <1>1, <1>2, MaxLogAssumption DEF IInv, TypeOK, LogsInOrder, BlankRecord, LogId
<1>7. RecordInPage' /\ MagicIsSaved'
  BY <1>1, <1>2, <1>4, NoPatchType DEF IInv, RecordInPage, MagicIsSaved, BlankRecord
<1>8. NothingToRedo'
  BY <1>1, <1>2, <1>3, MaxLogAssumption DEF NothingToRedo, BlankRecord, Saving, LogId
<1>9. CommitProgress' /\ RedoProgress' /\ SnapshotIsSaved' /\ SnapshotIsShot'
  BY <1>1, <1>3 DEF CommitProgress, RedoProgress, SnapshotIsSaved, SnapshotIsShot, Committing
<1>10. SnapshotInCache' /\ SnapshotReleased' /\ CleanPagesOnDisk'
  BY <1>1, <1>4 DEF LoadTables, SnapshotInCache, SnapshotReleased, CleanPagesOnDisk
<1> QED
  BY <1>2, <1>5, <1>6, <1>7, <1>8, <1>9, <1>10 DEF IInv

\* The record that follows the current one is blank.
LEMMA NextRecordType ==
    ASSUME NEW r \in LogRecord, r.cur <= RecMax
    PROVE  /\ NextRecord(r) \in LogRecord
           /\ ~NextRecord(r).first /\ NextRecord(r).check # "prepared"
           /\ NextRecord(r).tables = r.tables
           /\ \A t \in Table : DOMAIN NextRecord(r).pages[t] = {}
<1>1. r.cur + 1 \in 0..(RecMax + 1) /\ r.tables \in SUBSET Table
  BY RecMaxAssumption DEF LogRecord
<1> QED
  BY <1>1, BlankRecordType, NoPatchType DEF NextRecord, BlankRecord

\* A log file whose current record is done moves on to the next.
LEMMA RecordDone ==
    ASSUME IInv, NEW l \in LogId, log[l].cur <= RecMax, l <= clock,
           log' = [log EXCEPT ![l] = NextRecord(@)]
    PROVE  /\ log' \in [LogId -> LogRecord]
           /\ log'[l].check # "prepared" /\ log'[l].tables = log[l].tables /\ ~log'[l].first
           /\ \A t \in Table : DOMAIN log'[l].pages[t] = {}
           /\ \A k \in LogId : k # l => log'[k] = log[k]
<1>1. log[l] \in LogRecord
  BY DEF IInv, TypeOK
<1> QED
  BY <1>1, NextRecordType DEF IInv, TypeOK

\* init() when there is nothing to redo preserves the invariant.
LEMMA OpenCleanStep ==
    ASSUME IInv, OpenClean
    PROVE  IInv'
<1>1. /\ LoadTables /\ VerifyIds
      /\ pc = "down" /\ pc' = "run" /\ MaxLoggerId # 0
      /\ log[MaxLoggerId].check # "prepared"
      /\ UNCHANGED <<data, disk_id, clock, redoing, it, todo, shot>>
  BY DEF OpenClean
<1>2. /\ MaxLoggerId \in LogId /\ MaxLoggerId <= clock /\ log_file' = MaxLoggerId
      /\ MaxLoggerId' = MaxLoggerId /\ SomeYoungest'
  BY <1>1, Youngest DEF IInv, LogId, VerifyIds, MaxLoggerId, SomeYoungest
<1>3. /\ log' \in [LogId -> LogRecord]
      /\ log'[MaxLoggerId].check # "prepared"
      /\ log'[MaxLoggerId].tables = log[MaxLoggerId].tables
      /\ log'[MaxLoggerId].first => log[MaxLoggerId].first /\ log' = log
      /\ \A t \in Table : DOMAIN log'[MaxLoggerId].pages[t] # {} => log' = log
      /\ \A k \in LogId : k # MaxLoggerId => log'[k] = log[k]
  <2>1. PICK begun \in SeemsBegun(log[MaxLoggerId]) :
           log' = IF begun THEN [log EXCEPT ![MaxLoggerId] = NextRecord(@)] ELSE log
    BY DEF OpenClean
  <2>2. CASE begun
    <3>1. log[MaxLoggerId].cur <= RecMax
      <4>1. log[MaxLoggerId] \in LogRecord
        BY <1>2 DEF IInv, TypeOK
      <4>2. log[MaxLoggerId].cur \in 0..(RecMax + 1)
        BY <4>1 DEF LogRecord
      <4>3. log[MaxLoggerId].cur = RecMax \/ log[MaxLoggerId].first
        BY <2>1, <2>2 DEF SeemsBegun
      <4>4. log[MaxLoggerId].first => log[MaxLoggerId].cur < RecMax
        BY <1>2 DEF IInv, RecordInPage
      <4> QED
        BY <4>2, <4>3, <4>4, RecMaxAssumption
    <3> QED
      BY <1>1, <1>2, <2>1, <2>2, <3>1, RecordDone
  <2>3. CASE ~begun
    BY <1>1, <2>1, <2>3 DEF IInv, TypeOK
  <2> QED
    BY <2>2, <2>3
<1>4. ~redoing /\ ~redoing'
  BY <1>1 DEF IInv, RedoProgress, Committing
<1>5. /\ dirty' \in [Table -> SUBSET PageSet] /\ snapshot' \in [Table -> Patch]
      /\ \A t \in Table : DOMAIN snapshot'[t] = {}
  BY <1>1, NoPatchType DEF LoadTables, PageSet
<1>6. /\ logger_id' \in [Table -> 0..MaxLog] /\ log_file' \in 0..MaxLog
      /\ need_rotate' \in BOOLEAN
  BY <1>1, <1>2, MaxLogAssumption DEF VerifyIds, LogId
<1>7. TypeOK'
  BY <1>1, <1>3, <1>5, <1>6 DEF IInv, TypeOK, LoadTables
<1>8. LogsInOrder'
  BY <1>1, <1>2, <1>3 DEF IInv, LogsInOrder
<1>9. RecordInPage' /\ MagicIsSaved'
  BY <1>1, <1>2, <1>3, <1>5 DEF IInv, RecordInPage, MagicIsSaved
<1>10. YoungestLogDecides'
  BY <1>1, <1>2, <1>3 DEF IInv, YoungestLogDecides, Enrolled
<1>11. NothingToRedo'
  <2>1. ~need_rotate' => log'[MaxLoggerId].tables = Table
    <3>1. SUFFICES ASSUME ~need_rotate' PROVE Table \subseteq log[MaxLoggerId].tables
      BY <1>2, <1>3 DEF IInv, TypeOK, LogRecord
    <3>2. Table \subseteq Enrolled
      BY <1>1, <3>1 DEF VerifyIds, Enrolled
    <3> QED
      BY <3>2 DEF IInv, YoungestLogDecides
  <2> QED
    BY <1>1, <1>2, <1>3, <1>4, <2>1, MaxLogAssumption DEF NothingToRedo, Saving, LogId
<1>12. CommitProgress' /\ RedoProgress' /\ SnapshotIsSaved' /\ SnapshotIsShot'
  BY <1>1, <1>4 DEF CommitProgress, RedoProgress, SnapshotIsSaved, SnapshotIsShot, Committing
<1>13. SnapshotInCache' /\ SnapshotReleased' /\ CleanPagesOnDisk'
  BY <1>1, <1>5 DEF LoadTables, SnapshotInCache, SnapshotReleased, CleanPagesOnDisk
<1> QED
  BY <1>2, <1>7, <1>8, <1>9, <1>10, <1>11, <1>12, <1>13 DEF IInv

\* init() finding a PREPARED record preserves the invariant.
LEMMA OpenRedoStep ==
    ASSUME IInv, OpenRedo
    PROVE  IInv'
<1>1. /\ LoadTables /\ VerifyIds
      /\ pc = "down" /\ pc' = "commit" /\ MaxLoggerId # 0
      /\ log[MaxLoggerId].check = "prepared"
      /\ redoing' /\ redoing' \in BOOLEAN /\ it' = 1
      /\ UNCHANGED <<data, disk_id, log, clock, todo, shot>>
  BY DEF OpenRedo
<1>2. /\ MaxLoggerId \in LogId /\ MaxLoggerId <= clock /\ log_file' = MaxLoggerId
      /\ \A t \in Table : disk_id[t] <= MaxLoggerId
  BY <1>1, Youngest DEF IInv, LogId, VerifyIds
<1>3. /\ SomeYoungest' /\ YoungestLogDecides' /\ MaxLoggerId' = MaxLoggerId
  BY <1>1, SameDisk
<1>4. /\ dirty' \in [Table -> SUBSET PageSet] /\ snapshot' \in [Table -> Patch]
      /\ \A t \in Table : DOMAIN snapshot'[t] = {}
  BY <1>1, NoPatchType DEF LoadTables, PageSet
<1>5. /\ logger_id' \in [Table -> 0..MaxLog] /\ log_file' \in 0..MaxLog
      /\ need_rotate' \in BOOLEAN /\ it' \in 1..(NT + 1)
  BY <1>1, <1>2, MaxLogAssumption, NTAssumption DEF VerifyIds, LogId
<1>6. TypeOK'
  BY <1>1, <1>4, <1>5 DEF IInv, TypeOK, LoadTables
<1>7. LogsInOrder' /\ RecordInPage' /\ MagicIsSaved'
  BY <1>1, <1>2, <1>4, MaxLogAssumption
     DEF IInv, LogsInOrder, RecordInPage, MagicIsSaved, LogId
<1>8. CommitProgress'
  BY <1>1, <1>2, <1>3 DEF CommitProgress, Table
<1>9. RedoProgress'
  BY <1>1, <1>2, MaxLogAssumption DEF RedoProgress, VerifyIds, Committing, LogId
<1>10. NothingToRedo' /\ SnapshotIsSaved' /\ SnapshotIsShot' /\ SnapshotReleased'
  BY <1>1 DEF NothingToRedo, SnapshotIsSaved, SnapshotIsShot, SnapshotReleased
<1>11. SnapshotInCache' /\ CleanPagesOnDisk'
  BY <1>1 DEF Serving, SnapshotInCache, CleanPagesOnDisk
<1> QED
  BY <1>3, <1>6, <1>7, <1>8, <1>9, <1>10, <1>11 DEF IInv

\* YoungestLogDecides speaks of the check results and the tables of log files only.
LEMMA SameChecks ==
    ASSUME IInv, UNCHANGED <<disk_id, clock>>,
           \A l \in LogId : log'[l].check = log[l].check /\ log'[l].tables = log[l].tables
    PROVE  /\ MaxLoggerId' = MaxLoggerId
           /\ SomeYoungest'
           /\ YoungestLogDecides'
<1>1. MaxLoggerId' = MaxLoggerId /\ SomeYoungest'
  BY DEF IInv, MaxLoggerId, SomeYoungest
<1>2. \A t \in Enrolled : MaxLoggerId \in LogId
  BY Youngest, MaxLogAssumption DEF IInv, TypeOK, LogId, Enrolled
<1> QED
  BY <1>1, <1>2 DEF IInv, YoungestLogDecides, Enrolled

\* prepare writing logger_first_idx preserves the invariant.
LEMMA BeginRecordStep ==
    ASSUME IInv, BeginRecord
    PROVE  IInv'
<1>1. /\ pc = "begin" /\ pc' = "save" /\ it' = 1
      /\ log' = [log EXCEPT ![log_file].first = TRUE]
      /\ UNCHANGED <<data, disk_id, clock, redoing, cache, dirty, snapshot, logger_id,
                     log_file, need_rotate, todo, shot>>
  BY DEF BeginRecord
<1>2. log_file \in LogId /\ ~redoing
  BY <1>1, MaxLogAssumption DEF IInv, TypeOK, RecordInPage, NothingToRedo, LogId
<1>3. log' \in [LogId -> LogRecord]
  BY <1>1, <1>2 DEF IInv, TypeOK, LogRecord
<1>4. \A l \in LogId : /\ log'[l].check = log[l].check /\ log'[l].tables = log[l].tables
                       /\ log'[l].pages = log[l].pages /\ log'[l].cur = log[l].cur
                       /\ log'[l].first => log[l].first \/ l = log_file
  BY <1>1, <1>2 DEF IInv, TypeOK, LogRecord
<1>5. /\ SomeYoungest' /\ YoungestLogDecides' /\ MaxLoggerId' = MaxLoggerId
  BY <1>1, <1>4, SameChecks
<1>6. MaxLoggerId # 0 => MaxLoggerId \in LogId
  BY Youngest DEF IInv, LogId
<1>7. TypeOK'
  BY <1>1, <1>3, NTAssumption DEF IInv, TypeOK
<1>8. LogsInOrder' /\ RecordInPage' /\ MagicIsSaved'
  BY <1>1, <1>2, <1>4 DEF IInv, LogsInOrder, RecordInPage, MagicIsSaved
<1>9. NothingToRedo'
  BY <1>1, <1>2, <1>4, <1>5, <1>6 DEF IInv, NothingToRedo, Saving
<1>10. CommitProgress' /\ RedoProgress' /\ SnapshotIsSaved'
  BY <1>1, <1>2, NTAssumption DEF CommitProgress, RedoProgress, SnapshotIsSaved, Committing, Table
<1>11. SnapshotIsShot' /\ SnapshotInCache' /\ SnapshotReleased' /\ CleanPagesOnDisk'
  BY <1>1 DEF IInv, SnapshotIsShot, SnapshotInCache, SnapshotReleased, CleanPagesOnDisk, Serving
<1> QED
  BY <1>5, <1>7, <1>8, <1>9, <1>10, <1>11 DEF IInv

\* LogInfo::prepare of one table preserves the invariant.
LEMMA SaveTableStep ==
    ASSUME IInv, SaveTable
    PROVE  IInv'
<1>1. /\ pc = "save" /\ it \in Table /\ it' = it + 1
      /\ log' = [log EXCEPT ![log_file].pages[it] = snapshot[it]]
      /\ UNCHANGED <<data, disk_id, clock, pc, redoing, cache, dirty, snapshot,
                     logger_id, log_file, need_rotate, todo, shot>>
  BY DEF SaveTable
<1>2. log_file \in LogId /\ ~redoing
  BY <1>1, MaxLogAssumption DEF IInv, TypeOK, RecordInPage, NothingToRedo, LogId
<1>3. log' \in [LogId -> LogRecord]
  BY <1>1, <1>2 DEF IInv, TypeOK, LogRecord
<1>4. /\ \A l \in LogId : /\ log'[l].check = log[l].check /\ log'[l].tables = log[l].tables
                          /\ log'[l].first = log[l].first /\ log'[l].cur = log[l].cur
                          /\ \A t \in Table : \/ log'[l].pages[t] = log[l].pages[t]
                                              \/ log'[l].pages[t] = snapshot[t]
      /\ log'[log_file].pages[it] = snapshot[it]
      /\ \A t \in Table \ {it} : log'[log_file].pages[t] = log[log_file].pages[t]
  BY <1>1, <1>2 DEF IInv, TypeOK, LogRecord
<1>5. /\ SomeYoungest' /\ YoungestLogDecides' /\ MaxLoggerId' = MaxLoggerId
  BY <1>1, <1>4, SameChecks
<1>6. MaxLoggerId # 0 => MaxLoggerId \in LogId
  BY Youngest DEF IInv, LogId
<1>7. TypeOK'
  <2>1. it' \in 1..(NT + 1)
    BY <1>1, NTAssumption DEF Table
  <2> QED
    BY <1>1, <1>3, <2>1 DEF IInv, TypeOK
<1>8. LogsInOrder' /\ RecordInPage'
  BY <1>1, <1>2, <1>4 DEF IInv, LogsInOrder, RecordInPage
<1>9. MagicIsSaved'
  BY <1>1, <1>4 DEF IInv, MagicIsSaved
<1>10. NothingToRedo'
  BY <1>1, <1>2, <1>4, <1>5, <1>6 DEF IInv, NothingToRedo, Saving
<1>11. SnapshotIsSaved'
  <2>1. \A t \in Table : t < it' => t < it \/ t = it
    BY <1>1, NTAssumption DEF Table
  <2> QED
    BY <1>1, <1>4, <2>1 DEF IInv, SnapshotIsSaved, Committing
<1>12. CommitProgress' /\ RedoProgress'
  BY <1>1, <1>2 DEF CommitProgress, RedoProgress, Committing
<1>13. SnapshotIsShot' /\ SnapshotInCache' /\ SnapshotReleased' /\ CleanPagesOnDisk'
  BY <1>1 DEF IInv, SnapshotIsShot, SnapshotInCache, SnapshotReleased, CleanPagesOnDisk, Serving
<1> QED
  BY <1>5, <1>7, <1>8, <1>9, <1>10, <1>11, <1>12, <1>13 DEF IInv

\* prepare marking the record LCR_PREPARED preserves the invariant.
LEMMA EndPrepareStep ==
    ASSUME IInv, EndPrepare
    PROVE  IInv'
<1>1. /\ pc = "save" /\ pc' = "commit" /\ it = NT + 1 /\ it' = 1
      /\ log' = [log EXCEPT ![log_file].check = "prepared"]
      /\ UNCHANGED <<data, disk_id, clock, redoing, cache, dirty, snapshot, logger_id,
                     log_file, need_rotate, todo, shot>>
  BY DEF EndPrepare, PastLastTable
<1>2. log_file \in LogId /\ ~redoing /\ MaxLoggerId <= log_file /\ log_file <= clock
  BY <1>1, MaxLogAssumption
     DEF IInv, TypeOK, RecordInPage, NothingToRedo, LogsInOrder, LogId
<1>3. log' \in [LogId -> LogRecord]
  BY <1>1, <1>2 DEF IInv, TypeOK, LogRecord
<1>4. \A l \in LogId : /\ log'[l].tables = log[l].tables /\ log'[l].pages = log[l].pages
                       /\ log'[l].cur = log[l].cur /\ log'[l].first = log[l].first
                       /\ log'[l].check = IF l = log_file THEN "prepared" ELSE log[l].check
  BY <1>1, <1>2 DEF IInv, TypeOK, LogRecord
<1>5. MaxLoggerId' = MaxLoggerId /\ SomeYoungest'
  BY <1>1 DEF IInv, MaxLoggerId, SomeYoungest
<1>6. /\ MaxLoggerId # 0 => MaxLoggerId \in LogId
      /\ \A t \in Table : disk_id[t] <= MaxLoggerId
      /\ \A t \in Enrolled : MaxLoggerId # 0
  BY Youngest, MaxLogAssumption DEF IInv, LogId, Enrolled, TypeOK
<1>7. YoungestLogDecides'
  BY <1>1, <1>4, <1>5, <1>6 DEF IInv, YoungestLogDecides, Enrolled
<1>8. TypeOK'
  BY <1>1, <1>3, NTAssumption DEF IInv, TypeOK
<1>9. LogsInOrder'
  <2>1. \A l \in LogId : l > clock => l # log_file
    BY <1>2, MaxLogAssumption DEF IInv, TypeOK, LogId
  <2> QED
    BY <1>1, <1>4, <2>1 DEF IInv, LogsInOrder
<1>10. RecordInPage' /\ MagicIsSaved'
  BY <1>1, <1>2, <1>4 DEF IInv, RecordInPage, MagicIsSaved
<1>11. CommitProgress'
  <2>1. \A t \in Table : disk_id[t] <= log_file
    BY <1>2, <1>6, MaxLogAssumption, Youngest DEF IInv, TypeOK, LogId
  <2>2. \A t \in Table : ~(t < 1)
    BY DEF Table
  <2>3. MaxLoggerId # log_file /\ MaxLoggerId # 0 => log'[MaxLoggerId].check # "prepared"
    BY <1>1, <1>4, <1>6 DEF IInv, NothingToRedo
  <2>4. log_file # 0 /\ log'[log_file].check = "prepared"
    BY <1>2, <1>4 DEF LogId
  <2> QED
    BY <1>1, <1>2, <1>5, <2>1, <2>2, <2>3, <2>4 DEF CommitProgress
<1>12. SnapshotIsSaved'
  <2>1. \A t \in Table : t < it
    BY <1>1, NTAssumption DEF Table
  <2>2. log[log_file].tables = Table
    BY <1>1 DEF IInv, NothingToRedo, Saving
  <2> QED
    BY <1>1, <1>2, <1>4, <2>1, <2>2 DEF IInv, SnapshotIsSaved
<1>13. NothingToRedo' /\ RedoProgress'
  BY <1>1, <1>2 DEF NothingToRedo, RedoProgress
<1>14. SnapshotIsShot' /\ SnapshotInCache' /\ SnapshotReleased' /\ CleanPagesOnDisk'
  BY <1>1 DEF IInv, SnapshotIsShot, SnapshotInCache, SnapshotReleased, CleanPagesOnDisk, Serving
<1> QED
  BY <1>5, <1>7, <1>8, <1>9, <1>10, <1>11, <1>12, <1>13, <1>14 DEF IInv

\* Where a commit or a redo is.
LEMMA CommitFacts ==
    ASSUME IInv, Committing
    PROVE  /\ log_file \in LogId /\ log_file <= clock
           /\ log[log_file] \in LogRecord /\ log[log_file].cur <= RecMax
           /\ log[log_file].check = "prepared"
           /\ \A t \in Table : /\ log[log_file].pages[t] \in Patch
                               /\ DOMAIN log[log_file].pages[t] \subseteq PageSet
                               /\ \A p \in DOMAIN log[log_file].pages[t] :
                                     log[log_file].pages[t][p] \in Val
                               /\ data[t] \in Content
<1>1. log_file \in LogId /\ log_file <= clock /\ log[log_file].check = "prepared"
      /\ log[log_file].cur < RecMax
  BY MaxLogAssumption
     DEF IInv, TypeOK, CommitProgress, RecordInPage, LogsInOrder, LogId, Committing
<1>2. log[log_file] \in LogRecord
  BY <1>1 DEF IInv, TypeOK
<1>3. \A t \in Table : log[log_file].pages[t] \in Patch /\ data[t] \in Content
  BY <1>2 DEF LogRecord, IInv, TypeOK
<1>4. log[log_file].cur <= RecMax
  <2>1. log[log_file].cur \in 0..(RecMax + 1)
    BY <1>2 DEF LogRecord
  <2> QED
    BY <1>1, <2>1, RecMaxAssumption
<1> QED
  BY <1>1, <1>2, <1>3, <1>4, PatchType

\* LogInfo::commit writing the log id in a table's page 0 preserves the
\* invariant.
LEMMA MarkTableStep ==
    ASSUME IInv, MarkTable
    PROVE  IInv'
<1>1. /\ pc = "commit" /\ it \in Table
      /\ redoing => logger_id[it] # 0
      /\ logger_id' = [logger_id EXCEPT ![it] = log_file]
      /\ disk_id' = [disk_id EXCEPT ![it] = log_file]
      /\ UNCHANGED <<data, log, clock, redoing, cache, dirty, snapshot, log_file,
                     need_rotate, shot>>
  BY DEF MarkTable
<1>2. \/ /\ DOMAIN Saved = {} /\ it' = it + 1 /\ UNCHANGED <<pc, todo>>
      \/ /\ DOMAIN Saved # {} /\ pc' = "restore" /\ todo' = DOMAIN Saved \ {Magic} /\ it' = it
  BY DEF MarkTable, ToRestore
<1>3. /\ Committing /\ Committing'
      /\ redoing => pc' \in {"commit", "restore"}
  BY <1>1, <1>2 DEF Committing
<1>4. /\ log_file \in LogId /\ log_file <= clock /\ log[log_file].check = "prepared"
      /\ DOMAIN Saved \subseteq PageSet
      /\ DOMAIN Saved # {} => Magic \in DOMAIN Saved
  BY <1>1, <1>3, CommitFacts DEF Saved, IInv, MagicIsSaved
<1>5. /\ disk_id' \in [Table -> 0..MaxLog] /\ logger_id' \in [Table -> 0..MaxLog]
      /\ disk_id'[it] = log_file /\ logger_id'[it] = log_file
      /\ \A t \in Table \ {it} : disk_id'[t] = disk_id[t] /\ logger_id'[t] = logger_id[t]
  BY <1>1, <1>4, MaxLogAssumption DEF IInv, TypeOK, LogId
<1>6. \A t \in Table : disk_id'[t] <= log_file
  BY <1>3, <1>4, <1>5, MaxLogAssumption DEF IInv, CommitProgress, LogId
<1>7. MaxLoggerId' = log_file /\ SomeYoungest'
  <2>1. log_file \in {disk_id'[t] : t \in Table} \cup {0}
    BY <1>1, <1>5
  <2>2. disk_id' \in [Table -> Nat]
    BY <1>5, MaxLogAssumption
  <2> QED
    BY <1>6, <2>1, <2>2, GreatestIs DEF MaxLoggerId, SomeYoungest
<1>8. redoing => log_file = MaxLoggerId /\ disk_id[it] # 0 /\ logger_id[it] # 0
  BY <1>1, <1>3 DEF IInv, CommitProgress, RedoProgress
<1>9. YoungestLogDecides'
  <2>1. ~redoing => log[log_file].tables = Table
    BY <1>3 DEF IInv, SnapshotIsSaved
  <2>2. \A t \in Table : redoing /\ disk_id'[t] # 0 => t \in log[log_file].tables
    BY <1>5, <1>8 DEF IInv, YoungestLogDecides, Enrolled
  <2> QED
    BY <1>1, <1>4, <1>7, <2>1, <2>2 DEF YoungestLogDecides, Enrolled
<1>10. it' \in 1..(NT + 1) /\ todo' \in SUBSET PageSet
  BY <1>1, <1>2, <1>4, NTAssumption DEF IInv, TypeOK, Table
<1>11. TypeOK'
  BY <1>1, <1>2, <1>5, <1>10 DEF IInv, TypeOK
<1>12. LogsInOrder'
  BY <1>1, <1>4, <1>5 DEF IInv, LogsInOrder
<1>13. RecordInPage' /\ MagicIsSaved'
  BY <1>1, <1>3 DEF IInv, RecordInPage, MagicIsSaved, Committing
<1>14. CommitProgress'
  <2>1. \A t \in Table : t < it' /\ (redoing => disk_id'[t] # 0) =>
           disk_id'[t] = log_file /\ Holds(t)'
    <3> SUFFICES ASSUME NEW t \in Table, t < it', redoing => disk_id'[t] # 0
                 PROVE  disk_id'[t] = log_file /\ Holds(t)'
      OBVIOUS
    <3>1. CASE t = it
      <4>1. DOMAIN Saved = {}
        BY <1>1, <1>2, <3>1, NTAssumption DEF Table
      <4> QED
        BY <1>1, <1>5, <3>1, <4>1 DEF Holds, Saved
    <3>2. CASE t # it
      <4>1. t < it /\ disk_id'[t] = disk_id[t]
        BY <1>1, <1>2, <1>5, <3>2, NTAssumption DEF Table
      <4> QED
        BY <1>1, <1>3, <4>1 DEF IInv, CommitProgress, Holds
    <3> QED
      BY <3>1, <3>2
  <2>2. pc' = "restore" =>
          /\ it' = it /\ Saved' = Saved
          /\ Magic \in DOMAIN Saved /\ todo' = DOMAIN Saved \ {Magic}
    BY <1>1, <1>2, <1>4 DEF Saved
  <2>3. log_file' # 0 /\ log_file' = log_file /\ log' = log /\ redoing' = redoing
    BY <1>1, <1>4 DEF LogId
  <2> QED
    BY <1>1, <1>4, <1>5, <1>6, <1>7, <2>1, <2>2, <2>3 DEF CommitProgress
<1>15. RedoProgress'
  BY <1>1, <1>3, <1>4, <1>5 DEF IInv, RedoProgress, LogId
<1>16. NothingToRedo' /\ SnapshotReleased'
  BY <1>3 DEF NothingToRedo, SnapshotReleased, Committing
<1>17. SnapshotIsSaved' /\ SnapshotIsShot'
  BY <1>1, <1>3 DEF IInv, SnapshotIsSaved, SnapshotIsShot, Committing
<1>18. SnapshotInCache' /\ CleanPagesOnDisk'
  BY <1>1, <1>3 DEF IInv, SnapshotInCache, CleanPagesOnDisk, Serving, Committing
<1> QED
  BY <1>7, <1>9, <1>11, <1>12, <1>13, <1>14, <1>15, <1>16, <1>17, <1>18 DEF IInv

\* redo passing over a table with no log id preserves the invariant.
LEMMA SkipTableStep ==
    ASSUME IInv, SkipTable
    PROVE  IInv'
<1>1. /\ pc = "commit" /\ redoing /\ it \in Table /\ logger_id[it] = 0 /\ it' = it + 1
      /\ UNCHANGED <<data, disk_id, log, clock, pc, redoing, cache, dirty, snapshot,
                     logger_id, log_file, need_rotate, todo, shot>>
  BY DEF SkipTable, disk
<1>2. /\ SomeYoungest' /\ YoungestLogDecides' /\ MaxLoggerId' = MaxLoggerId
  BY <1>1, SameDisk
<1>3. TypeOK'
  <2>1. it' \in 1..(NT + 1)
    BY <1>1, NTAssumption DEF Table
  <2> QED
    BY <1>1, <2>1 DEF IInv, TypeOK
<1>4. LogsInOrder' /\ RecordInPage' /\ MagicIsSaved' /\ RedoProgress'
  BY <1>1 DEF IInv, LogsInOrder, RecordInPage, MagicIsSaved, RedoProgress, Committing
<1>5. CommitProgress'
  <2>1. disk_id[it] = 0 /\ Committing
    BY <1>1 DEF IInv, RedoProgress, Committing
  <2>2. \A t \in Table : t < it' => t < it \/ t = it
    BY <1>1, NTAssumption DEF Table
  <2>3. MaxLoggerId = log_file
    BY <1>1, <2>1 DEF IInv, CommitProgress
  <2> QED
    BY <1>1, <1>2, <2>1, <2>2, <2>3 DEF IInv, CommitProgress, Holds, Committing
<1>6. NothingToRedo' /\ SnapshotIsSaved' /\ SnapshotIsShot' /\ SnapshotReleased'
  BY <1>1 DEF NothingToRedo, SnapshotIsSaved, SnapshotIsShot, SnapshotReleased
<1>7. SnapshotInCache' /\ CleanPagesOnDisk'
  BY <1>1 DEF SnapshotInCache, CleanPagesOnDisk, Serving
<1> QED
  BY <1>2, <1>3, <1>4, <1>5, <1>6, <1>7 DEF IInv

\* restore_page copying one page preserves the invariant.
LEMMA RestorePageStep ==
    ASSUME IInv, RestorePage
    PROVE  IInv'
<1>1. PICK p \in todo : data' = [data EXCEPT ![it][p] = Saved[p]] /\ todo' = todo \ {p}
  BY DEF RestorePage
<1>2. /\ pc = "restore" /\ Committing /\ Committing'
      /\ UNCHANGED <<disk_id, log, clock, pc, redoing, cache, dirty, snapshot, logger_id,
                     log_file, need_rotate, it, shot>>
  BY DEF RestorePage, Committing
<1>3. /\ it \in Table /\ disk_id[it] = log_file /\ Magic \in DOMAIN Saved
      /\ todo \subseteq DOMAIN Saved \ {Magic} /\ p \in DOMAIN Saved
      /\ \A q \in DOMAIN Saved \ (todo \cup {Magic}) : data[it][q] = Saved[q]
  BY <1>1, <1>2 DEF IInv, CommitProgress
<1>4. Saved[p] \in Val /\ DOMAIN Saved \subseteq PageSet /\ data[it] \in [PageSet -> Val]
  BY <1>2, <1>3, CommitFacts DEF Saved, Content
<1>5. /\ \A t \in Table \ {it} : data'[t] = data[t]
      /\ data'[it] \in [PageSet -> Val] /\ data'[it][p] = Saved[p]
      /\ \A q \in PageSet \ {p} : data'[it][q] = data[it][q]
      /\ data' \in [Table -> Content]
  BY <1>1, <1>3, <1>4 DEF IInv, TypeOK, Content
<1>6. /\ SomeYoungest' /\ YoungestLogDecides' /\ MaxLoggerId' = MaxLoggerId
  BY <1>2, SameDisk
<1>7. TypeOK'
  <2>1. todo' \in SUBSET PageSet
    BY <1>1 DEF IInv, TypeOK
  <2> QED
    BY <1>2, <1>5, <2>1 DEF IInv, TypeOK
<1>8. LogsInOrder' /\ RecordInPage' /\ MagicIsSaved' /\ RedoProgress'
  BY <1>2 DEF IInv, LogsInOrder, RecordInPage, MagicIsSaved, RedoProgress
<1>9. CommitProgress'
  <2>1. Saved' = Saved
    BY <1>2 DEF Saved
  <2>2. \A t \in Table : t < it => Holds(t)' = Holds(t)
    BY <1>2, <1>3, <1>5, NTAssumption DEF Holds, Table
  <2>3. /\ todo' \subseteq DOMAIN Saved \ {Magic}
        /\ \A q \in DOMAIN Saved \ (todo' \cup {Magic}) : data'[it][q] = Saved[q]
    BY <1>1, <1>3, <1>4, <1>5
  <2> QED
    BY <1>2, <1>3, <1>6, <2>1, <2>2, <2>3 DEF IInv, CommitProgress
<1>10. ~redoing => p \in DOMAIN snapshot[it]
  BY <1>2, <1>3 DEF IInv, SnapshotIsSaved, Saved
<1>11. NothingToRedo' /\ SnapshotIsSaved' /\ SnapshotReleased'
  BY <1>2 DEF IInv, NothingToRedo, SnapshotIsSaved, SnapshotReleased
<1>12. SnapshotIsShot'
  <2>1. \A t \in Table : ~redoing => Overlay(data'[t], snapshot[t]) = Overlay(data[t], snapshot[t])
    BY <1>3, <1>5, <1>10 DEF Overlay
  <2> QED
    BY <1>2, <2>1 DEF IInv, SnapshotIsShot
<1>13. SnapshotInCache' /\ CleanPagesOnDisk'
  BY <1>2, <1>3, <1>5, <1>10 DEF IInv, SnapshotInCache, CleanPagesOnDisk, Serving
<1> QED
  BY <1>6, <1>7, <1>8, <1>9, <1>11, <1>12, <1>13 DEF IInv

\* LogInfo::commit writing the saved page 0 last preserves the invariant.
LEMMA RestoreMagicStep ==
    ASSUME IInv, RestoreMagic
    PROVE  IInv'
<1>1. /\ pc = "restore" /\ pc' = "commit" /\ Committing /\ Committing' /\ todo = {}
      /\ data' = [data EXCEPT ![it][Magic] = Saved[Magic]]
      /\ disk_id' = [disk_id EXCEPT ![it] = log_file]
      /\ it' = it + 1
      /\ UNCHANGED <<log, clock, redoing, cache, dirty, snapshot, logger_id, log_file,
                     need_rotate, todo, shot>>
  BY DEF RestoreMagic, Committing
<1>2. /\ it \in Table /\ disk_id[it] = log_file /\ Magic \in DOMAIN Saved
      /\ \A q \in DOMAIN Saved \ {Magic} : data[it][q] = Saved[q]
  BY <1>1 DEF IInv, CommitProgress
<1>3. Saved[Magic] \in Val /\ DOMAIN Saved \subseteq PageSet /\ data[it] \in [PageSet -> Val]
  BY <1>1, <1>2, CommitFacts DEF Saved, Content
<1>4. /\ \A t \in Table \ {it} : data'[t] = data[t]
      /\ data'[it] \in [PageSet -> Val] /\ data'[it][Magic] = Saved[Magic]
      /\ \A q \in PageSet \ {Magic} : data'[it][q] = data[it][q]
      /\ data' \in [Table -> Content]
  BY <1>1, <1>2, <1>3 DEF IInv, TypeOK, Content
<1>5. disk_id' = disk_id
  BY <1>1, <1>2 DEF IInv, TypeOK
<1>6. /\ SomeYoungest' /\ YoungestLogDecides' /\ MaxLoggerId' = MaxLoggerId
  BY <1>1, <1>5, SameDisk
<1>7. it' \in 1..(NT + 1) /\ it' # 1
  BY <1>1, <1>2, NTAssumption DEF Table
<1>8. TypeOK'
  BY <1>1, <1>4, <1>5, <1>7 DEF IInv, TypeOK
<1>9. LogsInOrder' /\ RecordInPage' /\ MagicIsSaved' /\ RedoProgress'
  BY <1>1, <1>5 DEF IInv, LogsInOrder, RecordInPage, MagicIsSaved, RedoProgress
<1>10. CommitProgress'
  <2>1. \A q \in DOMAIN Saved : data'[it][q] = Saved[q]
    BY <1>2, <1>3, <1>4
  <2>2. \A t \in Table : t < it' => t = it \/ (t < it /\ t # it /\ Holds(t)' = Holds(t))
    BY <1>1, <1>2, <1>4, NTAssumption DEF Holds, Table
  <2>3. \A t \in Table : t < it' /\ (redoing => disk_id[t] # 0) =>
           disk_id[t] = log_file /\ Holds(t)'
    <3> SUFFICES ASSUME NEW t \in Table, t < it', redoing => disk_id[t] # 0
                 PROVE  disk_id[t] = log_file /\ Holds(t)'
      OBVIOUS
    <3>1. CASE t = it
      BY <1>1, <1>2, <2>1, <3>1 DEF Holds, Saved
    <3>2. CASE t # it
      BY <1>1, <2>2, <3>2 DEF IInv, CommitProgress
    <3> QED
      BY <3>1, <3>2
  <2>4. MaxLoggerId = log_file
    BY <1>1 DEF IInv, CommitProgress
  <2> QED
    BY <1>1, <1>5, <1>6, <2>3, <2>4 DEF IInv, CommitProgress
<1>11. ~redoing => Magic \in DOMAIN snapshot[it]
  BY <1>1, <1>2 DEF IInv, SnapshotIsSaved, Saved
<1>12. NothingToRedo' /\ SnapshotIsSaved' /\ SnapshotReleased'
  BY <1>1 DEF IInv, NothingToRedo, SnapshotIsSaved, SnapshotReleased
<1>13. SnapshotIsShot'
  <2>1. \A t \in Table : ~redoing => Overlay(data'[t], snapshot[t]) = Overlay(data[t], snapshot[t])
    BY <1>2, <1>4, <1>11 DEF Overlay
  <2> QED
    BY <1>1, <2>1 DEF IInv, SnapshotIsShot
<1>14. SnapshotInCache' /\ CleanPagesOnDisk'
  BY <1>1, <1>2, <1>4, <1>11 DEF IInv, SnapshotInCache, CleanPagesOnDisk, Serving
<1> QED
  BY <1>6, <1>8, <1>9, <1>10, <1>12, <1>13, <1>14 DEF IInv

\* When a commit or a redo has passed the last table, every table that takes part
\* carries the log file's id and holds the pages saved in it.
LEMMA CommitDone ==
    ASSUME IInv, pc = "commit", it = NT + 1
    PROVE  /\ \A t \in Table : (redoing => disk_id[t] # 0) => disk_id[t] = log_file /\ Holds(t)
           /\ \A t \in Enrolled : disk_id[t] = log_file /\ Holds(t)
           /\ MaxLoggerId = log_file \/ (MaxLoggerId # 0 => log[MaxLoggerId].check # "prepared")
BY NTAssumption DEF IInv, CommitProgress, Committing, Table, Enrolled

\* commit marking the record LCR_COMMIT preserves the invariant.
LEMMA EndCommitStep ==
    ASSUME IInv, EndCommit
    PROVE  IInv'
<1>1. /\ pc = "commit" /\ ~redoing /\ Committing /\ it = NT + 1 /\ pc' = "run"
      /\ log' = [log EXCEPT ![log_file] = NextRecord(@)]
      /\ snapshot' = [t \in Table |-> NoPatch]
      /\ UNCHANGED <<data, disk_id, clock, redoing, cache, dirty, logger_id, log_file,
                     need_rotate, it, todo, shot>>
  BY DEF EndCommit, PastLastTable, Committing
<1>2. log_file \in LogId /\ log_file <= clock /\ log[log_file].cur <= RecMax
  BY <1>1, CommitFacts
<1>3. /\ log' \in [LogId -> LogRecord]
      /\ log'[log_file].check # "prepared" /\ log'[log_file].tables = log[log_file].tables
      /\ ~log'[log_file].first
      /\ \A t \in Table : DOMAIN log'[log_file].pages[t] = {}
      /\ \A k \in LogId : k # log_file => log'[k] = log[k]
  BY <1>1, <1>2, RecordDone
<1>4. /\ \A t \in Table : disk_id[t] = log_file /\ Holds(t)
      /\ MaxLoggerId = log_file \/ (MaxLoggerId # 0 => log[MaxLoggerId].check # "prepared")
  BY <1>1, CommitDone
<1>5. MaxLoggerId' = MaxLoggerId /\ SomeYoungest'
  BY <1>1 DEF IInv, MaxLoggerId, SomeYoungest
<1>6. MaxLoggerId # 0 => MaxLoggerId \in LogId /\ MaxLoggerId = log_file
  BY <1>4, Youngest DEF IInv, LogId
<1>7. YoungestLogDecides'
  <2>1. \A t \in Enrolled : MaxLoggerId = log_file
    <3>1. \A t \in Enrolled : MaxLoggerId # 0
      BY Youngest, MaxLogAssumption DEF IInv, TypeOK, Enrolled
    <3> QED
      BY <1>6, <3>1
  <2> QED
    BY <1>1, <1>3, <1>4, <1>5, <2>1 DEF IInv, YoungestLogDecides, Enrolled
<1>8. snapshot' \in [Table -> Patch] /\ \A t \in Table : DOMAIN snapshot'[t] = {}
  BY <1>1, NoPatchType
<1>9. TypeOK'
  BY <1>1, <1>3, <1>8 DEF IInv, TypeOK
<1>10. LogsInOrder'
  BY <1>1, <1>2, <1>3 DEF IInv, LogsInOrder
<1>11. RecordInPage' /\ MagicIsSaved'
  BY <1>1, <1>2, <1>3, <1>8 DEF IInv, RecordInPage, MagicIsSaved
<1>12. NothingToRedo'
  <2>1. MaxLoggerId <= log_file
    BY <1>2, <1>6, MaxLogAssumption, Youngest DEF IInv, LogId
  <2>2. log[log_file].tables = Table
    BY <1>1 DEF IInv, SnapshotIsSaved
  <2> QED
    BY <1>1, <1>3, <1>5, <1>6, <2>1, <2>2 DEF NothingToRedo, Saving
<1>13. CommitProgress' /\ RedoProgress' /\ SnapshotIsSaved' /\ SnapshotIsShot' /\ SnapshotReleased'
  BY <1>1, <1>8
     DEF CommitProgress, RedoProgress, SnapshotIsSaved, SnapshotIsShot, SnapshotReleased,
         Committing
<1>14. SnapshotInCache'
  BY <1>1, <1>8 DEF SnapshotInCache
<1>15. CleanPagesOnDisk'
  <2> SUFFICES ASSUME NEW t \in Table, NEW p \in PageSet, p \notin dirty[t]
               PROVE  cache[t][p] = data[t][p]
    BY <1>1 DEF CleanPagesOnDisk
  <2>1. CASE p \in DOMAIN snapshot[t]
    <3>1. cache[t][p] = snapshot[t][p]
      BY <1>1, <2>1 DEF IInv, SnapshotInCache, Serving
    <3>2. data[t][p] = snapshot[t][p]
      BY <1>1, <1>4, <2>1 DEF IInv, SnapshotIsSaved, Holds
    <3> QED
      BY <3>1, <3>2
  <2>2. CASE p \notin DOMAIN snapshot[t]
    BY <1>1, <2>2 DEF IInv, CleanPagesOnDisk
  <2> QED
    BY <2>1, <2>2
<1> QED
  BY <1>5, <1>7, <1>9, <1>10, <1>11, <1>12, <1>13, <1>14, <1>15 DEF IInv

\* The end of redo, and init() loading the tables again, preserve the
\* invariant.
LEMMA EndRedoStep ==
    ASSUME IInv, EndRedo
    PROVE  IInv'
<1>1. /\ pc = "commit" /\ redoing /\ Committing /\ it = NT + 1
      /\ pc' = "run" /\ redoing' = FALSE /\ log_file' = 0 /\ need_rotate' = FALSE
      /\ log' = [log EXCEPT ![log_file] = NextRecord(@)]
      /\ LoadTables
      /\ logger_id' = disk_id
      /\ UNCHANGED <<data, disk_id, clock, it, todo, shot>>
  BY DEF EndRedo, PastLastTable, Committing
<1>2. log_file \in LogId /\ log_file <= clock /\ log[log_file].cur <= RecMax
  BY <1>1, CommitFacts
<1>3. /\ log' \in [LogId -> LogRecord]
      /\ log'[log_file].check # "prepared" /\ log'[log_file].tables = log[log_file].tables
      /\ ~log'[log_file].first
      /\ \A t \in Table : DOMAIN log'[log_file].pages[t] = {}
      /\ \A k \in LogId : k # log_file => log'[k] = log[k]
  BY <1>1, <1>2, RecordDone
<1>4. MaxLoggerId = log_file /\ \A t \in Enrolled : disk_id[t] = log_file
  BY <1>1, CommitDone DEF IInv, CommitProgress
<1>5. MaxLoggerId' = MaxLoggerId /\ SomeYoungest'
  BY <1>1 DEF IInv, MaxLoggerId, SomeYoungest
<1>6. YoungestLogDecides'
  BY <1>1, <1>3, <1>4, <1>5 DEF IInv, YoungestLogDecides, Enrolled
<1>7. /\ dirty' \in [Table -> SUBSET PageSet] /\ snapshot' \in [Table -> Patch]
      /\ \A t \in Table : DOMAIN snapshot'[t] = {}
  BY <1>1, NoPatchType DEF LoadTables, PageSet
<1>8. TypeOK'
  <2>1. log_file' \in 0..MaxLog
    BY <1>1, MaxLogAssumption
  <2>2. need_rotate' \in BOOLEAN /\ redoing' \in BOOLEAN
    BY <1>1
  <2> QED
    BY <1>1, <1>3, <1>7, <2>1, <2>2 DEF IInv, TypeOK, LoadTables
<1>9. LogsInOrder'
  BY <1>1, <1>2, <1>3, MaxLogAssumption DEF IInv, TypeOK, LogsInOrder
<1>10. RecordInPage' /\ MagicIsSaved'
  BY <1>1, <1>2, <1>3, <1>7 DEF IInv, RecordInPage, MagicIsSaved
<1>11. NothingToRedo'
  BY <1>1, <1>2, <1>3, <1>4, <1>5 DEF NothingToRedo, Saving
<1>12. CommitProgress' /\ RedoProgress' /\ SnapshotIsSaved' /\ SnapshotIsShot' /\ SnapshotReleased'
  BY <1>1, <1>7
     DEF CommitProgress, RedoProgress, SnapshotIsSaved, SnapshotIsShot, SnapshotReleased,
         Committing
<1>13. SnapshotInCache' /\ CleanPagesOnDisk'
  BY <1>1, <1>7 DEF LoadTables, SnapshotInCache, CleanPagesOnDisk
<1> QED
  BY <1>5, <1>6, <1>8, <1>9, <1>10, <1>11, <1>12, <1>13 DEF IInv

\* A step that changes nothing.
LEMMA StutteringStep ==
    ASSUME IInv, UNCHANGED vars
    PROVE  IInv'
<1>1. /\ SomeYoungest' /\ YoungestLogDecides' /\ MaxLoggerId' = MaxLoggerId
  BY SameDisk DEF vars, disk
<1>2. TypeOK' /\ LogsInOrder' /\ RecordInPage' /\ MagicIsSaved'
  BY DEF IInv, vars, disk, process, TypeOK, LogsInOrder, RecordInPage, MagicIsSaved
<1>3. NothingToRedo' /\ CommitProgress' /\ RedoProgress' /\ SnapshotIsSaved'
  BY <1>1 DEF IInv, vars, disk, process, NothingToRedo, CommitProgress, RedoProgress,
              SnapshotIsSaved, Saving, Committing, Holds, Saved
<1>4. SnapshotIsShot' /\ SnapshotInCache' /\ SnapshotReleased' /\ CleanPagesOnDisk'
  BY DEF IInv, vars, disk, process, SnapshotIsShot, SnapshotInCache, SnapshotReleased,
         CleanPagesOnDisk, Serving
<1> QED
  BY <1>1, <1>2, <1>3, <1>4 DEF IInv

\* Every step of the process, and a step that changes nothing, preserves the
\* invariant.
LEMMA NextIInv ==
    ASSUME IInv, [Next]_vars
    PROVE  IInv'
<1>1. CASE Open
  BY <1>1, OpenFreshStep, OpenCleanStep, OpenRedoStep DEF Open
<1>2. CASE \E t \in Table, p \in PageSet : Write(t, p)
  BY <1>2, WriteStep
<1>3. CASE TakeSnapshot
  BY <1>3, TakeSnapshotStep
<1>4. CASE Prepare
  BY <1>4, RotateStep, KeepLogFileStep, BeginRecordStep, SaveTableStep, EndPrepareStep
     DEF Prepare
<1>5. CASE Commit
  BY <1>5, MarkTableStep, SkipTableStep, RestorePageStep, RestoreMagicStep, EndCommitStep,
     EndRedoStep DEF Commit
<1>6. CASE Stop
  BY <1>6, StopStep
<1>7. CASE UNCHANGED vars
  BY <1>7, StutteringStep
<1> QED
  BY <1>1, <1>2, <1>3, <1>4, <1>5, <1>6, <1>7 DEF Next

-------------------------------------------------------------------------------
(***************************************************************************)
(* What follows.                                                           *)
(***************************************************************************)

\* Whatever the users do and wherever the process stops, the collection is in a
\* state of the inductive invariant: the protocol of init, prepare and commit.
THEOREM Invariance == Spec => []IInv
<1>1. IInv /\ [Next]_vars => IInv'
  BY NextIInv
<1> QED
  BY InitIInv, <1>1, PTL DEF Spec

\* Every variable keeps its type: logger_rec_cur goes at most one past logger_rec_max,
\* what is saved is contents of a table's pages.
THEOREM TypeCorrect == Spec => []TypeOK
<1>1. IInv => TypeOK
  BY DEF IInv
<1> QED
  BY Invariance, <1>1, PTL

\* A record that prepare, commit or redo are at lies within the key page of its log
\* file, though integrity_verify reads one behind it and may pass it by.
THEOREM RecordsAreInPage == Spec => []RecordInPage
<1>1. IInv => RecordInPage
  BY DEF IInv
<1> QED
  BY Invariance, <1>1, PTL

\* A page the cache may drop (neither dirty nor in the snapshot) is on disk as its
\* users last saw it.
THEOREM CleanPagesAreOnDisk == Spec => []CleanPagesOnDisk
<1>1. IInv => CleanPagesOnDisk
  BY DEF IInv
<1> QED
  BY Invariance, <1>1, PTL

\* integrity_verify looks at the right log file: tables that disagree are those a
\* PREPARED record of the youngest one covers.
THEOREM YoungestLogIsDecisive == Spec => []YoungestLogDecides
<1>1. IInv => YoungestLogDecides
  BY DEF IInv
<1> QED
  BY Invariance, <1>1, PTL

\* Data files change only by the write-ahead rule.
LEMMA StepWritesAhead ==
    ASSUME IInv, [Next]_vars
    PROVE  WriteAheadStep \/ UNCHANGED vars
<1>1. CASE Committing /\ Commit
  <2>1. CASE MarkTable
    <3>1. /\ it \in Table /\ UNCHANGED <<data, log, redoing>>
          /\ disk_id' = [disk_id EXCEPT ![it] = log_file]
          /\ redoing => logger_id[it] # 0
      BY <2>1 DEF MarkTable
    <3>2. it \in log[log_file].tables
      <4>1. CASE redoing
        <5>1. disk_id[it] # 0 /\ log_file = MaxLoggerId
          BY <1>1, <3>1, <4>1 DEF IInv, RedoProgress, CommitProgress
        <5> QED
          BY <3>1, <5>1 DEF IInv, YoungestLogDecides, Enrolled
      <4>2. CASE ~redoing
        BY <1>1, <3>1, <4>2 DEF IInv, SnapshotIsSaved
      <4> QED
        BY <4>1, <4>2
    <3> QED
      BY <3>1, <3>2 DEF WriteAheadStep, IInv, TypeOK
  <2>2. CASE RestorePage
    <3>1. PICK p \in todo : data' = [data EXCEPT ![it][p] = Saved[p]]
      BY <2>2 DEF RestorePage
    <3>2. /\ it \in Table /\ disk_id[it] = log_file /\ p \in DOMAIN Saved
          /\ log[log_file].check = "prepared" /\ disk_id' = disk_id
      BY <1>1, <2>2, <3>1 DEF RestorePage, IInv, CommitProgress
    <3>3. /\ data'[it] = [data[it] EXCEPT ![p] = Saved[p]]
          /\ \A t \in Table \ {it} : data'[t] = data[t]
      BY <3>1, <3>2 DEF IInv, TypeOK
    <3> QED
      BY <3>2, <3>3 DEF WriteAheadStep, Saved
  <2>3. CASE RestoreMagic
    <3>1. /\ data' = [data EXCEPT ![it][Magic] = Saved[Magic]]
          /\ disk_id' = [disk_id EXCEPT ![it] = log_file]
      BY <2>3 DEF RestoreMagic
    <3>2. /\ it \in Table /\ disk_id[it] = log_file /\ Magic \in DOMAIN Saved
          /\ log[log_file].check = "prepared"
      BY <1>1, <2>3 DEF RestoreMagic, IInv, CommitProgress
    <3>3. /\ data'[it] = [data[it] EXCEPT ![Magic] = Saved[Magic]]
          /\ \A t \in Table \ {it} : data'[t] = data[t]
          /\ disk_id' = disk_id
      BY <3>1, <3>2 DEF IInv, TypeOK
    <3> QED
      BY <3>2, <3>3 DEF WriteAheadStep, Saved
  <2>4. CASE SkipTable \/ EndCommit \/ EndRedo
    BY <2>4 DEF SkipTable, EndCommit, EndRedo, disk, WriteAheadStep
  <2> QED
    BY <1>1, <2>1, <2>2, <2>3, <2>4 DEF Commit
<1>2. Commit => Committing
  BY DEF Commit, Committing, MarkTable, SkipTable, RestorePage, RestoreMagic, EndCommit, EndRedo
<1>3. CASE ~Commit
  <2>1. UNCHANGED <<data, disk_id>>
    BY <1>3 DEF Next, Open, OpenFresh, OpenClean, OpenRedo, Write, TakeSnapshot, Prepare, Rotate,
                KeepLogFile, BeginRecord, SaveTable, EndPrepare, Stop, disk, vars
  <2> QED
    BY <2>1 DEF WriteAheadStep
<1> QED
  BY <1>1, <1>2, <1>3

\* The write-ahead rule holds at every step.
THEOREM WritesAhead == Spec => WriteAhead
<1>1. IInv /\ [Next]_vars => [WriteAheadStep]_vars
  BY StepWritesAhead
<1> QED
  BY Invariance, <1>1, PTL DEF Spec, WriteAhead

\* A PREPARED record stays as it is until it is no longer needed.
LEMMA StepKeepsPrepared ==
    ASSUME IInv, [Next]_vars
    PROVE  PreparedStep
<1> SUFFICES ASSUME NEW l \in LogId, log[l].check = "prepared"
             PROVE  \/ log'[l].check = "prepared" /\ log'[l].pages = log[l].pages
                    \/ \A t \in Enrolled : data[t] = Overlay(data[t], log[l].pages[t])
  BY DEF PreparedStep
<1>1. CASE OpenFresh \/ Rotate
  <2>1. NewLogFile /\ clock \in 0..MaxLog
    BY <1>1 DEF OpenFresh, Rotate, IInv, TypeOK
  <2>2. l # clock + 1
    BY <2>1, MaxLogAssumption DEF IInv, LogsInOrder, LogId
  <2> QED
    BY <2>1, <2>2 DEF NewLogFile, IInv, TypeOK
<1>2. CASE OpenClean
  BY <1>2 DEF OpenClean, IInv, TypeOK
<1>3. CASE BeginRecord \/ SaveTable
  <2>1. l # log_file
    BY <1>3, MaxLogAssumption DEF BeginRecord, SaveTable, IInv, NothingToRedo, LogId
  <2> QED
    BY <1>3, <2>1 DEF BeginRecord, SaveTable, IInv, TypeOK
<1>4. CASE EndPrepare
  BY <1>4 DEF EndPrepare, IInv, TypeOK, LogRecord
<1>5. CASE EndCommit \/ EndRedo
  <2>1. pc = "commit" /\ it = NT + 1 /\ log' = [log EXCEPT ![log_file] = NextRecord(@)]
    BY <1>5 DEF EndCommit, EndRedo, PastLastTable
  <2>2. CASE l # log_file
    BY <2>1, <2>2 DEF IInv, TypeOK
  <2>3. CASE l = log_file
    <3>1. \A t \in Enrolled : Holds(t) /\ t \in Table
      BY <2>1, CommitDone DEF Enrolled
    <3>2. \A t \in Enrolled : data[t] = [p \in PageSet |-> data[t][p]]
      BY <3>1 DEF IInv, TypeOK, Content
    <3> QED
      BY <2>3, <3>1, <3>2 DEF Holds, Overlay
  <2> QED
    BY <2>2, <2>3
<1>6. CASE UNCHANGED log
  BY <1>6
<1> QED
  BY <1>1, <1>2, <1>3, <1>4, <1>5, <1>6
     DEF Next, Open, OpenRedo, Write, TakeSnapshot, Prepare, KeepLogFile, Commit, MarkTable,
         SkipTable, RestorePage, RestoreMagic, Stop, disk, vars

\* A PREPARED record is neither overwritten nor finished while a table needs it.
THEOREM PreparedStaysStable == Spec => PreparedIsStable
<1>1. IInv /\ [Next]_vars => [PreparedStep]_vars
  BY StepKeepsPrepared
<1> QED
  BY Invariance, <1>1, PTL DEF Spec, PreparedIsStable

-------------------------------------------------------------------------------
(* The checkpoint protocol implements the atomic checkpoint, for every number *)
(* of tables, pages, records and log files. *)

\* Nothing to redo: a restart finds the data files as they are.
Clean == MaxLoggerId # 0 => log[MaxLoggerId].check # "prepared"

\* With no record to redo, a restart finds the data files as they are.
LEMMA RecoveredIsData == IInv /\ Clean => Recovered = data
<1> SUFFICES ASSUME IInv, Clean PROVE Recovered = data
  OBVIOUS
<1>1. ~Redoable
  BY DEF Clean, Redoable
<1>2. data = [t \in Table |-> data[t]]
  BY DEF IInv, TypeOK
<1> QED
  BY <1>1, <1>2 DEF Recovered

\* The current record decides: a restart finds its pages on the enrolled tables.
Decided == Committing /\ MaxLoggerId = log_file
Redone  == [t \in Table |-> IF t \in Enrolled THEN Overlay(data[t], log[log_file].pages[t])
                                              ELSE data[t]]

\* With a record to redo, a restart finds its pages over the data files of the
\* enrolled tables.
LEMMA RecoveredIsRedone == IInv /\ Decided => Recovered = Redone
<1> SUFFICES ASSUME IInv, Decided PROVE Recovered = Redone
  OBVIOUS
<1>1. Redoable
  BY CommitFacts DEF Decided, Redoable, IInv, CommitProgress
<1> QED
  BY <1>1 DEF Decided, Recovered, Redone

\* In a checkpoint, the saved pages over the data files make the snapshot.
SavedIsShot == \A t \in Table : Overlay(data[t], log[log_file].pages[t]) = shot[t]

\* While commit runs, what the record saves over the data files is the contents
\* at the snapshot.
LEMMA CheckpointSavesShot == IInv /\ Committing /\ ~redoing => SavedIsShot
BY DEF IInv, SnapshotIsSaved, SnapshotIsShot, Committing, SavedIsShot

\* A table that holds its saved pages is what a restart makes of it.
LEMMA HoldsIsOverlay ==
    ASSUME IInv, Committing, NEW t \in Table, Holds(t)
    PROVE  Overlay(data[t], log[log_file].pages[t]) = data[t]
<1>1. data[t] = [p \in PageSet |-> data[t][p]]
  BY DEF IInv, TypeOK, Content
<1> QED
  BY <1>1 DEF Holds, Overlay

\* An unchanged disk is recovered to the same.
LEMMA SameRecovered ==
    ASSUME UNCHANGED <<data, disk_id, log>>
    PROVE  Recovered' = Recovered /\ Enrolled' = Enrolled
BY DEF Recovered, Enrolled, Redoable, MaxLoggerId

-------------------------------------------------------------------------------

\* The collection before the process first starts is an initial state of the
\* atomic checkpoint.
LEMMA InitRefines == Init => Abstract!Init
<1> SUFFICES ASSUME Init PROVE Abstract!Init
  OBVIOUS
<1>1. IInv /\ IsDown /\ shot = data
  BY InitIInv DEF Init, IsDown
<1>2. Clean
  <2>1. \A l \in LogId : log[l].check # "prepared"
    BY DEF Init, BlankRecord
  <2> QED
    BY <1>1, <2>1, Youngest DEF IInv, LogId, Clean
<1>3. Recovered = data
  BY <1>1, <1>2, RecoveredIsData
<1> QED
  BY <1>1, <1>3 DEF Abstract!Init, IInv, TypeOK, Enrolled

\* init() without a redo is a restart.
LEMMA OpenRefines ==
    ASSUME IInv, IInv', OpenFresh \/ OpenClean
    PROVE  Abstract!Restart
<1>1. /\ pc = "down" /\ pc' = "run" /\ cache' = data
      /\ UNCHANGED <<data, disk_id, redoing, shot>>
  BY DEF OpenFresh, OpenClean, LoadTables
<1>2. Clean /\ Clean' /\ ~redoing /\ ~redoing'
  BY <1>1 DEF OpenFresh, OpenClean, Clean, IInv, NothingToRedo
<1>3. Recovered = data
  BY <1>2, RecoveredIsData
<1>4. (Recovered = data)'
  BY <1>2, RecoveredIsData, PTL
<1> QED
  BY <1>1, <1>2, <1>3, <1>4 DEF Abstract!Restart, IsDown, Enrolled

\* Before it is PREPARED a record changes nothing.
LEMMA PrepareRefines ==
    ASSUME IInv, IInv', Rotate \/ KeepLogFile \/ BeginRecord \/ SaveTable
    PROVE  UNCHANGED Abstract!vars
<1>1. /\ pc \in {"rotate", "begin", "save"} /\ pc' \in {"begin", "save"}
      /\ UNCHANGED <<data, disk_id, redoing, shot, cache>>
  BY DEF Rotate, KeepLogFile, BeginRecord, SaveTable, disk
<1>2. Clean /\ Clean' /\ ~redoing /\ ~redoing'
  BY <1>1 DEF IInv, NothingToRedo, Clean
<1>3. Recovered = data
  BY <1>2, RecoveredIsData
<1>4. (Recovered = data)'
  BY <1>2, RecoveredIsData, PTL
<1> QED
  BY <1>1, <1>2, <1>3, <1>4 DEF Abstract!vars, IsDown, Enrolled

\* The write of LCR_PREPARED installs the snapshot, unless the log file is new: then
\* the first table marked with its id does.
LEMMA EndPrepareRefines ==
    ASSUME IInv, IInv', EndPrepare
    PROVE  Abstract!Install({}) \/ UNCHANGED Abstract!vars
<1>1. /\ pc = "save" /\ pc' = "commit"
      /\ UNCHANGED <<data, disk_id, redoing, shot, cache, log_file>>
  BY DEF EndPrepare
<1>2. Clean /\ ~redoing /\ ~redoing' /\ Committing'
  BY <1>1 DEF IInv, NothingToRedo, Clean, Committing
<1>3. Recovered = data /\ Enrolled' = Enrolled
  BY <1>1, <1>2, RecoveredIsData DEF Enrolled
<1>4. CASE (MaxLoggerId = log_file)'
  <2>1. Decided'
    BY <1>2, <1>4 DEF Decided
  <2>2. (Recovered = Redone)'
    BY <2>1, RecoveredIsRedone, PTL
  <2>3. SavedIsShot'
    BY <1>2, CheckpointSavesShot, PTL
  <2>4. Recovered' = [t \in Table |-> IF t \in Enrolled' THEN shot[t] ELSE Recovered[t]]
    BY <1>1, <1>3, <2>2, <2>3 DEF Redone, SavedIsShot
  <2> QED
    BY <1>1, <1>2, <1>3, <2>4 DEF Abstract!Install, IsDown
<1>5. CASE ~(MaxLoggerId = log_file)'
  <2>1. Clean'
    BY <1>2, <1>5 DEF IInv, CommitProgress, Clean
  <2>2. (Recovered = data)'
    BY <2>1, RecoveredIsData, PTL
  <2> QED
    BY <1>1, <1>2, <1>3, <2>2 DEF Abstract!vars, IsDown
<1> QED
  BY <1>4, <1>5

\* The users' writes, the snapshot and a stop.
LEMMA UsersRefine ==
    ASSUME IInv, IInv',
           (\E t \in Table, p \in PageSet : Write(t, p)) \/ TakeSnapshot \/ Stop
    PROVE  Abstract!Next
<1>1. Recovered' = Recovered /\ Enrolled' = Enrolled
  BY SameRecovered DEF Write, TakeSnapshot, Stop, disk
<1>2. ASSUME NEW t \in Table, NEW p \in PageSet, Write(t, p)
      PROVE  Abstract!Next
  <2>1. PICK v \in Val : cache' = [cache EXCEPT ![t][p] = v]
    BY <1>2 DEF Write
  <2>2. /\ ~IsDown /\ ~IsDown' /\ UNCHANGED <<pc, shot>>
    BY <1>2 DEF Write, IsDown
  <2>3. [cache[t] EXCEPT ![p] = v] \in Content
    BY DEF IInv, TypeOK, Content
  <2>4. cache' = [cache EXCEPT ![t] = [cache[t] EXCEPT ![p] = v]]
    BY <2>1 DEF IInv, TypeOK
  <2>5. Abstract!Change(t)
    BY <1>1, <2>2, <2>3, <2>4 DEF Abstract!Change
  <2> QED
    BY <2>5 DEF Abstract!Next
<1>3. CASE TakeSnapshot
  <2>1. ~IsDown /\ ~IsDown'
    BY <1>3 DEF TakeSnapshot, IsDown, IInv, NothingToRedo
  <2>2. Abstract!Take
    BY <1>1, <1>3, <2>1 DEF Abstract!Take, TakeSnapshot
  <2> QED
    BY <2>2 DEF Abstract!Next
<1>4. CASE Stop
  <2>1. Abstract!Crash
    BY <1>1, <1>4 DEF Abstract!Crash, Stop, IsDown
  <2> QED
    BY <2>1 DEF Abstract!Next
<1> QED
  BY <1>2, <1>3, <1>4

\* Restoring a page does not change what a restart makes of a table.
LEMMA RestoreKeepsOverlay ==
    ASSUME IInv, Committing, MarkTable \/ RestorePage \/ RestoreMagic, NEW t \in Table
    PROVE  Overlay(data'[t], log[log_file].pages[t]) = Overlay(data[t], log[log_file].pages[t])
<1>1. CASE MarkTable
  BY <1>1 DEF MarkTable
<1>2. CASE RestorePage
  <2>1. PICK p \in DOMAIN Saved : data' = [data EXCEPT ![it][p] = Saved[p]]
    BY <1>2 DEF RestorePage, IInv, CommitProgress
  <2> QED
    BY <2>1 DEF Overlay, Saved, IInv, TypeOK, Content
<1>3. CASE RestoreMagic
  <2>1. Magic \in DOMAIN Saved /\ data' = [data EXCEPT ![it][Magic] = Saved[Magic]]
    BY <1>3 DEF RestoreMagic, IInv, CommitProgress
  <2> QED
    BY <2>1 DEF Overlay, Saved, IInv, TypeOK, Content
<1> QED
  BY <1>1, <1>2, <1>3

\* A redo changes nothing of what a restart finds, and serves it when it ends.
LEMMA RedoRefines ==
    ASSUME IInv, IInv',
           OpenRedo \/ (redoing /\ (MarkTable \/ RestorePage \/ RestoreMagic)) \/ SkipTable
    PROVE  UNCHANGED Abstract!vars
<1>1. IsDown /\ IsDown' /\ UNCHANGED <<shot, log>>
  BY DEF IsDown, OpenRedo, MarkTable, RestorePage, RestoreMagic, SkipTable, disk
<1>2. CASE OpenRedo \/ SkipTable
  BY <1>1, <1>2, SameRecovered DEF OpenRedo, SkipTable, disk, Abstract!vars
<1>3. CASE redoing /\ (MarkTable \/ RestorePage \/ RestoreMagic)
  <2>1. /\ redoing /\ Committing /\ redoing' /\ Committing' /\ it \in Table
        /\ log_file' = log_file /\ disk_id[it] # 0
    BY <1>3 DEF MarkTable, RestorePage, RestoreMagic, Committing, IInv, CommitProgress,
                RedoProgress
  <2>2. Decided /\ Decided'
    BY <2>1 DEF Decided, IInv, CommitProgress
  <2>3. Recovered = Redone
    BY <2>2, RecoveredIsRedone
  <2>4. (Recovered = Redone)'
    BY <2>2, RecoveredIsRedone, PTL
  <2>5. Enrolled' = Enrolled
    <3>1. disk_id' = disk_id \/ disk_id' = [disk_id EXCEPT ![it] = log_file]
      BY <1>3 DEF MarkTable, RestorePage, RestoreMagic
    <3>2. log_file # 0
      BY <2>1 DEF IInv, CommitProgress
    <3> QED
      BY <2>1, <3>1, <3>2 DEF Enrolled, IInv, TypeOK
  <2>6. Redone' = Redone
    <3>1. \A t \in Table : Overlay(data'[t], log[log_file].pages[t])
                              = Overlay(data[t], log[log_file].pages[t])
      BY <1>3, <2>1, RestoreKeepsOverlay
    <3>2. \A t \in Table \ Enrolled : data'[t] = data[t]
      BY <1>3, <2>1 DEF MarkTable, RestorePage, RestoreMagic, Enrolled, IInv, TypeOK
    <3> QED
      BY <1>1, <2>1, <2>5, <3>1, <3>2 DEF Redone
  <2> QED
    BY <1>1, <2>3, <2>4, <2>5, <2>6 DEF Abstract!vars
<1> QED
  BY <1>2, <1>3

\* A commit installs the tables that enrol with it, and changes nothing else.
LEMMA CommitRefines ==
    ASSUME IInv, IInv', ~redoing, MarkTable \/ RestorePage \/ RestoreMagic
    PROVE  (\E joining \in SUBSET Table : Abstract!Install(joining)) \/ UNCHANGED Abstract!vars
<1>1. /\ ~IsDown /\ ~IsDown' /\ ~redoing' /\ Committing /\ Committing' /\ it \in Table
      /\ UNCHANGED <<log, log_file, shot, cache>>
      /\ pc # "run" /\ pc' # "run"
      /\ disk_id' = disk_id \/ disk_id' = [disk_id EXCEPT ![it] = log_file]
  BY DEF IsDown, MarkTable, RestorePage, RestoreMagic, Committing, IInv, CommitProgress
<1>2. SavedIsShot /\ log_file # 0
  BY <1>1, CheckpointSavesShot DEF IInv, CommitProgress
<1>3. SavedIsShot'
  BY <1>1, CheckpointSavesShot, PTL
<1>4. CASE MarkTable
  <2>1. Enrolled' = Enrolled \cup {it} /\ data' = data
    BY <1>1, <1>2, <1>4 DEF MarkTable, Enrolled, IInv, TypeOK
  <2>2. (MaxLoggerId = log_file)'
    BY <1>1, <1>4 DEF MarkTable, IInv, TypeOK, CommitProgress
  <2>3. (Recovered = Redone)'
    <3>1. Decided'
      BY <1>1, <2>2 DEF Decided
    <3> QED
      BY <3>1, RecoveredIsRedone, PTL
  <2>4. \A t \in Table \ Enrolled' : Recovered[t] = data[t]
    BY <2>1 DEF Recovered
  <2>5. Recovered' = [t \in Table |-> IF t \in Enrolled' THEN shot[t] ELSE Recovered[t]]
    BY <1>1, <1>3, <2>1, <2>3, <2>4 DEF Redone, SavedIsShot
  <2>6. Abstract!Install({it})
    BY <1>1, <2>1, <2>5 DEF Abstract!Install
  <2> QED
    BY <1>1, <2>6
<1>5. CASE RestorePage \/ RestoreMagic
  <2>1. disk_id[it] = log_file /\ pc = "restore"
    BY <1>1, <1>5 DEF RestorePage, RestoreMagic, IInv, CommitProgress
  <2>2. disk_id' = disk_id
    BY <1>1, <2>1 DEF IInv, TypeOK
  <2>3. Decided
    BY <1>1, <2>1 DEF Decided, IInv, CommitProgress
  <2>4. Decided'
    BY <1>1, <2>2, <2>3 DEF Decided, MaxLoggerId
  <2>5. Recovered = Redone
    BY <2>3, RecoveredIsRedone
  <2>6. (Recovered = Redone)'
    BY <2>4, RecoveredIsRedone, PTL
  <2>7. Redone' = Redone
    <3>1. \A t \in Table : Overlay(data'[t], log[log_file].pages[t])
                              = Overlay(data[t], log[log_file].pages[t])
      BY <1>1, <1>5, RestoreKeepsOverlay
    <3>2. \A t \in Table \ Enrolled : data'[t] = data[t]
      BY <1>1, <1>2, <1>5, <2>1 DEF RestorePage, RestoreMagic, Enrolled, IInv, TypeOK
    <3> QED
      BY <1>1, <2>2, <3>1, <3>2 DEF Redone, Enrolled
  <2> QED
    BY <1>1, <2>2, <2>5, <2>6, <2>7 DEF Abstract!vars, Enrolled
<1> QED
  BY <1>4, <1>5

\* The end of a commit acknowledges, the end of a redo serves, what is installed.
LEMMA EndRefines ==
    ASSUME IInv, IInv', EndCommit \/ EndRedo
    PROVE  Abstract!Acknowledge \/ Abstract!Restart
<1>1. /\ pc = "commit" /\ pc' = "run" /\ Committing /\ it = NT + 1
      /\ UNCHANGED <<data, disk_id, shot>>
      /\ ~redoing' /\ ~IsDown'
  BY DEF EndCommit, EndRedo, PastLastTable, Committing, IsDown
<1>2. /\ \A t \in Table : ~redoing \/ disk_id[t] # 0 => Holds(t)
      /\ \A t \in Enrolled : t \in Table /\ Holds(t)
  BY <1>1, CommitDone DEF Enrolled
<1>3. (Recovered = data)'
  <2>1. Clean'
    BY <1>1 DEF IInv, NothingToRedo, Clean
  <2> QED
    BY <2>1, RecoveredIsData, PTL
<1>4. \A t \in Enrolled : Overlay(data[t], log[log_file].pages[t]) = data[t]
  BY <1>1, <1>2, HoldsIsOverlay
<1>5. Recovered = data
  <2>1. CASE MaxLoggerId = log_file
    <3>1. Recovered = Redone
      BY <1>1, <2>1, RecoveredIsRedone DEF Decided
    <3>2. data = [t \in Table |-> data[t]]
      BY DEF IInv, TypeOK
    <3> QED
      BY <1>4, <3>1, <3>2 DEF Redone
  <2>2. CASE MaxLoggerId # log_file
    BY <1>1, <2>2, RecoveredIsData DEF IInv, CommitProgress, Clean
  <2> QED
    BY <2>1, <2>2
<1>6. CASE EndCommit
  <2>1. ~redoing /\ cache' = cache /\ ~IsDown
    BY <1>6 DEF EndCommit, IsDown
  <2>2. data = shot
    <3>1. \A t \in Table : data[t] = shot[t]
      BY <1>1, <1>2, <2>1, HoldsIsOverlay, CheckpointSavesShot DEF SavedIsShot
    <3> QED
      BY <3>1 DEF IInv, TypeOK
  <2> QED
    BY <1>1, <1>3, <1>5, <2>1, <2>2 DEF Abstract!Acknowledge, Enrolled, IsDown
<1>7. CASE EndRedo
  BY <1>1, <1>3, <1>5, <1>7 DEF EndRedo, LoadTables, Abstract!Restart, Enrolled, IsDown
<1> QED
  BY <1>6, <1>7

\* The checkpoint protocol implements the atomic checkpoint.
THEOREM Refinement == Spec => ImplementsAtomicCheckpoint
<1>1. IInv /\ IInv' /\ [Next]_vars => [Abstract!Next]_(Abstract!vars)
  <2> SUFFICES ASSUME IInv, IInv', [Next]_vars
               PROVE  Abstract!Next \/ UNCHANGED Abstract!vars
    OBVIOUS
  <2>1. CASE OpenFresh \/ OpenClean
    BY <2>1, OpenRefines DEF Abstract!Next
  <2>2. CASE (\E t \in Table, p \in PageSet : Write(t, p)) \/ TakeSnapshot \/ Stop
    BY <2>2, UsersRefine
  <2>3. CASE Rotate \/ KeepLogFile \/ BeginRecord \/ SaveTable
    BY <2>3, PrepareRefines
  <2>4. CASE EndPrepare
    BY <2>4, EndPrepareRefines DEF Abstract!Next
  <2>5. CASE OpenRedo \/ (redoing /\ (MarkTable \/ RestorePage \/ RestoreMagic)) \/ SkipTable
    BY <2>5, RedoRefines
  <2>6. CASE ~redoing /\ (MarkTable \/ RestorePage \/ RestoreMagic)
    BY <2>6, CommitRefines DEF Abstract!Next
  <2>7. CASE EndCommit \/ EndRedo
    BY <2>7, EndRefines DEF Abstract!Next
  <2>8. CASE UNCHANGED vars
    <3>1. Recovered' = Recovered /\ Enrolled' = Enrolled
      BY <2>8, SameRecovered DEF vars, disk
    <3> QED
      BY <2>8, <3>1 DEF vars, disk, process, Abstract!vars, IsDown
  <2> QED
    BY <2>1, <2>2, <2>3, <2>4, <2>5, <2>6, <2>7, <2>8 DEF Next, Open, Prepare, Commit
<1> QED
  BY InitRefines, Invariance, <1>1, PTL DEF Spec, ImplementsAtomicCheckpoint, Abstract!Spec
===============================================================================
