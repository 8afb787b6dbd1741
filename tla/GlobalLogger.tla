----------------------------- MODULE GlobalLogger -----------------------------
(***************************************************************************)
(* The checkpoint protocol of the WDB engine: DBCollection and the         *)
(* GlobalLogger it writes through (znet/common/db.h).  A collection is a   *)
(* set of tables, each a data file of pages; page 0 (the magic page)       *)
(* carries the id of the log file the table was last checkpointed with.    *)
(* A checkpoint copies every table's dirty pages to the current log file,  *)
(* marks the log record PREPARED, copies the pages from the log to the     *)
(* data files, and marks the record COMMIT.  The process may stop between  *)
(* any two writes; init() repairs what it finds.                           *)
(*                                                                         *)
(* Abstractions.  A page's contents are a member of Val.  Only the record  *)
(* a log file will use next (logger_item(logger_rec_cur())) is kept: older *)
(* ones serve point-in-time restore, as does logger_chain.  The pages a    *)
(* record lists are kept with the record, not at addresses of the log      *)
(* file: a record that is read always lists pages written after the last   *)
(* committed one.  An fsync barrier orders writes; writes reach the disk   *)
(* in the order in which they are made.                                    *)
(***************************************************************************)
EXTENDS Naturals, FiniteSets

CONSTANTS NT,       \* number of tables, in the order of their names
          Page,     \* the pages of a table other than page 0
          Magic,    \* page 0
          Val,      \* contents of a page
          RecMax,   \* logger_rec_max: records in a log file
          MaxLog    \* bound: log files ever created

ASSUME NTAssumption     == NT \in Nat
ASSUME MagicAssumption  == Magic \notin Page
ASSUME RecMaxAssumption == RecMax \in Nat \ {0}
ASSUME MaxLogAssumption == MaxLog \in Nat

Table   == 1..NT
PageSet == Page \cup {Magic}
Content == [PageSet -> Val]
Patch   == UNION {[S -> Val] : S \in SUBSET PageSet}
LogId   == 1..MaxLog

VARIABLES
    \* the disk
    data,         \* data[t]: contents of the pages of t's data file
    disk_id,      \* disk_id[t]: logger_id in page 0 of t's data file, 0 if none
    log,          \* log[l]: the current record of log file l
    clock,        \* id of the youngest log file: ids are creation times
    \* the process
    pc,           \* what the process is doing
    redoing,      \* the commit in progress is init()'s redo
    cache,        \* cache[t]: contents of table t as its users see it
    dirty,        \* dirty[t]: pages changed since the last snapshot
    snapshot,     \* snapshot[t]: the pages the checkpoint saves
    logger_id,    \* logger_id[t]: the id in the cached page 0 of t
    log_file,     \* id of the open log file, 0 if none
    need_rotate,
    it,           \* the table prepare, commit and redo have reached
    todo,         \* pages that restore_page has yet to write
    \* history
    shot          \* the contents of every table at the last snapshot

disk     == <<data, disk_id, log, clock>>
process  == <<pc, redoing, cache, dirty, snapshot, logger_id, log_file,
              need_rotate, it, todo>>
vars     == <<disk, process, shot>>

-------------------------------------------------------------------------------
(***************************************************************************)
(* Helpers.                                                                *)
(***************************************************************************)

NoPatch == [p \in {} |-> Magic]

\* Contents c with the pages of patch written over it.
Overlay(c, patch) == [p \in PageSet |-> IF p \in DOMAIN patch THEN patch[p] ELSE c[p]]

\* A zeroed record: LCR_NULL, logger_first_idx 0.  The key page of a log file has
\* RecMax records: from there on logger_rec_cur is the number of none.
BlankRecord(cur, tables) ==
    [cur |-> cur, check |-> IF cur < RecMax THEN "null" ELSE "none", first |-> FALSE,
     tables |-> tables, pages |-> [t \in Table |-> NoPatch]]

LogRecord ==
    [cur : 0..(RecMax + 1), check : {"null", "prepared", "none"}, first : BOOLEAN,
     tables : SUBSET Table, pages : [Table -> Patch]]

\* LCR_COMMIT or LCR_ABORT is written to the current record and the next one, if
\* there is one, becomes current.
NextRecord(r) == BlankRecord(r.cur + 1, r.tables)

Enrolled == {t \in Table : disk_id[t] # 0}

\* The greatest of the ids in f, 0 if there is no table.
MutGreatest(f) == CHOOSE m \in {f[t] : t \in Table} \cup {0} :
                     \A t \in Table : f[t] = 0 \/ (m # 0 /\ m <= f[t])
Greatest(f) == CHOOSE m \in {f[t] : t \in Table} \cup {0} : \A t \in Table : f[t] <= m

\* The loop of integrity_verify over the tables' log ids.
MaxLoggerId == Greatest(disk_id)

\* What init() would leave in the data files if the process stopped now: redo
\* writes the saved pages of the enrolled tables, if the youngest log file any
\* table knows has a PREPARED record.
Redoable  == MaxLoggerId # 0 /\ log[MaxLoggerId].check = "prepared"
Recovered == [t \in Table |-> IF Redoable /\ t \in Enrolled
                              THEN Overlay(data[t], log[MaxLoggerId].pages[t])
                              ELSE data[t]]

\* Opening the data files: PageCache's constructor reads page 0 and marks it
\* dirty; other pages are read when they are used.
LoadTables ==
    /\ cache' = data
    /\ dirty' = [t \in Table |-> {Magic}]
    /\ snapshot' = [t \in Table |-> NoPatch]

\* init_log_file: a new log file that knows every table.
NewLogFile ==
    /\ clock < MaxLog
    /\ clock' = clock + 1
    /\ log' = [log EXCEPT ![clock'] = BlankRecord(0, Table)]
    /\ log_file' = clock'

\* The open log file has a record left.
MutHasRecord == log[log_file].cur <= RecMax
MutNotAtEnd == log[log_file].cur # RecMax
HasRecord == log[log_file].cur < RecMax

\* A loop over the tables has passed the last one.
MutPastLastTable == it = NT
MutNeverPastLastTable == it = NT + 2
PastLastTable == it = NT + 1

-------------------------------------------------------------------------------
(***************************************************************************)
(* The collection before the process first starts: any subset of the       *)
(* tables is new (logger_id 0); the others were checkpointed with log      *)
(* file 1, whose last record was committed.                                *)
(***************************************************************************)
Init ==
    /\ data \in [Table -> Content]
    /\ \E old \in SUBSET Table, cur \in 0..RecMax :
          /\ disk_id = [t \in Table |-> IF t \in old THEN 1 ELSE 0]
          /\ log = [l \in LogId |->
                      IF l = 1 THEN BlankRecord(cur, old) ELSE BlankRecord(0, {})]
          /\ clock = IF old = {} THEN 0 ELSE 1
          /\ clock <= MaxLog
    /\ pc = "down"
    /\ redoing = FALSE
    /\ cache = data
    /\ dirty = [t \in Table |-> {}]
    /\ snapshot = [t \in Table |-> NoPatch]
    /\ logger_id = [t \in Table |-> 0]
    /\ log_file = 0
    /\ need_rotate = FALSE
    /\ it = 1
    /\ todo = {}
    /\ shot = data

-------------------------------------------------------------------------------
(***************************************************************************)
(* DBCollection::init: load() and GlobalLogger::integrity_verify.          *)
(***************************************************************************)

\* No table has a log id: a first log file is created.
OpenFresh ==
    /\ pc = "down"
    /\ MaxLoggerId = 0
    /\ LoadTables
    /\ NewLogFile
    /\ logger_id' = disk_id
    /\ need_rotate' = FALSE
    /\ pc' = "run"
    /\ UNCHANGED <<data, disk_id, redoing, it, todo, shot>>

MutVerifyIds ==
    /\ logger_id' = [t \in Table |-> IF disk_id[t] = 0 THEN 0 ELSE MaxLoggerId]
    /\ need_rotate' = FALSE
    /\ log_file' = MaxLoggerId

\* Tables that missed a rotation are taken to the youngest log file.
VerifyIds ==
    /\ logger_id' = [t \in Table |-> IF disk_id[t] = 0 THEN 0 ELSE MaxLoggerId]
    /\ need_rotate' = (\E t \in Table : disk_id[t] = 0)
    /\ log_file' = MaxLoggerId

\* What integrity_verify takes for a record that was begun.  It does not ask whether
\* there is a current record.  When the last one is done, logger_item(logger_rec_cur())
\* lies just behind the key page, where PageMemory put page 0 of the first table:
\* check_result is the upper half of its logger_last_check, which is 0, and
\* logger_first_idx its free_page_list, of which the model knows nothing.  (Where a
\* time_t has 32 bits, or the name of a table is long, nothing is found.)  One item
\* further there are its logger_serial and logger_first_idx, both 0 in a collection.
SeemsBegun(r) == IF r.cur = RecMax THEN BOOLEAN ELSE {r.first}

\* The current record is not PREPARED.  One that seems begun is aborted: behind the
\* key page LCR_ABORT goes to the logger_last_check in memory, which is no part of a
\* page's contents here; the next commit sets it.
OpenClean ==
    /\ pc = "down"
    /\ MaxLoggerId # 0
    /\ log[MaxLoggerId].check # "prepared"
    /\ LoadTables
    /\ VerifyIds
    /\ \E begun \in SeemsBegun(log[MaxLoggerId]) :
          log' = IF begun THEN [log EXCEPT ![MaxLoggerId] = NextRecord(@)] ELSE log
    /\ pc' = "run"
    /\ UNCHANGED <<data, disk_id, clock, redoing, it, todo, shot>>

\* The current record is PREPARED: REDO.
OpenRedo ==
    /\ pc = "down"
    /\ MaxLoggerId # 0
    /\ log[MaxLoggerId].check = "prepared"
    /\ LoadTables
    /\ VerifyIds
    /\ pc' = "commit"
    /\ redoing' = TRUE
    /\ it' = 1
    /\ UNCHANGED <<data, disk_id, log, clock, todo, shot>>

-------------------------------------------------------------------------------
(***************************************************************************)
(* The tables' users, and the snapshot of a checkpoint.                    *)
(***************************************************************************)

\* A user changes page p of table t (Wload marks it dirty).
Write(t, p) ==
    /\ pc # "down" /\ ~redoing
    /\ \E v \in Val : cache' = [cache EXCEPT ![t][p] = v]
    /\ dirty' = [dirty EXCEPT ![t] = @ \cup {p}]
    /\ UNCHANGED <<disk, pc, redoing, snapshot, logger_id, log_file, need_rotate,
                   it, todo, shot>>

MutSnapshotPages(t) == IF dirty[t] \subseteq {Magic} THEN {} ELSE dirty[t] \cup {Magic}

\* PageHash::snapshot_create: the dirty pages, and page 0 with them.
SnapshotPages(t) == IF dirty[t] = {} THEN {} ELSE dirty[t] \cup {Magic}

\* snapshot_create on every table; StorageEnv::checkpoint holds all the tables'
\* locks when the first is taken.
TakeSnapshot ==
    /\ pc = "run"
    /\ snapshot' = [t \in Table |-> [p \in SnapshotPages(t) |-> cache[t][p]]]
    /\ dirty' = [t \in Table |-> {}]
    /\ shot' = cache
    /\ pc' = "rotate"
    /\ UNCHANGED <<disk, redoing, cache, logger_id, log_file, need_rotate, it, todo>>

-------------------------------------------------------------------------------
(***************************************************************************)
(* GlobalLogger::prepare.                                                  *)
(***************************************************************************)

\* logger_check_rotate opens a new log file: it must when need_rotate is set or
\* the file has no record left, it may when the file has grown too long, and
\* after a redo it does if the key page that was never read says so.
Rotate ==
    /\ pc = "rotate"
    /\ NewLogFile
    /\ pc' = "begin"
    /\ UNCHANGED <<data, disk_id, redoing, cache, dirty, snapshot, logger_id,
                   need_rotate, it, todo, shot>>

\* logger_check_rotate keeps the open file.
KeepLogFile ==
    /\ pc = "rotate"
    /\ log_file # 0
    /\ ~need_rotate
    /\ HasRecord
    /\ pc' = "begin"
    /\ UNCHANGED <<disk, redoing, cache, dirty, snapshot, logger_id, log_file,
                   need_rotate, it, todo, shot>>

\* The record's logger_first_idx is written before its pages.
BeginRecord ==
    /\ pc = "begin"
    /\ log' = [log EXCEPT ![log_file].first = TRUE]
    /\ it' = 1
    /\ pc' = "save"
    /\ UNCHANGED <<data, disk_id, clock, redoing, cache, dirty, snapshot, logger_id,
                   log_file, need_rotate, todo, shot>>

\* LogInfo::prepare: table it's pages, then its key page.
SaveTable ==
    /\ pc = "save"
    /\ it \in Table
    /\ log' = [log EXCEPT ![log_file].pages[it] = snapshot[it]]
    /\ it' = it + 1
    /\ UNCHANGED <<data, disk_id, clock, pc, redoing, cache, dirty, snapshot,
                   logger_id, log_file, need_rotate, todo, shot>>

\* The record is LCR_PREPARED.
EndPrepare ==
    /\ pc = "save"
    /\ PastLastTable
    /\ log' = [log EXCEPT ![log_file].check = "prepared"]
    /\ pc' = "commit"
    /\ it' = 1
    /\ UNCHANGED <<data, disk_id, clock, redoing, cache, dirty, snapshot, logger_id,
                   log_file, need_rotate, todo, shot>>

-------------------------------------------------------------------------------
(***************************************************************************)
(* GlobalLogger::commit and redo: LogInfo::commit table by table.          *)
(***************************************************************************)

\* The pages of table it in the current record.
Saved == log[log_file].pages[it]

\* The pages restore_page is called for: all but the saved page 0.
MutToRestore == {}
ToRestore == DOMAIN Saved \ {Magic}

\* Page 0 is written with the log file's id and the contents it has.  A table
\* with no saved page is done.
MarkTable ==
    /\ pc = "commit"
    /\ it \in Table
    /\ redoing => logger_id[it] # 0
    /\ logger_id' = [logger_id EXCEPT ![it] = log_file]
    /\ disk_id' = [disk_id EXCEPT ![it] = log_file]
    /\ IF DOMAIN Saved = {}
       THEN it' = it + 1 /\ UNCHANGED <<pc, todo>>
       ELSE pc' = "restore" /\ todo' = ToRestore /\ UNCHANGED it
    /\ UNCHANGED <<data, log, clock, redoing, cache, dirty, snapshot, log_file,
                   need_rotate, shot>>

\* redo passes over a table that has no log id.
SkipTable ==
    /\ pc = "commit"
    /\ redoing
    /\ it \in Table
    /\ logger_id[it] = 0
    /\ it' = it + 1
    /\ UNCHANGED <<disk, pc, redoing, cache, dirty, snapshot, logger_id, log_file,
                   need_rotate, todo, shot>>

\* restore_page copies one page from the log to the data file.
RestorePage ==
    /\ pc = "restore"
    /\ \E p \in todo :
          /\ data' = [data EXCEPT ![it][p] = Saved[p]]
          /\ todo' = todo \ {p}
    /\ UNCHANGED <<disk_id, log, clock, pc, redoing, cache, dirty, snapshot, logger_id,
                   log_file, need_rotate, it, shot>>

\* The saved page 0 is written last.
RestoreMagic ==
    /\ pc = "restore"
    /\ todo = {}
    /\ data' = [data EXCEPT ![it][Magic] = Saved[Magic]]
    /\ disk_id' = [disk_id EXCEPT ![it] = log_file]
    /\ pc' = "commit"
    /\ it' = it + 1
    /\ UNCHANGED <<log, clock, redoing, cache, dirty, snapshot, logger_id, log_file,
                   need_rotate, todo, shot>>

\* The record is LCR_COMMIT; checkpoint() releases the snapshot and returns true.
EndCommit ==
    /\ pc = "commit" /\ ~redoing
    /\ PastLastTable
    /\ log' = [log EXCEPT ![log_file] = NextRecord(@)]
    /\ snapshot' = [t \in Table |-> NoPatch]
    /\ pc' = "run"
    /\ UNCHANGED <<data, disk_id, clock, redoing, cache, dirty, logger_id, log_file,
                   need_rotate, it, todo, shot>>

\* The record is LCR_COMMIT; init() closes and opens everything again, with a
\* logger that has no log file open, and returns.
EndRedo ==
    /\ pc = "commit" /\ redoing
    /\ PastLastTable
    /\ log' = [log EXCEPT ![log_file] = NextRecord(@)]
    /\ LoadTables
    /\ logger_id' = disk_id
    /\ log_file' = 0
    /\ need_rotate' = FALSE
    /\ redoing' = FALSE
    /\ pc' = "run"
    /\ UNCHANGED <<data, disk_id, clock, it, todo, shot>>

-------------------------------------------------------------------------------
(***************************************************************************)
(* The process stops: it crashes, it is killed (BackupThread's quit file), *)
(* it closes the collection, or after a redo it finds no log file to write *)
(* to.                                                                     *)
(***************************************************************************)
Stop ==
    /\ pc # "down"
    /\ pc' = "down"
    /\ redoing' = FALSE
    /\ cache' = data
    /\ dirty' = [t \in Table |-> {}]
    /\ snapshot' = [t \in Table |-> NoPatch]
    /\ logger_id' = [t \in Table |-> 0]
    /\ log_file' = 0
    /\ need_rotate' = FALSE
    /\ it' = 1
    /\ todo' = {}
    /\ shot' = Recovered
    /\ UNCHANGED disk

Open       == OpenFresh \/ OpenClean \/ OpenRedo
Prepare    == Rotate \/ KeepLogFile \/ BeginRecord \/ SaveTable \/ EndPrepare
Commit     == MarkTable \/ SkipTable \/ RestorePage \/ RestoreMagic \/ EndCommit \/ EndRedo

Next ==
    \/ Open
    \/ \E t \in Table, p \in PageSet : Write(t, p)
    \/ TakeSnapshot
    \/ Prepare
    \/ Commit
    \/ Stop

Spec == Init /\ [][Next]_vars

-------------------------------------------------------------------------------
(***************************************************************************)
(* Properties.                                                             *)
(***************************************************************************)

TypeOK ==
    /\ data \in [Table -> Content]
    /\ disk_id \in [Table -> 0..MaxLog]
    /\ log \in [LogId -> LogRecord]
    /\ clock \in 0..MaxLog
    /\ pc \in {"down", "run", "rotate", "begin", "save", "commit", "restore"}
    /\ redoing \in BOOLEAN
    /\ cache \in [Table -> Content]
    /\ dirty \in [Table -> SUBSET PageSet]
    /\ snapshot \in [Table -> Patch]
    /\ logger_id \in [Table -> 0..MaxLog]
    /\ log_file \in 0..MaxLog
    /\ need_rotate \in BOOLEAN
    /\ it \in 1..(NT + 1)
    /\ todo \in SUBSET PageSet
    /\ shot \in [Table -> Content]

\* The checkpoint protocol implements the atomic checkpoint: what a restart would
\* find changes at one write, on all enrolled tables together; checkpoint()
\* returns true only when a restart would find the snapshot; recovery, stopped
\* and begun again any number of times, changes nothing of it and serves it.
IsDown == pc = "down" \/ redoing
Abstract == INSTANCE AtomicCheckpoint
            WITH mem      <- IF IsDown THEN Recovered ELSE cache,
                 stable   <- Recovered,
                 enrolled <- Enrolled,
                 state    <- IF IsDown THEN "down"
                             ELSE IF pc = "run" THEN "up" ELSE "taken"
ImplementsAtomicCheckpoint == Abstract!Spec

\* A page that is neither dirty nor in the snapshot is on disk as its users see
\* it: the cache may drop it and read it again.
CleanPagesOnDisk ==
    (pc # "down" /\ ~redoing) =>
        \A t \in Table, p \in PageSet :
            p \notin dirty[t] \cup DOMAIN snapshot[t] => cache[t][p] = data[t][p]

\* The write-ahead rule: a data file's pages change only while every table's
\* saved pages are on disk in a PREPARED record, one page at a time, and only to
\* what they say there.  Page 0 never names a log file that does not know the table.
WriteAheadStep ==
    \A t \in Table :
       /\ data'[t] # data[t] =>
            /\ log[log_file].check = "prepared"
            /\ disk_id[t] = log_file
            /\ \E p \in DOMAIN log[log_file].pages[t] :
                  data'[t] = [data[t] EXCEPT ![p] = log[log_file].pages[t][p]]
       /\ disk_id'[t] # disk_id[t] => t \in log[disk_id'[t]].tables
WriteAhead == [][WriteAheadStep]_vars

\* Tables that disagree on their log file do so because a rotation's first commit
\* was cut short: the youngest log file is the one integrity_verify must redo, and
\* it knows every table that has a log id.
YoungestLogDecides ==
    /\ \A t \in Enrolled : disk_id[t] # MaxLoggerId =>
          log[MaxLoggerId].check = "prepared"
    /\ \A t \in Enrolled : t \in log[MaxLoggerId].tables

\* prepare begins no record behind the key page, however far integrity_verify has
\* moved logger_rec_cur, so commit and redo find none there.
RecordInPage ==
    /\ \A l \in LogId : log[l].first \/ log[l].check = "prepared" => log[l].cur < RecMax
    /\ pc \in {"begin", "save", "commit", "restore"} =>
          log_file # 0 /\ log[log_file].cur < RecMax

\* No page of a record is overwritten once tables may depend on it: the saved
\* pages of a PREPARED record do not change, and a record leaves PREPARED only
\* when every table that takes part holds its pages.
PreparedStep ==
    \A l \in LogId : log[l].check = "prepared" =>
       \/ log'[l].check = "prepared" /\ log'[l].pages = log[l].pages
       \/ \A t \in Enrolled : data[t] = Overlay(data[t], log[l].pages[t])
PreparedIsStable == [][PreparedStep]_vars

\* Fairness: the process takes its next step of a checkpoint or of recovery.
\* BackupThread is one thread that blocks on nothing but the disk; nothing obliges
\* the process to start, its users to write, or a checkpoint to begin.
Fairness == WF_vars(Prepare) /\ WF_vars(Commit)
FairSpec == Spec /\ Fairness

\* A checkpoint that has its log file ends, and so does a redo, which is a commit
\* to begin with (or the process stops).
CheckpointEnds == pc \in {"begin", "save", "commit", "restore"} ~> pc \in {"run", "down"}
===============================================================================
