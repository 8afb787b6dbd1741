# A verification of the storage engine, the role names and the trades

The repository holds the server side of an online role-playing game: a game
server (`zgame/`) and the daemons around it (`znet/`).  Everything a player owns
goes through one storage engine, WDB: `znet/common/db.h` (tables, pages, log
files, checkpoints) and `znet/storage/storagewdb.h` (transactions over tables,
the checkpoint thread).  `gamedbd` and `uniquenamed` are built on it.  Above them
run protocols that span several processes: two of these, the one that keeps role
names unique and the trade between two players, are where an order of messages or
a timeout can lose what a player owns.  This directory models the engine and the two
protocols in TLA+, checks them with TLC and proves their main properties with TLAPS.

## Inventory

| component | state | operations | interacts with | hard part | what makes it correct |
|---|---|---|---|---|---|
| checkpoint of a collection (`DBCollection`, `GlobalLogger`, db.h 1805-2198, 2822-3000) | data files, log files with records (`LCR_*`), log id in page 0 of each table | `init`, `snapshot_create`, `prepare`, `commit`, `redo`, rotation | called by `StorageEnv::checkpoint`; reads the page cache | crash between any two writes, again during recovery; tables on different log files | all tables or none; recovery is repeatable; what was acknowledged is found |
| transactions (`StorageEnv`, storagewdb.h) | per storage: lock, `prepared`, `new_key`; per thread: `storage_vec`, `locked`, `cancel`, `refcnt` | `GetStorage`, `Transaction`, `insert`, `find`, `del`, `abort`, `~Transaction`, `checkpoint` | request handlers of the daemons; `DBCollection` | lock order, abort, nested transactions, snapshot of many storages | atomic, isolated, no deadlock, consistent snapshot |
| B-tree index (`Page`, `DB`, db.h 450-962, 1507-1628) | index pages with their slots and their link to the parent, root, free list | `put`, `del`, `find`, `walk`, `next_key` | `Storage` above, page cache below | splits, merges and borrowed keys that cascade; parent positions | behaves as a sorted set of keys; no page lost; every change is marked dirty |
| page cache (`PageHash`, `PageCache`, db.h 965-1262) | cached pages (clean, dirty, in the snapshot), order of use | `Rload`, `Wload`, `cleanup`, `snapshot_create`, `snapshot_release` | B-tree and fragments above, page files and checkpoints below | eviction during a checkpoint or a walk, the counter of uses wraps | readers see what was last written; no page in use is dropped |
| data records and fragments (db.h 1263-1520, 2477-2622) | blocks of the data pages, lists of free fragments by size, chains of slices | `create_node`, `put_replace`, `free_data`, `extract_val`, browsing of a damaged table | B-tree, page cache | splitting and joining neighbours, values replaced where they lie | a record is found as it was put; no overlap, no leak; the data pages alone tell the records |
| standalone tables (`PageLogger`, `DBStandalone`, db.h 1707-1803, 2770-2820) | data file and its one log file | `checkpoint`, `redo`, `truncate` | tools, log servers | crashes | as the collection, for one table |
| point-in-time restore (`restore`, `check_version`, `read_magic`, db.h 2134-2189) | chain of log files | `restore`, `version` | tools | broken chain | each restored version is a checkpoint |
| unique names (`uniquenamed`, `gdeliveryd`, `gamedbd`) | name tables, engaged names, roles | `PreCreateRole`, `DBCreateRole`, `PostCreateRole`, deletions | three processes over RPC | late and lost answers, retries | a name has at most one role; no name is engaged for ever |
| player trade (`gdeliveryd/trade.*`) | sessions, offered goods | start, add, submit, confirm, discard | two clients, game servers, `gamedbd` | concurrent change and confirmation, disconnects | what both confirmed is exchanged, once |
| login (`gdeliveryd/playerlogin*`, `glinkd`) | user and role status | login, logout, kick, switch | game servers, links | races of two logins | one session per role |
| auction, stock exchange, consignment (`gdeliveryd`) | cached lists | post, bid, buy, cancel, timeout | `gamedbd` | cache against database | no good and no coin is lost or doubled |
| protocol and RPC library (`znet/io`) | sessions, pending calls | send, call, timeout | all daemons | a timeout racing an answer | one outcome per call |
| thread pool, timers, mutexes (`znet/common`) | queues | add task, run | all daemons | priorities | tasks are run |
| game server (`zgame/gs`) | the world | game rules | `gdeliveryd`, `gamedbd` | size | - |
| `gauthd`, `gacd`, `ggated`, log services, generated code | - | forwarding, logging | - | - | - |

`PROJECT.json` lists the same components with their files, and every hazard with
the line where it bites.

## Modules

| module | what it is |
|---|---|
| `AtomicCheckpoint` | abstract: what a collection promises: contents a restart finds change by installing one snapshot on every enrolled table at once |
| `GlobalLogger` | detailed: `DBCollection::init`, the checkpoint, and a stop between any two writes |
| `MCGlobalLogger` | TLC instance of `GlobalLogger`, with the bound on late writes |
| `DiskErrors` | `GlobalLogger` with failing writes |
| `GlobalLoggerProofs` | the inductive invariant and the safety theorems of `GlobalLogger`, and that it implements `AtomicCheckpoint` |
| `SerialStore` | abstract: transactions that run alone and end in one step, and a checkpoint of the committed contents |
| `StorageTxn` | detailed: `ThreadContext`, `Transaction`, `Storage`, `StorageEnv::checkpoint` |
| `MCStorageTxn` | TLC instance of `StorageTxn` |
| `EarlyReturn` | `StorageTxn` with the handler that returns before it opens its transaction |
| `StorageTxnProofs` | the inductive invariant and the safety theorems of `StorageTxn` and of `EarlyReturn`, and that `StorageTxn` implements `SerialStore` |
| `KeySet` | abstract: the index of a table as a set of keys |
| `BTree` | detailed: the B-tree, its pages, links and free list |
| `BTreeWalk` | `BTree` with walks over the index, slot by slot |
| `MCBTree`, `MCBTreeWalk`, `MCBTreeSweeps` | what states TLC takes as one (`VIEW`); the TLC instance of `BTreeWalk`: all sequences of operations and all walks, on small pages; the one of `BTreeSweeps` |
| `BTreeSweeps` | `BTree` with a record of what it was asked to hold: sweeps on wide pages |
| `BTreeProofs` | the inductive invariant and the theorems of `BTree`, and that it implements `KeySet` |
| `BTreeWalkProofs` | what is known of a walk, and the theorems about walks and sweeps |
| `Fragments` | the records of a table: blocks, lists of fragments, chains of slices |
| `MCFragments` | TLC instance of `Fragments`, with its lengths and its `VIEW` |
| `FragmentsProofs` | the inductive invariant and the theorems of `Fragments` |
| `PageCache` | the page cache with walks and checkpoints |
| `MCPageCache` | TLC instance of `PageCache` |
| `PageCacheProofs` | the inductive invariant and the theorems of `PageCache` |
| `UniqueNames` | creation, deletion and renaming of roles over `gdeliveryd`, `gamedbd` and `uniquenamed` |
| `MCUniqueNames` | TLC instance of `UniqueNames`, with its symmetry |
| `UniqueNamesProofs` | the inductive invariant and the theorems of `UniqueNames` |
| `Trade` | a trade over `gdeliveryd`, the game server and `gamedbd` |
| `MCTrade` | TLC instance of `Trade`, with a bound on doubtful behaviours |
| `TradeProofs` | the theorems of `Trade`: types, calls that are awaited, the agreed deal; the locks of the inventories; the goods |

How they fit together: `SerialStore` is what a handler may rely on, `StorageTxn`
implements it over tables that are maps; `BTree` shows that a table's index is such a
map's set of keys, and `Fragments` that the block an index slot leads to is the start of
the value that was put; `PageCache` shows that the pages of both, which are sometimes in
memory and sometimes on disk, are as they were last written; and `GlobalLogger`, which
treats a table as pages, that checkpoints of these pages survive crashes.
`ChangesAreDirty` of `BTree` is what `PageCache` assumes of its users (a page is changed
only by `Wload`), and `CleanPagesOnDisk` of `GlobalLogger` is what `PageCache` assumes of
a commit (`Commit` is one step there).
`UniqueNames` and `Trade` stand on `SerialStore`: a handler of `gamedbd` or
`uniquenamed` is one step there, because `StorageTxn` shows that handlers behave as if
they ran alone.  A crash of a storage process is not part of them; what a restart
finds is `GlobalLogger`'s subject.

### GlobalLogger and the code

The disk is `data` (data files), `disk_id` (`logger_id` of page 0), `log` (the
record each log file uses next: `logger_rec_cur`, `check_result`,
`logger_first_idx`, saved pages, tables known) and `clock` (log files are named
by the time of their creation; only their order matters).  The process is `pc`,
the cached pages, the dirty set, the snapshot, `logger_id`, `log_file` and
`need_rotate`.  `shot` is a history variable: the contents at the last snapshot.

Each action is one stretch of code that ends with a write that matters for
recovery: `OpenFresh`, `OpenClean`, `OpenRedo` are `init()` with the three
outcomes of `integrity_verify`; `TakeSnapshot` is `snapshot_create` on every
table; `Rotate`, `KeepLogFile`, `BeginRecord`, `SaveTable`, `EndPrepare` are
`prepare`; `MarkTable`, `RestorePage`, `RestoreMagic`, `EndCommit` are `commit`
and, with `SkipTable` and `EndRedo`, `redo`.  `Stop` is a crash, a kill or a
close, between any two of them.  `RestorePage` takes the pages in any order.

What is abstracted: a page's contents are one value; pages of a record are kept
with the record and not at addresses; only the current record of a log file is
kept, because older ones serve only `restore()`.  Writes reach the disk in the
order in which they are made: the code syncs where the order matters except in
two places, which the hazards name (the record's pages and its `LCR_PREPARED` flag
share one sync; the chain link of an old log file has none).

The end of the key page.  When the last record of a log file is committed or aborted,
`logger_rec_cur` is `logger_rec_max`, and a restart before the next checkpoint reads
`logger_item(logger_rec_max)` all the same (db.h 2036).  The items fill the page to its last
byte: 32 + 254 * 16, or 36 + 203 * 20 where `time_t` has 64 bits.  So it reads the next page of
memory, which `PageMemory` hands out in ascending order in a new process: page 0 of the first
table that `load()` opens.  With 64 bits `check_result` falls on the upper half of
`logger_last_check`, which is 0, and `logger_first_idx` on `free_page_list`.  If there are free
pages, `integrity_verify` writes `LCR_ABORT` into that page and `logger_rec_cur` becomes
`logger_rec_max + 1`; on a later restart the item after that falls on fields that are 0 in a
collection.  With 32 bits `check_result` falls on `logger_last_check` itself, and nothing is
done unless that is 0; if the names of the tables are long there are fewer records than
would fill the page, and the item is blank.  `SeemsBegun` is therefore a free choice at
`cur = RecMax` and nowhere else, and a record has the value `none` in `check` from there on.
The value that is overwritten is not part of a page's contents in the model: the
next `LogInfo::commit` sets it, and it is read by `restore`, `version` and
`read_magic` only, which are not modelled.  `RecordInPage` says that no record is written
there: `logger_check_rotate` compares with `>=`, so one too many does no harm.

After a redo, `init()` loads the tables with a new logger that never verified
anything: it has no log file, and its key page is uninitialised memory.  The model
lets the next checkpoint rotate or the process stop, which are the outcomes.

### StorageTxn and the code

`db`, `prepared`, `new_key` and `locker` are the members of `Storage`;
`storage_vec` (how many entries a thread has for each storage), `locked`, `cancel`
and `refcnt` those of `ThreadContext`.  `asked` is the set of pointers the running
handler got from `GetStorage`.  `prepared[s][k] = NoVal` says that the key is not
in the map.  A mutex is of type `PTHREAD_MUTEX_ERRORCHECK` and its results are
ignored: locking one's own mutex or unlocking another one's does nothing
(`LockReturns`, `Unlocked`).

An operation on a locked storage is one step; locking, unlocking and
`StorageEnv::checkpoint` go one storage at a time.  Handlers are arbitrary: any
number of operations in any order, an abort anywhere, exceptions of
`insert(NOOVERWRITE)` and `find` (`Throw`), nested `Transaction`s.  Three habits of
the handlers are assumed, because all of them have them: a handler asks for each
storage once, before its first operation; after an abort that precedes its first
operation it does nothing more; it does not insert with `NOOVERWRITE` a key that it
deleted in the same transaction.  `EarlyReturn` adds the one handler that departs
from the usual order, `PutRole`.  The initial value of `cancel` is arbitrary: the
constructor leaves it uninitialised.

`Save` stands for `checkpoint_prepare` and `checkpoint_commit`, which
`GlobalLogger` models.  The two modules meet in the snapshot: `TakeSnapshot` is
atomic in `GlobalLogger` because `StorageTxn` shows that the snapshots of all
storages are those of one moment (`ImplementsSerialStore`, the part of `image`).

### BTree and the code

`l_pos`, `r_pos`, `key`, `kid`, `parent_index` and `parent_pos` are the fields of the index
pages: keys at `l_pos` to `r_pos - 1`, links (`child_index`) at `l_pos` to `r_pos`, which are
0 in a leaf.  `root`, `max` and `free` are `root_index_idx`, `max_page_idx` and the list from
`free_page_list` of the magic page; `dirty` are the pages marked since the operation began.

In the code `split`, `insert_internal`, `merge_sibling` and the `shrink` functions call each
other from page to page, each call the last thing its caller does.  In the model a call
is a step and `job` is the call to be made, so that nothing recurses: `FindKey`
is a round of the loop of `find_key`; `InsertInitNode` and `InsertLeaf`,
`AllocRootIndexPage`, `Split` and `InsertInternal` are an insertion; `RemoveLeaf`, or
`FindRightMost`, `GoRightMost` and `RemoveInternal`, and then `RShrink` and `LShrink` with
`BorrowRight`, `BorrowLeft` and `MergeSibling` are a removal.  `r_shrink_leaf` is
`r_shrink_internal` for a page whose links are 0, and so for the left.  `NothingToDo` is
a `put` that finds the key or a `del` that does not.  A storage is locked around an
operation: `Put` and `Del` begin one only when `job` is `Idle`.

`BTreeWalk` adds the walks.  `walk` is the slot (`At`) or the page where a walk is, and a
step is a round of a loop: `WalkAll` and `WalkFrom` are the two `walk` functions,
`GreatEqualKey` and `LeftMost` the loops of `great_equal_key` (which is `find_key`) and
`left_most`, `Deliver` a round of the loop of `walk` with the branches of `next` that stay
in the page or go down (`GoOn`), and `Climb` the loop of `next` along the parent links.  The
query that gets the records may end the walk after any of them.  A walk holds the
storage's lock, so no operation begins before it is over.  `passed` and `begun` say, for the
property, what has been delivered.

What is abstracted: a key stands for itself and for the position of its data; slots
outside a page's keys are stale and not kept; the binary search in a page is its
outcome; data pages, which come from the same free list, are left out.
`great_equal_key` notices that it is past the end in the root only.  From an absent
key past the last one of another leaf the walk starts at a slot with no key (`SlotOf`), and what
it delivers first is whatever was left there.  `WalkMissesNothing` allows
that one record and nothing else.

### Fragments and the code

`blk` holds the blocks of the data pages by their addresses, each with the fields of its
`data_hdr` (`next`, `size`, `first` for `first_slice`, `link` for `next_page_index` and
`next_page_pos`); `frag` is `frag_page_index` and `frag_page_pos` of the magic page, `free`
the list from `free_page_list`, `index` the data position in the index slot of a key.  A
free block (`size` 0) is a `frag_hdr`, whose `link` and `prev` are its neighbours in its list.
The operators have the names of the functions and work on a record of all this (`Table`).

A loop along a chain is a step for each slice, and `job` says where it is: no operator
recurses.  `CreateNode` and, for each further slice, `AppendNext` are `create_node`;
`FreeData` and `Free` are the rounds of `free_data`, and `FreeBlock` is what one of them does
with a block and its neighbours.  `Replace` is `put_replace`: a record that does not fit
where it is (`Anew`) is freed and created; else `Skip` goes to the slice where the key
ends, `PutValue` writes there, `WriteNext` goes through the slices after it, new ones are
appended as in `create_node`, and `EndRecord` frees what a shorter value leaves.  `Find`
and `Read` are `extract_val`.  The storage is locked around an operation: one begins only
when `job` is `Idle`, and `put_new_node` links the new record to its index slot when it is
whole, which nobody else can tell from linking it before.  `Browse` is the choice of
`PageBrowser`, by which a damaged table is rebuilt without its index.

What is abstracted: a slice keeps which record its bytes were copied from, and from
which place on, and not the bytes; `Piece` says that this is what a reader should copy
next.  In the code some fields of the `frag_hdr` lie over fields that a
block in use writes, or over its data; the model keeps `prev` apart.  Index pages
come from the same free pages and are left out.  `put` is a history variable: what
was put last for each key.

### PageCache and the code

`layout` (contents), `dirty` (the `DIRTY` bit) and `lru_of` belong to the pages of the
hash table, `lru` to the table.  `copy` is what `snapshot_ptr()` of the pages in
`snapshot[]` points to.  `Use` is `lru_adjust` with the renumbering when the counter
wraps, `Load` is `find` or else `load_cache` and `insert`, `Cleanup` is `cleanup`.
`Rload` and `Wload` are the functions of `PageCache`, called for a request, for the
record under the cursor of a walk, or by the query that a walk hands it to (some tools
store into the table they walk); `WalkTo`, `WalkCleanup` and `WalkEnd` are the steps of
`walk`, which keeps a pointer `hdr` into an index page; `SnapshotCreate`, `SavePage`, `Commit` and `SnapshotRelease` are the
parts of a checkpoint that touch the cache.

The storage's lock excludes requests, walks and both ends of a checkpoint from each
other (`hdr = NoPage`), not from `SavePage` and `Commit`: `BackupThread` saves with no
lock held.  A pointer in
`snapshot[]` to a page that was deleted dangles, and what `SavePage` saves of it is any
value.  After a cleanup the page of `hdr` may be deleted as well, so `WalkTo` goes
anywhere.  `latest`, `after` and `torn` are history: what was last written, for each
page those used since its last use, and whether a page of the snapshot was deleted.

What the conditional property says.  `is_clean` looks at the `DIRTY` bit, and
`snapshot_create` clears it: while a checkpoint saves, its pages look clean.
`cleanup()` at the end of a checkpoint comes after `snapshot[]` is emptied, but a
`walk` calls it after each record (db.h 1591), in the middle of a checkpoint too.
`ReadsLastWritten` therefore holds until that happens (`~torn`), and `OnlyWalksTear`
says that nothing else can make it happen.  No comment of the code says that walks
and checkpoints exclude each other, so this is stated as a condition and not as a
violation; `gamedbd` does walk (`dbrawread.hrp`) beside its `BackupThread`.  Whether it
happens depends on sizes: more than `cache_high` pages must be cached (8000 by default)
and the snapshot's pages must be among the least recently used.

### UniqueNames and the code

`registry` and `uidrole` are the tables `unamerole` and `uidrole` of `uniquenamed`,
`base`, `his` and `rolename` the tables of the `gamedbd` of each zone.  `rpcs` holds the
calls in progress: a request is `at` the server until a handler takes it, its answer at
the caller; `waiting` is false when the caller has no use for the outcome, because
its timeout came first, because it restarted, or because its `OnTimeout` and its
client part do nothing.  `_Server` actions are the `Server` functions of the handlers
(`precreaterole.hrp` to `postchangerolename.hrp` of `uniquenamed`, `dbcreaterole.hrp`,
`dbdeleterole.hrp`, `dbchangerolename.hrp` of `gamedbd`), `_Client` and `_OnTimeout`
those of the callers in `gdeliveryd`.  `CreateRole`, `DeleteRole`, `ChangeRolename` are
the requests of the players that pass the checks of `gdeliveryd`.

The servers have several threads and the requests of different daemons come over
different connections, so requests are handled in any order.  A timeout may strike
at any moment, before or after the request was handled; the request is handled
later or never.  That covers lost messages.  A refusal for a reason outside the
tables (an account that is full, a wrong class, an item that is missing) is a choice
that the server has in every state.

`doubtful` is a history variable and names the exception of three properties.  When
`DBCreateRole` times out, `gdeliveryd` releases the name at `uniquenamed` while the
request may still be on its way to `gamedbd`: the name can be given to a second role.
The code says so itself (`dbcreaterole.hrp`: the timeout sends a rollback and the
release), and the copies of a `PostCreateRole` that releases a name have the same
effect when one is late.  The properties are about all other names;
`ZoneTablesAgree` is about all of them.

### Trade and the code

`trans`, `lastTid` and `traderMap` are the statics of `GNET::Transaction`
(`TransactionMap`, `_tid`, `TraderMap`), a transaction with its `_state`, its two traders
and their `pssn_obj`, `exchg_obj` and `modified`.  `gs` is the game server's view of each
player: `normal`, or one of `player_state_trade_*`; `db` is the table `inventory`.
`Create` is `TradeStartRqst` whose partner agreed; `GTradeStart_Re`, `GTradeDiscard`,
`PlayerLogout`, `AddGoods`, `RemoveGoods`, `MoveObject`, `Submit`, `Confirm`,
`TradeDiscard` are the handlers with the functions of `Transaction` they call;
`UserDisconnect` is what `UserContainer` does with the transaction of a player whose
connection is lost, or who logs in a second time (`UserDisconnect` and `UserLogout`, by
`RoleLogout`), while `gs` still holds the player;
`TradeInventoryReturns` and `TradeSaveReturns` are the client part and the timeout of
the two calls; `Update` is the timer of a transaction with `ReleaseObject`.
`TradeStarts`, `PutRoleReturns`, `TradeComplete`, `InventoryReturns` are `playertrade.cpp`;
`DiscardTrade` and `CompleteTimesOut` are `playerstate.cpp`.  The sessions of the players on `gdeliveryd` are not part of the model: after a
`UserDisconnect` it still takes requests in the player's name, and the `PlayerLogout` of `gs`
that comes later, which the code drops because it finds no role, may or may not be heard.
Those are more behaviours than the code has, and the properties hold of them.  The handlers of `gamedbd`
are `PutRole_Server`, `Read_Server`, `TradeSave_Server` and `Fails`.

`gdeliveryd` handles its protocols on one thread, so each handler is one step.  What
`gs` sends on its one connection arrives in order (`toDelivery`); what it is sent is
turned into tasks of its worlds and runs in any order (`toGs`), and so do the calls to
`gamedbd`.  A timeout of a call may come at any moment.  The timer of a transaction is
different: those of its states run for 60 to 600 seconds, while the calls time out after
10 or 20 (`rpcalls.xml` 2715, 2728), so `Update` does not fire while one is expected (`Expected`).  `Confirm` has no
timer: only the answer or the timeout of its `TradeSave` ends it.

History variables, each of which names an exception of a property:

- `doubt`: `TradeSave` was given up while `gamedbd` could still handle it, or a dropped
  player logged in before its transaction was over, or before `gamedbd` had handled a save
  of its own that is newer than what it read.  What it does then is saved over, or saves
  over, what the transaction or the old save writes.  (The last takes three transactions: a
  `GTradeEnd` of the first arrives in the second and drops the player while a periodic save
  is under way; the third is undone by that save.)
- `strays`: `gs` dropped the player from a trade that lives, or locked it for a trade
  that was over and forgotten when `gdeliveryd` heard of the lock.  Such a lock ends
  with the player's own timeout only.
- `agreed`: the deal a trader saw when it submitted.  `halfway`: an update that lacked
  money failed after its goods had moved; the other trader's `READY` is not taken
  back (`Trader::AddExchgObject` moves the goods and then checks the money).

## What the runs show

| run | instance | shows |
|---|---|---|
| `logger_pages` | 2 tables, page 0 and one more, 2 values, 1 record per log file, 2 log files, no late write | atomic checkpoint, clean pages, stable records, none of them behind the key page, with a crash anywhere, repeated crashes in recovery included |
| `logger_rotation` | 2 tables of page 0, 3 log files, 1 late write | the same across rotations (three log files are needed for a table to be two behind); checkpoints and redos end |
| `disk_errors` | as `logger_rotation`, with failing writes | **violation**: the process goes on after a disk error |
| `txn_serial` | 2 handlers and the checkpoint, 2 storages, 1 key, 1 value, 2 nested transactions | atomicity, isolation, abort, consistent snapshot; the outer transaction decides; no deadlock, no lost lock |
| `txn_lost_undo` | 2 handlers and the checkpoint, 1 storage, a handler that leaves it in its context | **violation**: an undo log cleared by another thread |
| `btree_deep` | 8 keys in any order, pages of 3 slots | the index implements `KeySet`, is a B-tree whose links agree, loses no page, marks what it changes; a walk from any key misses nothing |
| `btree_sweeps` | 64 keys, pages of 8 slots, sweeps that turn twice | trees whose pages shift their slots stay B-trees and hold their keys |
| `fragments` | 3 keys, values of 3 lengths, pages of 104 bytes, records of 1 to 3 slices | what a reader copies was put last; all space is in use or ready to be, also in the middle of an operation; a rebuild finds the same records |
| `page_cache` | 3 pages, 2 values, `cache_high` 2, `cache_low` 1, a counter that wraps at 4 | transparency of the cache, what eviction keeps, where a snapshot tears |
| `names` | 2 zones, 1 user, 2 names, 2 creations, a rename, a deletion | a name is in one zone, stays taken, and the tables of a zone agree |
| `names_settled` | 2 zones, 1 user, 1 name, 2 creations, a deletion, 2 copies of a `PostCreateRole`, a restart | an engaged name is used or freed in the end |
| `trade` | 2 players, 1 thing, 2 transactions, 2 saves of each player | nothing is lost or doubled, locks belong to trades and end with them, what is exchanged was agreed |

Bounds.  `MaxLog` bounds the log files ever created, `RecMax` is the code's
`logger_rec_max` (203 or 254 in the code; 1 makes every checkpoint meet the end
of the page, and every restart after one reads behind it), `MaxLateWrites` the pages changed between a snapshot and the end of
its checkpoint, `MaxRef` the depth of nested transactions, `MaxCopies` the entries
of a storage in a context.  Two tables are enough to disagree, two storages to
deadlock, two values to tell an old page from a new one.  In `txn_serial` a key is
absent or has the one value, so insertions and deletions are told apart (a replacement
takes the path of an insertion, with another old value).  For the handler that returns early the absence of deadlocks
and of lost locks is proved (`EarlySpec`).  The theorems below remove the bounds
for all properties but liveness.
Values and threads are interchangeable, and the runs without liveness use that
symmetry.

`INDEXCOUNT` is 254 in the code.  With 3 slots, 8 keys make trees of three levels,
splits up to the root and merges down to it, in 890106 states with the walks.  What 3 slots do not
reach are the shifts of whole pages (`slides` of `BorrowRight` and `BorrowLeft`, and the
one of `MergeSibling`): an internal page runs out of room at one end only when it can
lose and gain several keys, in trees of three levels with at least 7 slots.  Those trees
are too many to enumerate, so `btree_sweeps` starts from 64 keys put in order and follows
runs of neighbouring puts and deletes, which is what moves a page to one end; each of the
three shifts is reached there, and breaking any of them is caught.  8 is even, as 254 is:
`INDEXMINL` is `INDEXMINR + 1`.  A file of 10 pages, or 25, is never full; what the code
does at the limit of a file is not modelled (`Alloc` then has no step).  Two trees that
differ in the numbers of their pages are one state (`VIEW`): no operation chooses by page
number.  In `page_cache` three pages are one more
than the cache holds, and a counter of 4 wraps with every few uses; the order of use of
pages that are not cached is not part of a state, because they come last when they are
loaded again.

In `fragments` a page of 104 bytes holds three small records, so that a block has
neighbours on both sides.  Like the 4088 bytes of the code, 104 is 8 more than a multiple
of 16 (`PageAssumption`): blocks start at multiples of 16, lists round capacities down
to 8, and the last block of a page may be as short as a `frag_hdr`.  The lengths make
records that need one, two or three slices, values that grow and shrink where they lie,
and a key that does not fit in the first slice (keys of 4, 36 and 92 bytes, values of 4,
40 and 175), in 341410 states.
Tables that differ in page numbers only are one state (`VIEW`): no operation compares
them.

In `names` two creations compete for a name from two zones while a rename and a deletion
move another; a restart of `gdeliveryd` only makes callers deaf, which a timeout does
too, so `names` has none, and `names_settled`, where a restart matters, has one.
`MaxTry` bounds the copies of a `PostCreateRole`; the code sends them for ever.
In `trade` one thing is enough: whether it is in no bag, one or two is what
`GoodsAreConserved` says, and the thing can go there and back in two transactions.
Stacks and money are goods that can be split; the model does not split them.
`MaxStamp` bounds the saves of a player (one per trade, and the periodic ones of
`Savers`).  `Within` is a state constraint: behaviours with `doubt` are followed through the first
transaction but not into the second; without `doubt` both are complete.

Every property has a mutant (`PROJECT.json`): a plausible bug in one mapped
definition with which TLC finds the property violated.

### The two violations

`disk_errors`.  When a write of a checkpoint fails, `StorageEnv::checkpoint` logs
`DISK ERROR! PROGRAM ABORT!` and returns false; the `abort()` after it is commented
out (storagewdb.h 642, and 721 in `BackupThread`).  The snapshot is released, its
pages count as clean, and neither the log nor the data files hold them: the cache
may drop them, and the next checkpoint leaves them out.

`txn_lost_undo`.  `storage_vec` is cleared only in `~Transaction`.  `PutRole`
returns before its `Transaction` when the two ids of the request differ
(putrole.hrp 45), so the next handler of the thread finds its storages twice in the
context.  At its end `Storage::checkpoint` runs twice for each, the second time
after the unlock: it clears the `prepared` and `new_key` of whoever has locked the
storage since, and an abort of that transaction restores nothing.

## Fairness

`logger_rotation` assumes weak fairness of `Prepare` and of `Commit`: the thread that
runs them (`BackupThread`, or the main thread in `init()`) waits for nothing but the
disk.  Nothing obliges a process to start, users to write or checkpoints to begin.
`StorageTxn` has no liveness property: a waiter for a mutex is served in the end only
if the mutex is fair, and pthread mutexes are not.  `NoDeadlock` is the safety part.

`names_settled` assumes weak fairness of timeouts, which a housekeeper thread of
`rpc.h` delivers to every call, and of the handling of the last copy of a
`PostCreateRole`: copies are sent until one is answered, so one is handled if the
connection ever comes back.  Answers and all other requests may be lost.
`Trade` has no liveness property: two players may change their offers for ever, each
change starting the timer again.  `SavesAreAwaited` is the safety part: a transaction
that no timer ends is waited for by a call, and calls end.

## What is proved

### The checkpoint

With TLAPS, for any number of tables, pages, values, records and log files, from the
assumptions `NTAssumption`, `MagicAssumption`, `RecMaxAssumption` (at least one
record fits in a page) and `MaxLogAssumption`:

- `TypeCorrect`, `CleanPagesAreOnDisk`, `YoungestLogIsDecisive`: invariants;
- `RecordsAreInPage`: `RecordInPage` is an invariant, whatever `SeemsBegun` finds;
- `WritesAhead`, `PreparedStaysStable`: action properties;
- `Refinement`: `Spec => ImplementsAtomicCheckpoint`.

All rest on `Invariance`, `Spec => []IInv`.  None of the properties is inductive
alone.  `IInv` adds, besides the order of log files (`LogsInOrder`, `SomeYoungest`)
and the shape of records (`RecordInPage`, `MagicIsSaved`):

- `NothingToRedo`: until `EndPrepare` no record that the tables can reach is PREPARED;
- `CommitProgress`: how far a commit or a redo has come: tables before `it` hold
  the pages of the record, table `it` holds those not in `todo`, and until the first
  table is marked the previous log file has nothing to redo;
- `SnapshotIsSaved`, `SnapshotIsShot`, `SnapshotInCache`: the record is the snapshot,
  and the snapshot over the data files is the contents at its time.

The step lemmas (`WriteStep` to `EndRedoStep`) prove that each action preserves it.
The refinement maps `stable` to `Recovered`, what `init()` would leave in the data
files if the process stopped now; the steps that change it are `EndPrepare` when the
log file is already the tables' own, and the first `MarkTable` after a rotation: these
are `Install`.  All other writes of commit and redo leave `Recovered` as it is.

### The transactions

For any threads, storages, keys, values, depth of nesting and number of copies in a
context (`OwnerAssumption`, `NSAssumption`, `NoValAssumption`, `BoundAssumption`), in
`StorageTxnProofs`, the first three also with the handler that returns early
(`EarlySpec`):

- `TypeCorrect`; `NoLockStaysBehind`: `NoLockLeftBehind` is an invariant;
- `NoDeadlockEver`: `NoDeadlock` is an invariant;
- `OuterTransactionDecides`: `Spec => OuterKeepsScope`;

and `Refinement`: `Spec => ImplementsSerialStore`.

`IInv` says who holds which lock and where each thread is: `PhaseOK` ties `locked` to
the phase of a thread, `LocksOK` says that `locker[s]` is `t` exactly when `t` has
passed `s` in `lock()`, works, or has not yet reached its last copy in `unlock()`, and
likewise for the thread of the checkpoint; `InOrder` that `lock()` goes up the
addresses; `LogsOK` that only a storage which somebody holds and works on has values to
put back.  Against a deadlock, take the waiters of a supposed circle: whoever waits in
`lock()` for `s` holds earlier storages only (`WaitsForLater`), so the storage after
which nothing is waited for is held by nobody in the circle.  The thread of the
checkpoint waits in the same order, and holds none when it waits in its release phase.

The other two need `Once`: a storage is at most once in the context of a thread.  It is
what the early return breaks (`txn_lost_undo`), and why they speak of `Spec` only.
The refinement maps the end of `lock()` to `Begin`, the operations to `Change`, the last
`Release` to `Commit` or `Abort` (that is where `unlock()` is decided: the storages that
it has not reached count as it will leave them), and the snapshot of a checkpoint, taken
one storage after the other under all locks, to one `Checkpoint`; all other steps leave
the serial store as it is.

### The index

For any number of keys and pages and any `INDEXCOUNT` of at least 3 (`KeyAssumption`,
`PageAssumption`, `CountAssumption`):

- `Types`: `Spec => []TypeOK`; `AlwaysBTree`: `IsBTree`; `NeverLost`: `NoPageLost`;
- `DirtyIsEnough`: `Spec => ChangesAreDirty`;
- `Refinement`: `Spec => ImplementsKeySet`.

All rest on `TreeSound`, `Spec => []IInv`.  `IsBTree` speaks of the tree between two
operations and defines levels and bounds by recursion; the invariant has to say what a tree
is while an operation goes from page to page.  `IInv` says that there are three functions on
the pages, `lo`, `hi` and `lv`: the keys of a page lie between its bounds (`Keys`), a
child has its bounds and its level from its parent and knows its seat there (`Down`, `Up`),
and no page but the one the next call is about is too full or too small (`Size`).  The job
says which page breaks which rule: `Fresh`, a root with no keys yet; `Half`, whose upper
bound its parent does not know yet; and the bounds within which the searched key lies.

`Down` speaks of neighbours only, and is not enough: when the last key of a leaf
takes the place of a removed key many levels above, every bound equal to that key
changes.  `Apart` says what is needed: the bounds of two pages of one level do not overlap,
and what is above a page is not within its bounds.  So nothing lies between the last
key of a leaf and its upper bound (`NothingBetween`), and renaming the bound keeps all
orders.  When a key goes round between siblings, only the bound between them moves
(`BoundaryMoves`), when pages merge it disappears (`BoundaryGoes`), and a split adds
one.  `FrameKeeps` reduces a step to the three pages it changes and their children.
`Gap` and `Closing`, where slots are shifted to one side or the other, are treated once
(`InsertedKeys`, `ClosedKeys` and the lemmas after them).

At rest `lo`, `hi` and `lv` are the bounds and levels that `IsBTree` defines (`LevelIs`,
`LowIs`).  For the refinement, the leaf where a search ends is the only page
whose bounds contain the key (`Nowhere`), so `answer` is right; and what each page gains
and loses makes up what the index does (`KeyGoesRound`, `KeysTakenIn`).

- `WalksMissNothing`, in `BTreeWalkProofs`: `WalkSpec => []WalkMissesNothing`;
- `SweepsAlwaysKeepTheTree`, there too: `SweepSpec => []SweepsKeepTheTree`.

`WalkSpec` allows the steps of `Spec` between walks and adds those of a walk, which leave
the index alone, so that all of the above holds of it as well (`WalksChangeNothing`).  What is
known of a walk (`Where`) is said with the same bounds.  Going down to the leftmost leaf of
a page, `lo` of the page is the key that was delivered last; climbing from a page, there is
no key between that one and `hi` of the page (`NoneIn`); in a search, the key to start from
lies within the bounds.  A key within the bounds of a leaf is in that leaf (`KeysAtRest`, which
needs `Apart` again), so nothing lies between two neighbouring slots of a leaf, and the slot
to the right of a link has the very key that is `hi` of the page below the link.

`KeySet` lets any key be put or deleted; a sweep is what ties a change to the request.
`Due` is what the index will hold when the operation under way is over: the search adds
or removes its key at the end, the removal from an inner page takes its key out, and the
splits, merges and shifts that follow change nothing.  No call changes `Due`
(`CallSettles`), and between operations it is `Contents`.  The theorem holds for any pages and keys and
for sweeps that turn any number of times, to any key.

### The records

For any keys and values of any lengths, and pages of any size that is 8 more than a
multiple of 16 and holds more than a header and the two lengths (`LenAssumption`,
`PageAssumption`, `NoValAssumption`), in `FragmentsProofs`:

- `SpaceIsAlwaysKept`: `Spec => []SpaceIsKept`, within operations too;
- `RebuildAlwaysFindsAll`: `RebuildFindsAll`; `AlwaysFindsLastPut`: `FindsLastPut`.

All rest on `Invariance`, `Spec => []IInv`; `IInv` has two parts.  `Space` is
`SpaceIsKept` for a table that an operation is at: pages are divided without gaps
(`Tiled`), the free blocks are in the list of their capacity, linked both ways (`Listed`),
and no two are neighbours (`Joined`).  Between a block's leaving a list and its return the
lists speak of fewer blocks than are free, so `Listed` and `Joined` are about a set of
blocks.  That no list is a ring is said without following links: every set of free
blocks has one whose predecessor is not in it (`NoRing`).  Each of the three things that the
operations do with space, `AllocKeeps`, `AdjustKeeps` and `FreeBlockKeeps`, keeps `Space` and
all blocks in use but the one it is about; the boundaries of blocks are multiples of 16,
which is why the one that `adjust_data_head` cuts off has room for a `frag_hdr`.

`Records` says that the slices of a key make up one record of the last value (`Whole`).
The properties follow links, and a link leads to the next slice only as long as the
slices before it are right; so does a proof by induction along the chain, which the
prover cannot do.  The invariant goes by offsets: each slice is linked to the one that
goes on where it ends, no two overlap, and all but the first are linked to
(`LiveBlock`); nothing has to be counted from the start.  For the key that an operation is
at, its slices are two sets: those of the record that is being written, up to the last one
(`Live`), and those still to be freed, which are linked in the order of their old offsets
(`Orphans`).  `job` says how many bytes are missing.  A value put into the slices of an
older one moves a slice at a time from the second set to the first (`PutParts`,
`AdvanceParts`); while the key is skipped the record is one of an old value under
the new length (`Skipping`).  A free at the end takes the orphans one by one, from the
least offset on (`FreeGood`); since each block is freed once and nothing is linked to
it any more, no record is left with a link into a list of fragments.

### The page cache

For any number of pages, any contents, any `cache_low <= cache_high` and any width of the
counter that can number the pages (`CacheAssumption`, `LruAssumption`,
`NoPageAssumption`):

- `TypeCorrect`: the types; in particular `lru` stays below `LRUMAX` across wraps and
  renumberings, because a page's new number is the count of the pages before it;
- `ReadersSeeLastWrite`: `ReadsLastWritten` is an invariant;
- `OnlyWalksTearSnapshots`: `Spec => OnlyWalksTear`;
- `RecentlyUsedAreKept`: `Spec => KeepsRecentlyUsed`; `CleanupsMakeRoom`: `Spec => CleanupMakesRoom`.

`ReadsLastWritten` is not inductive: a clean page may be deleted at any time, so what it
would be loaded with must be right already, and during a checkpoint that is the copy
until the commit and the data file after it.  `IInv` says so (`CleanIsOnDisk`), with
`CachedIsLatest`, and with `SnapshotIsCached`: there is no snapshot between checkpoints,
which is also why the cleanup at the end of one cannot tear it.

For the last two `LruIsOrder` relates the numbers to the history: they are different, below
the counter, and in the order of the last uses.  A renumbering gives each page the count of
the pages below it, which keeps the order (`RenumberKeepsOrder`); so a wrap does no harm.
What `cleanup()` leaves when it deletes a page is that page, dirty pages and pages used
after it.  If a clean page remains, all pages older than the oldest such are gone, and
`cache_low` remain at most.

### The role names

For any zones, users, names, requests, copies and restarts (`NamesAssumption`):

- `NamesTypeCorrect`; `ZoneTablesAlwaysAgree`;
- `NamesAreUnique`: `OneZonePerName`; `NamesAreKept`: `NamesStayTaken`.

All rest on `NamesInvariant`.  That a name is in one zone is not inductive: a creation
may be under way in another.  `NameOK` adds who may still act on a name: a call
`Claims` it when the call or what follows it will put the name in a zone or release it.
Of a name that is not doubtful one call at most is such; while there is one, no zone
has the name; and while there is one, or a zone has it, `uniquenamed` keeps it, so that
`PreCreateRole` and `PreChangeRolename` create no second claim.  A call that timed out
may still claim, which is why a timeout alone does no harm unless it also releases.

### The trade

For any players, goods, transactions and saves (`TradeAssumption`):

- `TypeInvariant` (with `TidsNamed`: what is under way names transactions that exist);
- `EverySaveIsAwaited`, `EveryDealIsAgreed`;
- `TradersStayLocked`, `LocksAreKnown`;
- `GoodsStayConserved`.

The first part of `TradeProofs` follows each transaction on its own: `Follows` lists what a step may do to
it, and each handler is shown to do one of these.  A `READY` trader's `agreed` is the
present deal as long as nothing failed half-way: an update of the other
takes `READY` back.  For the calls, a transaction in one of the three states without a
timer has its call in `rpcs`, waiting, and the answer or the timeout of that call, and
nothing else, removes it while it ends the transaction.

The second relates `gdeliveryd` to `gs` through the messages between them.  Neither
property is inductive: `LockOK` adds that a report of a lock on its way means
a lock or a stray, that the end of a live transaction was told to nobody, that a
request to lock still on its way was not carried out, and that a transaction that was not
given yet is unknown everywhere.

`GoodsStayConserved`, the third part, rests on `GInv`: while there is no `doubt`, `GoodsOK`.  It says of
every call and message under way what makes it harmless:

- A save that `gamedbd` could still accept (`LateSave`) carries the bag `gamedbd`
  already has, and a role that is locked or attached has none (`PutRoleOK`,
  `TraderOK`, `ReportOK`): its lock waited for the newest, which made the others stale.
- A `TradeSave` belongs to a transaction that still has both traders, so nothing
  else changes their bags before it is written (`SaveOK`, `TransOK`), and a bag it may
  change belongs to a trader that gs is told to read again (`Changed`), or that has
  left gs.
- What a trader has and what it offers is its bag in `gamedbd`, as long as the
  transaction is open (`TransOK`); so a save without changes (`TradeDiscard`) writes
  what is there.
- gs reports once of a player and a trade, a tid is used once (`ReportOK`, `NamedOK`):
  an old report attaches nobody to a later trade.

`gamedbd` then keeps the owners by its own check of the copies: a thing that is in one of
the two bags before is in one of them after (`TradeKeepsOwners`).  Where `doubt` begins
the argument ends: a transaction given up while `gamedbd` could still write it has no
one left to tell gs of the change.

### What is only model-checked

The liveness properties (liveness is beyond the prover) and the violations, which are
counterexamples.

Where a proof needs a function that recurses over the pages, like `Level` of `IsBTree`,
there is a way round induction: `WFMin` gives the least page for which a claim fails, and
the claim is shown for it after all.

## Not modelled, and the plan

1. `StandaloneLog`: `PageLogger`; `Restore`: the chain of log files.
2. The login of a player (`gdeliveryd`, `glinkd`, `gs`) and the markets of `gdeliveryd`.
3. Disk errors within an operation on a record.

Left out of `BTree`: a file with no page left.  The code has no limit of its own and meets
a full disk as an exception; in the model a step that needs a page beyond `MaxPage` is
not taken, so the theorems are about calls in files, of any `MaxPage`, that do not fill.

Left out of `Fragments`: a disk error in the middle of an operation (`put_replace` frees the
old record before it creates the new one), index pages that `PageBrowser::is_data_page`
may take for data pages, the compression of values.  Left out of `UniqueNames`: family names, which follow the same two-phase scheme without
roles; merges of zones; a loss of what `uniquenamed` had not checkpointed.  Left out of
`Trade`: places in a bag and stacking, limits of money, and what a player picks up or
uses during a trade (the inventory is locked).

Out of scope: the game rules of `zgame/gs`, generated marshalling code, vendored
libraries, compression, statistics (`Performance`), and daemons that only forward or
log.
