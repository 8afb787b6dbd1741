------------------------------ MODULE PageCache -------------------------------
(***************************************************************************)
(* The page cache of a table (classes Page, PageHash and PageCache of      *)
(* znet/common/db.h).  Pages are loaded on demand, changed in memory, and  *)
(* written by checkpoints only.  cleanup() keeps the cache small: it       *)
(* deletes clean pages, the least recently used first.  It is called at    *)
(* the end of a checkpoint and after each record of a walk, which goes on  *)
(* from a pointer into an index page.                                      *)
(*                                                                         *)
(* The storage's lock excludes requests, whole walks and the two ends of a *)
(* checkpoint from each other, and nothing excludes them from the writes   *)
(* of the checkpoint in between.  The query of a walk may use the table.   *)
(* The array snapshot[] holds pointers to pages: what is saved of a page   *)
(* that was deleted since is arbitrary.                                    *)
(*                                                                         *)
(* Abstractions.  The buckets of the hash table are its set of pages.  The *)
(* log file and the order of its writes are in GlobalLogger, and so are    *)
(* the magic page, which is not in the hash table, crashes, and the        *)
(* failures of a checkpoint.                                               *)
(***************************************************************************)
EXTENDS Integers, Sequences, FiniteSets

CONSTANTS Page,         \* pages of the table
          Value,        \* contents of a page
          cache_high,   \* cleanup() deletes pages when there are more than this
          cache_low,    \* and until there are this many
          LRUMAX,       \* lru_t counts from 0 to LRUMAX - 1
          NoPage

ASSUME CacheAssumption == cache_high \in Nat /\ cache_low \in 0..cache_high
ASSUME LruAssumption   == LRUMAX \in Nat /\ IsFiniteSet(Page) /\ Cardinality(Page) < LRUMAX
ASSUME NoPageAssumption == NoPage \notin Page

VARIABLES layout,     \* contents of the cached pages
          dirty,      \* the pages with the DIRTY flag
          lru_of,     \* Page::lru of the cached pages
          lru,        \* PageHash::lru
          copy,       \* what snapshot_ptr() points to, of the pages of snapshot[]
          saved,      \* the pages of snapshot[] that are in the log file
          deleted,    \* the pages of snapshot[] that were deleted since
          data,       \* the data file
          pc,         \* where the checkpoint is
          hdr,        \* the index page a walk is in, or NoPage
          latest,     \* history: what was written to a page last
          after,      \* history: for each page, the pages used since its last use
          torn        \* history: a page of snapshot[] has been deleted

order == <<lru_of, lru, after>>
shot  == <<copy, saved>>
vars  == <<layout, dirty, order, shot, deleted, data, pc, hdr, latest, torn>>

cached   == DOMAIN layout
snapshot == DOMAIN copy

Init ==
    /\ data \in [Page -> Value] /\ latest = data
    /\ layout = <<>> /\ dirty = {}
    /\ lru_of = <<>> /\ lru = 0 /\ after = [p \in Page |-> {}]
    /\ copy = <<>> /\ saved = {} /\ deleted = {} /\ torn = FALSE
    /\ pc = "idle" /\ hdr = NoPage

-------------------------------------------------------------------------------
(* PageHash                                                                *)

\* f with the value v at p.
With(f, p, v) == [q \in DOMAIN f \cup {p} |-> IF q = p THEN v ELSE f[q]]

\* The pages numbered from 0 on, in the order in which sort_lru puts them.
Renumber(l) == [p \in DOMAIN l |-> Cardinality({q \in DOMAIN l : l[q] < l[p]})]

MutLruWraps == lru = LRUMAX

LruWraps == lru + 1 = LRUMAX

MutUse(p) ==
    /\ lru_of' = With(lru_of, p, lru)
    /\ lru' = IF LruWraps THEN 0 ELSE lru + 1
    /\ after' = [q \in Page |-> IF q = p THEN {} ELSE after[q] \cup {p}]

\* lru_adjust: page p is the one used last.
Use(p) ==
    LET used == With(lru_of, p, lru)
    IN  /\ lru_of' = IF LruWraps THEN Renumber(used) ELSE used
        /\ lru' = IF LruWraps THEN Cardinality(DOMAIN used) ELSE lru + 1
        /\ after' = [q \in Page |-> IF q = p THEN {} ELSE after[q] \cup {p}]

\* find, or else load_cache and insert.
Load(p) ==
    /\ Use(p)
    /\ layout' = IF p \in cached THEN layout ELSE With(layout, p, data[p])

Clean(p) == p \notin dirty

MutErased ==
    LET older(p) == {q \in cached : Clean(q) /\ lru_of[q] < lru_of[p]}
    IN  {p \in cached : Clean(p) /\ Cardinality(cached) - Cardinality(older(p)) > cache_high}

\* The pages that cleanup() deletes: clean ones, in the order of their last
\* use, as long as more than cache_low are left.
Erased ==
    LET older(p) == {q \in cached : Clean(q) /\ lru_of[q] < lru_of[p]}
    IN  {p \in cached : Clean(p) /\ Cardinality(cached) - Cardinality(older(p)) > cache_low}

\* cleanup(), while snapshot[] holds the pages s.
Cleanup(s) ==
    IF Cardinality(cached) <= cache_high
    THEN UNCHANGED <<layout, order, torn>> /\ deleted' = deleted \cap s
    ELSE LET kept == cached \ Erased
         IN  /\ layout' = [p \in kept |-> layout[p]]
             /\ lru_of' = Renumber([p \in kept |-> lru_of[p]])
             /\ lru' = Cardinality(kept)
             /\ deleted' = (deleted \cup Erased) \cap s
             /\ torn' = (torn \/ Erased \cap s # {})
             /\ UNCHANGED after

-------------------------------------------------------------------------------
(* Handlers                                                                *)

\* Any user of the table: a request, a walk that extracts the record under its
\* cursor, or the query that is given the record.
Rload(p) ==
    /\ Load(p)
    /\ UNCHANGED <<dirty, shot, deleted, data, pc, hdr, latest, torn>>

\* Wload, and a change of the page, by a request or by the query of a walk.
Wload(p, v) ==
    /\ Use(p)
    /\ layout' = With(layout, p, v)
    /\ dirty' = dirty \cup {p}
    /\ latest' = [latest EXCEPT ![p] = v]
    /\ UNCHANGED <<shot, deleted, data, pc, hdr, torn>>

\* A walk starts at an index page, or next() comes to another one.  Where next()
\* of a deleted page leads is arbitrary, as p is here anyway.
WalkTo(p) ==
    /\ hdr' = p
    /\ Load(p)
    /\ UNCHANGED <<dirty, shot, deleted, data, pc, latest, torn>>

\* The query has seen the record.
WalkCleanup ==
    /\ hdr # NoPage
    /\ Cleanup(snapshot)
    /\ UNCHANGED <<dirty, shot, data, pc, hdr, latest>>

WalkEnd ==
    /\ hdr # NoPage
    /\ hdr' = NoPage
    /\ UNCHANGED <<layout, dirty, order, shot, deleted, data, pc, latest, torn>>

-------------------------------------------------------------------------------
(* Checkpoint                                                              *)

SnapshotCreate ==
    /\ pc = "idle" /\ hdr = NoPage
    /\ pc' = "prepare"
    /\ copy' = [p \in dirty |-> layout[p]]
    /\ dirty' = {}
    /\ UNCHANGED <<layout, order, saved, deleted, data, hdr, latest, torn>>

\* save_page, to the log file.
SavePage(p) ==
    /\ pc = "prepare"
    /\ p \in snapshot \ saved
    /\ saved' = saved \cup {p}
    /\ IF p \in deleted THEN \E v \in Value : copy' = [copy EXCEPT ![p] = v]
                        ELSE UNCHANGED copy
    /\ UNCHANGED <<layout, dirty, order, deleted, data, pc, hdr, latest, torn>>

\* restore_page, from the log file.
Commit ==
    /\ pc = "prepare" /\ saved = snapshot
    /\ pc' = "commit"
    /\ data' = [p \in Page |-> IF p \in snapshot THEN copy[p] ELSE data[p]]
    /\ UNCHANGED <<layout, dirty, order, shot, deleted, hdr, latest, torn>>

MutSnapshotReleaseAll ==
    /\ pc = "commit" /\ hdr = NoPage
    /\ pc' = "idle"
    /\ copy' = <<>> /\ saved' = {}
    /\ dirty' = dirty \ snapshot
    /\ Cleanup({})
    /\ UNCHANGED <<data, hdr, latest>>

MutSnapshotReleaseLate ==
    /\ pc = "commit" /\ hdr = NoPage
    /\ pc' = "idle"
    /\ copy' = <<>> /\ saved' = {}
    /\ Cleanup(snapshot)
    /\ UNCHANGED <<dirty, data, hdr, latest>>

SnapshotRelease ==
    /\ pc = "commit" /\ hdr = NoPage
    /\ pc' = "idle"
    /\ copy' = <<>> /\ saved' = {}
    /\ Cleanup({})
    /\ UNCHANGED <<dirty, data, hdr, latest>>

Next ==
    \/ \E p \in Page : Rload(p) \/ WalkTo(p) \/ SavePage(p)
    \/ \E p \in Page, v \in Value : Wload(p, v)
    \/ WalkCleanup \/ WalkEnd
    \/ SnapshotCreate \/ Commit \/ SnapshotRelease

Spec == Init /\ [][Next]_vars

-------------------------------------------------------------------------------
(* Properties *)

\* The pages that the hash table, the snapshot and the walk know; lru
\* counts below LRUMAX.
TypeOK ==
    /\ layout \in [cached -> Value] /\ cached \subseteq Page
    /\ dirty \subseteq cached
    /\ lru_of \in [cached -> 0..(LRUMAX - 1)]
    /\ lru \in 0..(LRUMAX - 1)
    /\ after \in [Page -> SUBSET Page]
    /\ copy \in [snapshot -> Value] /\ snapshot \subseteq Page
    /\ saved \subseteq snapshot /\ deleted \subseteq snapshot
    /\ data \in [Page -> Value] /\ latest \in [Page -> Value]
    /\ pc \in {"idle", "prepare", "commit"}
    /\ hdr \in Page \cup {NoPage}
    /\ torn \in BOOLEAN

Loaded(p) == IF p \in cached THEN layout[p] ELSE data[p]

\* Users of the cache read what was last written, whether a page is cached, was
\* deleted and is loaded again, or is being checkpointed, unless a page was
\* deleted while snapshot[] pointed to it: then anything may be saved.
ReadsLastWritten == ~torn => \A p \in Page : Loaded(p) = latest[p]

\* Only a walk that runs during a checkpoint deletes pages of snapshot[]: they
\* look clean to cleanup().  The cleanup at the end of a checkpoint does not.
OnlyWalksTear == [][torn' = torn \/ (pc # "idle" /\ hdr # NoPage)]_vars

\* What a step that deletes pages must find: see KeepsRecentlyUsed.
DeletesLeastUsed ==
    \A p \in cached \ cached' :
        /\ Clean(p)
        /\ Cardinality(cached) > cache_high
        /\ Cardinality((after[p] \cap cached) \cup (dirty \ {p})) >= cache_low

\* A page is deleted only if it is clean, too many pages are cached, and
\* cache_low others are dirty or were used after it: this is what a pointer
\* into a page, as next() of a walk has one, relies on, whether or not lru has
\* wrapped around or was renumbered since.
KeepsRecentlyUsed == [][DeletesLeastUsed]_vars

MakesRoom ==
    (WalkCleanup \/ SnapshotRelease) /\ Cardinality(cached) > cache_high =>
        Cardinality(cached') <= cache_low \/ cached' \subseteq dirty

\* The cache outgrows cache_high only until the next cleanup, which leaves
\* cache_low pages, or nothing but dirty ones.
CleanupMakesRoom == [][MakesRoom]_vars
===============================================================================
