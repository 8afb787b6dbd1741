--------------------------- MODULE PageCacheProofs ----------------------------
(***************************************************************************)
(* Proofs about PageCache: its variables keep their types, the cache is    *)
(* transparent until a walk deletes a page of the snapshot, and eviction   *)
(* follows the order of use, whatever becomes of the counter of uses.      *)
(***************************************************************************)
EXTENDS PageCache, FiniteSetTheorems, WellFoundedInduction, TLAPS

-------------------------------------------------------------------------------
(* The inductive invariant *)

\* The part of the types that does not count pages.
Typed ==
    /\ layout \in [cached -> Value] /\ cached \subseteq Page
    /\ dirty \subseteq cached
    /\ copy \in [snapshot -> Value] /\ snapshot \subseteq Page
    /\ saved \subseteq snapshot /\ deleted \subseteq snapshot
    /\ data \in [Page -> Value] /\ latest \in [Page -> Value]
    /\ pc \in {"idle", "prepare", "commit"}
    /\ hdr \in Page \cup {NoPage}
    /\ torn \in BOOLEAN

\* The lru of a page is below LRUMAX, and so is the next one.
LruInRange ==
    /\ lru_of \in [cached -> 0..(LRUMAX - 1)]
    /\ lru \in 0..(LRUMAX - 1)

\* l numbers its pages below n, differently, and in the order of their last use.
Ordered(l, n, a) ==
    /\ \A p \in DOMAIN l : l[p] < n
    /\ \A p, q \in DOMAIN l : /\ q \in a[p] <=> l[p] < l[q]
                              /\ p # q => l[p] # l[q]

LruIsOrder == after \in [Page -> SUBSET Page] /\ Ordered(lru_of, lru, after)

\* snapshot[] is empty between checkpoints, and until a page is torn it points
\* to pages that are cached.
SnapshotIsCached ==
    /\ pc = "idle" => snapshot = {}
    /\ ~torn => deleted = {} /\ snapshot \subseteq cached

\* What a page will be loaded with, if it is deleted now or after the commit.
CleanIsOnDisk ==
    \A p \in Page : Clean(p) =>
        IF p \in snapshot /\ pc = "prepare" THEN copy[p] = latest[p] ELSE data[p] = latest[p]

CachedIsLatest == \A p \in cached : layout[p] = latest[p]

Transparent == ~torn => CleanIsOnDisk /\ CachedIsLatest

IInv == Typed /\ SnapshotIsCached /\ Transparent

-------------------------------------------------------------------------------
(* Lemmas about the operators *)

LEMMA WithFunction ==
    ASSUME NEW V, NEW D, NEW f \in [D -> V], NEW p, NEW v \in V
    PROVE  With(f, p, v) \in [D \cup {p} -> V]
BY DEF With

\* What a load does to the cache.
LEMMA LoadEffect ==
    ASSUME Typed, NEW p \in Page, Load(p)
    PROVE  /\ layout' \in [cached \cup {p} -> Value]
           /\ cached' = cached \cup {p}
           /\ \A q \in cached : layout'[q] = layout[q]
           /\ p \notin cached => layout'[p] = data[p]
<1>1. CASE p \in cached
  <2>1. layout' = layout
    BY <1>1 DEF Load
  <2> QED BY <1>1, <2>1 DEF Typed, cached
<1>2. CASE p \notin cached
  <2>1. layout' = With(layout, p, data[p])
    BY <1>2 DEF Load
  <2>2. layout \in [cached -> Value] /\ data[p] \in Value
    BY DEF Typed
  <2>3. /\ With(layout, p, data[p]) \in [cached \cup {p} -> Value]
        /\ With(layout, p, data[p])[p] = data[p]
        /\ \A q \in cached : q # p => With(layout, p, data[p])[q] = layout[q]
    BY <2>2 DEF With
  <2> QED BY <1>2, <2>1, <2>3 DEF cached
<1> QED BY <1>1, <1>2

\* What a cleanup does: it keeps all dirty pages, and leaves those it keeps alone.
LEMMA CleanupEffect ==
    ASSUME Typed, NEW s, Cleanup(s)
    PROVE  \E kept \in SUBSET cached :
              /\ dirty \subseteq kept
              /\ layout' = [p \in kept |-> layout[p]]
              /\ deleted' = (deleted \cup (cached \ kept)) \cap s
              /\ torn' = (torn \/ (cached \ kept) \cap s # {})
<1>1. CASE Cardinality(cached) <= cache_high
  <2>1. layout' = layout /\ torn' = torn /\ deleted' = deleted \cap s
    BY <1>1 DEF Cleanup
  <2>2. layout' = [p \in cached |-> layout[p]]
    BY <2>1 DEF Typed
  <2>3. torn' = (torn \/ (cached \ cached) \cap s # {})
    BY <2>1 DEF Typed
  <2> QED BY <2>1, <2>2, <2>3 DEF Typed
<1>2. CASE ~(Cardinality(cached) <= cache_high)
  <2> DEFINE kept == cached \ Erased
  <2>1. /\ layout' = [p \in kept |-> layout[p]]
        /\ deleted' = (deleted \cup Erased) \cap s
        /\ torn' = (torn \/ Erased \cap s # {})
    BY <1>2 DEF Cleanup
  <2>2. Erased \subseteq cached /\ Erased \cap dirty = {}
    BY DEF Erased, Clean
  <2>3. cached \ kept = Erased /\ dirty \subseteq kept
    BY <2>2 DEF Typed
  <2> QED BY <2>1, <2>3
<1> QED BY <1>1, <1>2

LEMMA RenumberInRange ==
    ASSUME NEW l, DOMAIN l \subseteq Page
    PROVE  /\ Renumber(l) \in [DOMAIN l -> 0..(LRUMAX - 1)]
           /\ Cardinality(DOMAIN l) \in 0..(LRUMAX - 1)
<1>1. ASSUME NEW S \in SUBSET Page
      PROVE  Cardinality(S) \in 0..(LRUMAX - 1)
  <2>1. IsFiniteSet(S) /\ Cardinality(S) <= Cardinality(Page)
    BY LruAssumption, FS_Subset
  <2>2. Cardinality(S) \in Nat /\ Cardinality(Page) \in Nat
    BY <2>1, LruAssumption, FS_CardinalityType
  <2> QED BY <2>1, <2>2, LruAssumption
<1>2. \A p \in DOMAIN l : {q \in DOMAIN l : l[q] < l[p]} \in SUBSET Page
  OBVIOUS
<1>3. Renumber(l) \in [DOMAIN l -> 0..(LRUMAX - 1)]
  BY <1>1, <1>2 DEF Renumber
<1> QED BY <1>1, <1>3

\* The counter wraps to the number of cached pages.
LEMMA UseInRange ==
    ASSUME Typed, LruInRange, NEW p \in Page, Use(p)
    PROVE  /\ lru_of' \in [cached \cup {p} -> 0..(LRUMAX - 1)]
           /\ lru' \in 0..(LRUMAX - 1)
<1> DEFINE used == With(lru_of, p, lru)
<1>1. used \in [cached \cup {p} -> 0..(LRUMAX - 1)]
  BY WithFunction DEF LruInRange
<1>2. DOMAIN used = cached \cup {p} /\ DOMAIN used \subseteq Page
  BY <1>1 DEF Typed
<1>3. CASE LruWraps
  <2>1. lru_of' = Renumber(used) /\ lru' = Cardinality(DOMAIN used)
    BY <1>3 DEF Use
  <2> HIDE DEF used
  <2> QED BY <1>2, <2>1, RenumberInRange
<1>4. CASE ~LruWraps
  <2>1. lru_of' = used /\ lru' = lru + 1
    BY <1>4 DEF Use
  <2>2. lru + 1 # LRUMAX /\ lru \in 0..(LRUMAX - 1)
    BY <1>4 DEF LruWraps, LruInRange
  <2>3. lru' \in 0..(LRUMAX - 1)
    BY <2>1, <2>2, LruAssumption
  <2> QED BY <1>1, <2>1, <2>3
<1> QED BY <1>3, <1>4

LEMMA CleanupInRange ==
    ASSUME Typed, LruInRange, NEW s, Cleanup(s)
    PROVE  LruInRange'
<1>1. CASE Cardinality(cached) <= cache_high
  BY <1>1 DEF Cleanup, order, LruInRange, cached
<1>2. CASE ~(Cardinality(cached) <= cache_high)
  <2> DEFINE kept == cached \ Erased
             l    == [p \in kept |-> lru_of[p]]
  <2>1. /\ layout' = [p \in kept |-> layout[p]]
        /\ lru_of' = Renumber(l)
        /\ lru' = Cardinality(kept)
    BY <1>2 DEF Cleanup
  <2>2. DOMAIN l = kept /\ DOMAIN l \subseteq Page /\ cached' = kept
    BY <2>1 DEF Typed, cached
  <2> HIDE DEF l, kept
  <2>3. Renumber(l) \in [kept -> 0..(LRUMAX - 1)] /\ Cardinality(kept) \in 0..(LRUMAX - 1)
    BY <2>2, RenumberInRange
  <2> QED BY <2>1, <2>2, <2>3 DEF LruInRange
<1> QED BY <1>1, <1>2

\* A renumbering changes no order.
LEMMA RenumberKeepsOrder ==
    ASSUME NEW l, DOMAIN l \subseteq Page, \A p \in DOMAIN l : l[p] \in Nat,
           NEW n, NEW a, Ordered(l, n, a)
    PROVE  Ordered(Renumber(l), Cardinality(DOMAIN l), a)
<1> DEFINE D        == DOMAIN l
           Below(p) == {q \in D : l[q] < l[p]}
           new      == Renumber(l)
<1>1. IsFiniteSet(D)
  BY LruAssumption, FS_Subset
<1>2. DOMAIN new = D /\ \A p \in D : new[p] = Cardinality(Below(p))
  BY DEF Renumber
<1>3. ASSUME NEW p \in D
      PROVE  new[p] \in Nat /\ new[p] < Cardinality(D)
  <2>1. Below(p) \in SUBSET D /\ Below(p) # D
    OBVIOUS
  <2>2. /\ IsFiniteSet(Below(p))
        /\ Cardinality(Below(p)) <= Cardinality(D)
        /\ Cardinality(Below(p)) # Cardinality(D)
    BY <1>1, <2>1, FS_Subset
  <2>3. Cardinality(Below(p)) \in Nat /\ Cardinality(D) \in Nat
    BY <1>1, <2>2, FS_CardinalityType
  <2> QED BY <1>2, <2>2, <2>3
<1>4. ASSUME NEW p \in D, NEW q \in D, l[p] < l[q]
      PROVE  new[p] < new[q]
  <2>1. Below(p) \in SUBSET Below(q) /\ p \in Below(q) \ Below(p)
    BY <1>4
  <2>2. IsFiniteSet(Below(q))
    BY <1>1, FS_Subset
  <2>3. /\ Cardinality(Below(p)) <= Cardinality(Below(q))
        /\ Cardinality(Below(p)) # Cardinality(Below(q))
    BY <2>1, <2>2, FS_Subset
  <2> HIDE DEF Below, new
  <2> QED BY <1>2, <1>3, <2>3
<1>5. ASSUME NEW p \in D, NEW q \in D
      PROVE  (q \in a[p] <=> new[p] < new[q]) /\ (p # q => new[p] # new[q])
  <2> HIDE DEF new
  <2>1. new[p] \in Nat /\ new[q] \in Nat /\ l[p] \in Nat /\ l[q] \in Nat
    BY <1>3
  <2>2. (l[p] < l[q] => new[p] < new[q]) /\ (l[q] < l[p] => new[q] < new[p])
    BY <1>4
  <2>3. (q \in a[p] <=> l[p] < l[q]) /\ (p # q => l[p] # l[q])
    BY DEF Ordered
  <2>4. CASE p = q
    BY <2>1, <2>3, <2>4
  <2>5. CASE p # q
    BY <2>1, <2>2, <2>3, <2>5
  <2> QED BY <2>4, <2>5
<1> HIDE DEF new
<1>6. Ordered(new, Cardinality(D), a)
  BY <1>2, <1>3, <1>5 DEF Ordered
<1> QED BY <1>6 DEF new

LEMMA UseKeepsOrder ==
    ASSUME Typed, LruInRange, LruIsOrder, NEW p \in Page, Use(p)
    PROVE  LruIsOrder'
<1> DEFINE used == With(lru_of, p, lru)
<1>1. /\ used \in [cached \cup {p} -> 0..(LRUMAX - 1)]
      /\ used[p] = lru
      /\ \A q \in cached : q # p => used[q] = lru_of[q]
  BY WithFunction DEF LruInRange, With
<1>2. /\ after' \in [Page -> SUBSET Page]
      /\ after' = [q \in Page |-> IF q = p THEN {} ELSE after[q] \cup {p}]
  BY DEF Use, LruIsOrder
<1> HIDE DEF used
<1>3. lru \in Nat /\ \A q \in cached : lru_of[q] \in Nat /\ lru_of[q] < lru
  BY DEF LruInRange, LruIsOrder, Ordered
<1>4. Ordered(used, lru + 1, after')
  <2>1. \A q \in DOMAIN used : used[q] < lru + 1
    BY <1>1, <1>3
  <2>2. ASSUME NEW q \in DOMAIN used, NEW r \in DOMAIN used
        PROVE  (r \in after'[q] <=> used[q] < used[r]) /\ (q # r => used[q] # used[r])
    <3>1. q \in Page /\ r \in Page /\ q \in cached \cup {p} /\ r \in cached \cup {p}
      BY <1>1 DEF Typed
    <3>2. CASE q = p
      BY <1>1, <1>2, <1>3, <3>1, <3>2
    <3>3. CASE q # p /\ r = p
      BY <1>1, <1>2, <1>3, <3>1, <3>3
    <3>4. CASE q # p /\ r # p
      <4>1. (r \in after[q] <=> lru_of[q] < lru_of[r]) /\ (q # r => lru_of[q] # lru_of[r])
        BY <3>1, <3>4 DEF LruIsOrder, Ordered, LruInRange
      <4> QED BY <1>1, <1>2, <3>1, <3>4, <4>1
    <3> QED BY <3>2, <3>3, <3>4
  <2> QED BY <2>1, <2>2 DEF Ordered
<1>5. CASE LruWraps
  <2>1. lru_of' = Renumber(used) /\ lru' = Cardinality(DOMAIN used)
    BY <1>5 DEF Use, used
  <2>2. DOMAIN used \subseteq Page /\ \A q \in DOMAIN used : used[q] \in Nat
    BY <1>1 DEF Typed
  <2>3. Ordered(Renumber(used), Cardinality(DOMAIN used), after')
    BY <1>4, <2>2, RenumberKeepsOrder
  <2> QED BY <1>2, <2>1, <2>3 DEF LruIsOrder
<1>6. CASE ~LruWraps
  <2>1. lru_of' = used /\ lru' = lru + 1
    BY <1>6 DEF Use, used
  <2> QED BY <1>2, <1>4, <2>1 DEF LruIsOrder
<1> QED BY <1>5, <1>6

LEMMA CleanupKeepsOrder ==
    ASSUME Typed, LruInRange, LruIsOrder, NEW s, Cleanup(s)
    PROVE  LruIsOrder'
<1>1. CASE Cardinality(cached) <= cache_high
  BY <1>1 DEF Cleanup, order, LruIsOrder
<1>2. CASE ~(Cardinality(cached) <= cache_high)
  <2> DEFINE kept == cached \ Erased
             l    == [p \in kept |-> lru_of[p]]
  <2>1. lru_of' = Renumber(l) /\ lru' = Cardinality(kept) /\ after' = after
    BY <1>2 DEF Cleanup
  <2>2. /\ DOMAIN l = kept /\ kept \subseteq Page
        /\ \A p \in kept : l[p] \in Nat
    BY DEF Typed, LruInRange
  <2>3. Ordered(l, lru, after)
    BY DEF LruIsOrder, Ordered, LruInRange
  <2> HIDE DEF l, kept
  <2>4. Ordered(Renumber(l), Cardinality(kept), after)
    BY <2>2, <2>3, RenumberKeepsOrder
  <2> QED BY <2>1, <2>4 DEF LruIsOrder
<1> QED BY <1>1, <1>2

-------------------------------------------------------------------------------
(* The actions preserve the invariant. *)

LEMMA LoadStep ==
    ASSUME IInv, NEW p \in Page, Load(p), hdr' \in Page \cup {NoPage},
           UNCHANGED <<dirty, shot, deleted, data, pc, latest, torn>>
    PROVE  IInv'
<1>1. /\ layout' \in [cached \cup {p} -> Value]
      /\ cached' = cached \cup {p}
      /\ \A q \in cached : layout'[q] = layout[q]
      /\ p \notin cached => layout'[p] = data[p]
  BY LoadEffect DEF IInv
<1>2. snapshot' = snapshot
  BY DEF snapshot, shot
<1>3. Typed'
  BY <1>1, <1>2 DEF IInv, Typed, shot
<1>4. SnapshotIsCached'
  BY <1>1, <1>2 DEF IInv, SnapshotIsCached, shot
<1>5. Transparent'
  <2> SUFFICES ASSUME ~torn PROVE CleanIsOnDisk' /\ CachedIsLatest'
    BY DEF Transparent
  <2>1. CleanIsOnDisk /\ CachedIsLatest /\ snapshot \subseteq cached
    BY DEF IInv, Transparent, SnapshotIsCached
  <2>2. CleanIsOnDisk'
    BY <1>2, <2>1 DEF CleanIsOnDisk, Clean, shot
  <2>3. p \notin cached => data[p] = latest[p]
    BY <2>1 DEF CleanIsOnDisk, Clean, IInv, Typed
  <2>4. CachedIsLatest'
    BY <1>1, <2>1, <2>3 DEF CachedIsLatest
  <2> QED BY <2>2, <2>4
<1> QED BY <1>3, <1>4, <1>5 DEF IInv

LEMMA WloadStep ==
    ASSUME IInv, NEW p \in Page, NEW v \in Value, Wload(p, v)
    PROVE  IInv'
<1>1. layout' = With(layout, p, v)
  BY DEF Wload
<1>2. /\ With(layout, p, v) \in [cached \cup {p} -> Value]
      /\ With(layout, p, v)[p] = v
      /\ \A q \in cached : q # p => With(layout, p, v)[q] = layout[q]
  <2>1. layout \in [cached -> Value]
    BY DEF IInv, Typed
  <2> QED BY <2>1 DEF With
<1>3. cached' = cached \cup {p} /\ snapshot' = snapshot
  BY <1>1, <1>2 DEF cached, snapshot, Wload, shot
<1>4. Typed'
  BY <1>1, <1>2, <1>3 DEF IInv, Typed, Wload, shot
<1>5. SnapshotIsCached'
  BY <1>3 DEF IInv, SnapshotIsCached, Wload, shot
<1>6. Transparent'
  <2> SUFFICES ASSUME ~torn PROVE CleanIsOnDisk' /\ CachedIsLatest'
    BY DEF Transparent, Wload
  <2>1. CleanIsOnDisk /\ CachedIsLatest /\ latest \in [Page -> Value]
    BY DEF IInv, Transparent, Typed
  <2>2. CleanIsOnDisk'
    BY <1>3, <2>1 DEF CleanIsOnDisk, Clean, Wload, shot
  <2>3. CachedIsLatest'
    BY <1>1, <1>2, <1>3, <2>1 DEF CachedIsLatest, Wload, IInv, Typed
  <2> QED BY <2>2, <2>3
<1> QED BY <1>4, <1>5, <1>6 DEF IInv

LEMMA WalkCleanupStep ==
    ASSUME IInv, WalkCleanup
    PROVE  IInv'
<1>1. PICK kept \in SUBSET cached :
         /\ dirty \subseteq kept
         /\ layout' = [p \in kept |-> layout[p]]
         /\ deleted' = (deleted \cup (cached \ kept)) \cap snapshot
         /\ torn' = (torn \/ (cached \ kept) \cap snapshot # {})
  BY CleanupEffect DEF WalkCleanup, IInv
<1>2. cached' = kept /\ snapshot' = snapshot
  BY <1>1 DEF cached, snapshot, WalkCleanup, shot
<1>3. Typed'
  <2>1. layout' \in [kept -> Value]
    BY <1>1 DEF IInv, Typed
  <2>2. torn' \in BOOLEAN
    BY <1>1
  <2> QED BY <1>1, <1>2, <2>1, <2>2 DEF IInv, Typed, WalkCleanup, shot
<1>4. SnapshotIsCached'
  <2>1. ~torn' => ~torn /\ (cached \ kept) \cap snapshot = {}
    BY <1>1
  <2> QED BY <1>1, <1>2, <2>1 DEF IInv, SnapshotIsCached, WalkCleanup
<1>5. Transparent'
  <2>1. ~torn' => ~torn
    BY <1>1
  <2> QED BY <1>1, <1>2, <2>1 DEF IInv, Transparent, CleanIsOnDisk, CachedIsLatest, Clean,
                                  WalkCleanup, shot
<1> QED BY <1>3, <1>4, <1>5 DEF IInv

LEMMA SnapshotReleaseStep ==
    ASSUME IInv, SnapshotRelease
    PROVE  IInv' /\ torn' = torn
<1>1. PICK kept \in SUBSET cached :
         /\ dirty \subseteq kept
         /\ layout' = [p \in kept |-> layout[p]]
         /\ deleted' = (deleted \cup (cached \ kept)) \cap {}
         /\ torn' = (torn \/ (cached \ kept) \cap {} # {})
  BY CleanupEffect DEF SnapshotRelease, IInv
<1>2. cached' = kept /\ snapshot' = {} /\ deleted' = {}
  BY <1>1 DEF cached, snapshot, SnapshotRelease
<1>3. torn' = torn
  BY <1>1 DEF IInv, Typed
<1>4. Typed'
  <2>1. layout' \in [kept -> Value]
    BY <1>1 DEF IInv, Typed
  <2>2. copy' \in [snapshot' -> Value]
    BY <1>2 DEF SnapshotRelease, snapshot
  <2> QED BY <1>1, <1>2, <1>3, <2>1, <2>2 DEF IInv, Typed, SnapshotRelease
<1>5. SnapshotIsCached'
  BY <1>2 DEF SnapshotIsCached
<1>6. Transparent'
  BY <1>1, <1>2, <1>3 DEF IInv, Transparent, CleanIsOnDisk, CachedIsLatest, Clean, SnapshotRelease
<1> QED BY <1>3, <1>4, <1>5, <1>6 DEF IInv

LEMMA SnapshotCreateStep ==
    ASSUME IInv, SnapshotCreate
    PROVE  IInv'
<1>1. cached' = cached /\ snapshot' = dirty /\ snapshot = {}
  BY DEF cached, snapshot, SnapshotCreate, IInv, SnapshotIsCached
<1>2. Typed'
  <2>1. copy' \in [dirty -> Value]
    BY DEF SnapshotCreate, IInv, Typed
  <2> QED BY <1>1, <2>1 DEF IInv, Typed, SnapshotCreate
<1>3. SnapshotIsCached'
  BY <1>1 DEF IInv, SnapshotIsCached, Typed, SnapshotCreate
<1>4. Transparent'
  <2> SUFFICES ASSUME ~torn PROVE CleanIsOnDisk' /\ CachedIsLatest'
    BY DEF Transparent, SnapshotCreate
  <2>1. CleanIsOnDisk /\ CachedIsLatest /\ dirty \subseteq cached
    BY DEF IInv, Transparent, Typed
  <2>2. \A p \in dirty : copy'[p] = latest[p]
    BY <2>1 DEF SnapshotCreate, CachedIsLatest
  <2>3. \A p \in Page \ dirty : data[p] = latest[p]
    BY <1>1, <2>1 DEF CleanIsOnDisk, Clean
  <2>4. CleanIsOnDisk'
    BY <1>1, <2>2, <2>3 DEF CleanIsOnDisk, SnapshotCreate
  <2>5. CachedIsLatest'
    BY <1>1, <2>1 DEF CachedIsLatest, SnapshotCreate
  <2> QED BY <2>4, <2>5
<1> QED BY <1>2, <1>3, <1>4 DEF IInv

LEMMA SavePageStep ==
    ASSUME IInv, NEW p \in Page, SavePage(p)
    PROVE  IInv'
<1>1. copy' \in [snapshot -> Value] /\ (deleted = {} => copy' = copy)
  BY DEF SavePage, IInv, Typed
<1>2. cached' = cached /\ snapshot' = snapshot
  BY <1>1 DEF cached, snapshot, SavePage
<1>3. Typed'
  BY <1>1, <1>2 DEF IInv, Typed, SavePage
<1>4. SnapshotIsCached'
  BY <1>2 DEF IInv, SnapshotIsCached, SavePage
<1>5. Transparent'
  BY <1>1, <1>2 DEF IInv, Transparent, SnapshotIsCached, CleanIsOnDisk, CachedIsLatest, Clean,
                    SavePage
<1> QED BY <1>3, <1>4, <1>5 DEF IInv

LEMMA CommitStep ==
    ASSUME IInv, Commit
    PROVE  IInv'
<1>1. cached' = cached /\ snapshot' = snapshot
  BY DEF cached, snapshot, Commit, shot
<1>2. Typed'
  BY <1>1 DEF IInv, Typed, Commit, shot
<1>3. SnapshotIsCached'
  BY <1>1 DEF IInv, SnapshotIsCached, Commit
<1>4. Transparent'
  BY <1>1 DEF IInv, Transparent, CleanIsOnDisk, CachedIsLatest, Clean, Commit
<1> QED BY <1>2, <1>3, <1>4 DEF IInv

LEMMA WalkEndStep ==
    ASSUME IInv, WalkEnd
    PROVE  IInv'
BY DEF WalkEnd, IInv, Typed, SnapshotIsCached, Transparent, CleanIsOnDisk, CachedIsLatest, Clean,
       cached, snapshot, shot

-------------------------------------------------------------------------------
(* Theorems *)

LEMMA InitHolds == Init => IInv /\ LruInRange /\ LruIsOrder
<1> SUFFICES ASSUME Init PROVE IInv /\ LruInRange /\ LruIsOrder
  OBVIOUS
<1>1. cached = {} /\ snapshot = {}
  BY DEF Init, cached, snapshot
<1>2. Typed
  <2>1. layout \in [{} -> Value] /\ copy \in [{} -> Value]
    BY DEF Init
  <2>2. dirty = {} /\ saved = {} /\ deleted = {}
    BY DEF Init
  <2>3. data \in [Page -> Value] /\ latest \in [Page -> Value]
    BY DEF Init
  <2>4. pc = "idle" /\ hdr = NoPage /\ torn = FALSE
    BY DEF Init
  <2> QED BY <1>1, <2>1, <2>2, <2>3, <2>4 DEF Typed
<1>3. SnapshotIsCached /\ Transparent
  BY <1>1 DEF Init, SnapshotIsCached, Transparent, CleanIsOnDisk, CachedIsLatest
<1>4. LruInRange
  <2>1. 0 \in 0..(LRUMAX - 1)
    BY LruAssumption, FS_CardinalityType
  <2> QED BY <1>1, <2>1 DEF Init, LruInRange
<1>5. LruIsOrder
  BY DEF Init, LruIsOrder, Ordered
<1> QED BY <1>2, <1>3, <1>4, <1>5 DEF IInv

LEMMA NextHolds == IInv /\ [Next]_vars => IInv'
<1> SUFFICES ASSUME IInv, [Next]_vars PROVE IInv'
  OBVIOUS
<1>1. ASSUME NEW p \in Page, Rload(p) PROVE IInv'
  BY <1>1, LoadStep DEF Rload, IInv, Typed
<1>2. ASSUME NEW p \in Page, WalkTo(p) PROVE IInv'
  BY <1>2, LoadStep DEF WalkTo
<1>3. CASE UNCHANGED vars
  BY <1>3 DEF vars, IInv, Typed, SnapshotIsCached, Transparent, CleanIsOnDisk, CachedIsLatest,
              Clean, cached, snapshot, shot
<1> QED BY <1>1, <1>2, <1>3, WloadStep, WalkCleanupStep, WalkEndStep, SavePageStep,
           SnapshotCreateStep, CommitStep, SnapshotReleaseStep DEF Next

\* The cache is transparent as long as no page of the snapshot was deleted.
THEOREM Invariance == Spec => []IInv
<1> QED BY InitHolds, NextHolds, PTL DEF Spec

LEMMA LruStep == IInv /\ LruInRange /\ [Next]_vars => LruInRange'
<1> SUFFICES ASSUME IInv, LruInRange, [Next]_vars PROVE LruInRange'
  OBVIOUS
<1>1. ASSUME NEW p \in Page, Load(p) PROVE LruInRange'
  <2>1. cached' = cached \cup {p}
    BY <1>1, LoadEffect DEF IInv
  <2> QED BY <1>1, <2>1, UseInRange DEF Load, LruInRange, IInv
<1>2. ASSUME NEW p \in Page, NEW v \in Value, Wload(p, v) PROVE LruInRange'
  <2>1. cached' = cached \cup {p}
    BY <1>2 DEF Wload, With, cached
  <2> QED BY <1>2, <2>1, UseInRange DEF Wload, LruInRange, IInv
<1>3. CASE WalkCleanup \/ SnapshotRelease
  BY <1>3, CleanupInRange DEF WalkCleanup, SnapshotRelease, IInv
<1>4. CASE UNCHANGED <<layout, order>>
  BY <1>4 DEF order, LruInRange, cached
<1> QED BY <1>1, <1>2, <1>3, <1>4 DEF Next, Rload, WalkTo, WalkEnd, SavePage,
                                     SnapshotCreate, Commit, vars

LEMMA OrderStep == IInv /\ LruInRange /\ LruIsOrder /\ [Next]_vars => LruIsOrder'
<1> SUFFICES ASSUME IInv, LruInRange, LruIsOrder, [Next]_vars PROVE LruIsOrder'
  OBVIOUS
<1>1. ASSUME NEW p \in Page, Use(p) PROVE LruIsOrder'
  BY <1>1, UseKeepsOrder DEF IInv
<1>2. CASE WalkCleanup \/ SnapshotRelease
  BY <1>2, CleanupKeepsOrder DEF WalkCleanup, SnapshotRelease, IInv
<1>3. CASE UNCHANGED order
  BY <1>3 DEF order, LruIsOrder
<1> QED BY <1>1, <1>2, <1>3 DEF Next, Rload, Wload, WalkTo, Load, WalkEnd, SavePage,
                                SnapshotCreate, Commit, vars

\* Every variable keeps its type: lru never leaves its range, for any number of
\* pages and any width of the counter that can number them.
THEOREM TypeCorrect == Spec => []TypeOK
<1>1. IInv /\ LruInRange /\ LruIsOrder => TypeOK
  BY DEF IInv, Typed, LruInRange, LruIsOrder, TypeOK
<1> QED BY <1>1, InitHolds, NextHolds, LruStep, OrderStep, PTL DEF Spec

\* Readers of the cache see what was last written, whatever was evicted in the
\* meantime, unless a page was deleted under a checkpoint.
THEOREM ReadersSeeLastWrite == Spec => []ReadsLastWritten
<1>1. IInv => ReadsLastWritten
  <2> SUFFICES ASSUME IInv, ~torn, NEW p \in Page PROVE Loaded(p) = latest[p]
    BY DEF ReadsLastWritten
  <2>1. CASE p \in cached
    BY <2>1 DEF IInv, Transparent, CachedIsLatest, Loaded
  <2>2. CASE p \notin cached
    BY <2>2 DEF IInv, Typed, Transparent, SnapshotIsCached, CleanIsOnDisk, Clean, Loaded
  <2> QED BY <2>1, <2>2
<1> QED BY <1>1, Invariance, PTL

\* Only a cleanup of a walk during a checkpoint deletes pages of the snapshot.
THEOREM OnlyWalksTearSnapshots == Spec => OnlyWalksTear
<1>1. IInv /\ [Next]_vars => [torn' = torn \/ (pc # "idle" /\ hdr # NoPage)]_vars
  <2> SUFFICES ASSUME IInv, Next PROVE torn' = torn \/ (pc # "idle" /\ hdr # NoPage)
    OBVIOUS
  <2>1. CASE WalkCleanup
    <3>1. PICK kept \in SUBSET cached : torn' = (torn \/ (cached \ kept) \cap snapshot # {})
      BY <2>1, CleanupEffect DEF WalkCleanup, IInv
    <3>2. snapshot = {} => torn' = torn
      BY <3>1 DEF IInv, Typed
    <3> QED BY <2>1, <3>2 DEF WalkCleanup, IInv, SnapshotIsCached
  <2>2. CASE SnapshotRelease
    BY <2>2, SnapshotReleaseStep
  <2> QED BY <2>1, <2>2 DEF Next, Rload, Wload, WalkTo, WalkEnd, SavePage,
                            SnapshotCreate, Commit
<1> QED BY <1>1, Invariance, PTL DEF Spec, OnlyWalksTear

\* What cleanup() has not deleted when it deletes p, but for p itself, is dirty
\* or was used after p.
LEMMA CleanupDeletesLeastUsed ==
    ASSUME Typed, LruInRange, LruIsOrder, NEW s, Cleanup(s)
    PROVE  DeletesLeastUsed
<1> SUFFICES ASSUME NEW p \in cached \ cached'
             PROVE  /\ Clean(p)
                    /\ Cardinality(cached) > cache_high
                    /\ Cardinality((after[p] \cap cached) \cup (dirty \ {p})) >= cache_low
  BY DEF DeletesLeastUsed
<1> DEFINE older == {q \in cached : Clean(q) /\ lru_of[q] < lru_of[p]}
           kept  == (after[p] \cap cached) \cup (dirty \ {p})
<1>1. IsFiniteSet(cached) /\ Cardinality(cached) \in Nat /\ cache_high \in Nat
  BY LruAssumption, CacheAssumption, FS_Subset, FS_CardinalityType DEF Typed
<1>2. ~(Cardinality(cached) <= cache_high)
  BY DEF Cleanup, cached
<1>3. p \in Erased
  <2>1. layout' = [q \in cached \ Erased |-> layout[q]]
    BY <1>2 DEF Cleanup
  <2> QED BY <2>1 DEF cached
<1>4. Clean(p) /\ Cardinality(cached) - Cardinality(older) > cache_low
  BY <1>3 DEF Erased
<1>5. cached \ older \subseteq kept \cup {p}
  <2> SUFFICES ASSUME NEW q \in cached \ older, q # p, Clean(q)
               PROVE  q \in after[p]
    BY DEF Clean
  <2>1. ~(lru_of[q] < lru_of[p]) /\ lru_of[q] \in Nat /\ lru_of[p] \in Nat
    BY DEF LruInRange
  <2>2. (q \in after[p] <=> lru_of[p] < lru_of[q]) /\ lru_of[p] # lru_of[q]
    BY DEF LruIsOrder, Ordered, LruInRange
  <2> QED BY <2>1, <2>2
<1>6. Cardinality(kept) >= cache_low
  <2>1. older \subseteq cached /\ kept \subseteq cached
    BY DEF Typed
  <2>0. p \notin after[p]
    BY DEF LruIsOrder, Ordered, LruInRange
  <2> HIDE DEF older
  <2>2. /\ IsFiniteSet(older) /\ IsFiniteSet(kept)
        /\ Cardinality(older) \in Nat /\ Cardinality(kept) \in Nat
    BY <1>1, <2>1, FS_Subset, FS_CardinalityType
  <2>3. Cardinality(cached \ older) = Cardinality(cached) - Cardinality(older)
    <3>1. cached \cap older = older
      BY <2>1
    <3> QED BY <1>1, <3>1, FS_Difference
  <2>4. IsFiniteSet(kept \cup {p}) /\ Cardinality(kept \cup {p}) <= Cardinality(kept) + 1
    <3>1. p \notin kept
      BY <1>4, <2>0 DEF Clean
    <3>2. IsFiniteSet(kept \cup {p}) /\ Cardinality(kept \cup {p}) = Cardinality(kept) + 1
      BY <2>2, <3>1, FS_AddElement
    <3> QED BY <2>2, <3>2
  <2>5. Cardinality(cached \ older) <= Cardinality(kept \cup {p})
    BY <1>5, <2>4, FS_Subset
  <2>6. Cardinality(kept \cup {p}) \in Nat
    BY <2>4, FS_CardinalityType
  <2> QED BY <1>1, <1>4, <2>2, <2>3, <2>4, <2>5, <2>6, CacheAssumption
<1> QED BY <1>1, <1>2, <1>4, <1>6

\* A page is deleted only when it is clean, too many pages are cached, and
\* cache_low others are dirty or were used after it: the counter, its wraps
\* and its renumberings never turn the order of use round.
THEOREM RecentlyUsedAreKept == Spec => KeepsRecentlyUsed
<1>1. IInv /\ LruInRange /\ LruIsOrder /\ [Next]_vars => [DeletesLeastUsed]_vars
  <2> SUFFICES ASSUME IInv, LruInRange, LruIsOrder, Next PROVE DeletesLeastUsed
    OBVIOUS
  <2>1. CASE WalkCleanup \/ SnapshotRelease
    BY <2>1, CleanupDeletesLeastUsed DEF WalkCleanup, SnapshotRelease, IInv
  <2>2. ASSUME NEW p \in Page, Load(p) PROVE cached' = cached \cup {p}
    BY <2>2, LoadEffect DEF IInv
  <2>3. ASSUME NEW p \in Page, NEW v \in Value, Wload(p, v) PROVE cached' = cached \cup {p}
    BY <2>3 DEF Wload, With, cached
  <2>4. ASSUME UNCHANGED layout PROVE cached' = cached
    BY <2>4 DEF cached
  <2>5. cached \subseteq cached' => DeletesLeastUsed
    BY DEF DeletesLeastUsed
  <2> QED BY <2>1, <2>2, <2>3, <2>4, <2>5 DEF Next, Rload, WalkTo, WalkEnd, SavePage,
                                              SnapshotCreate, Commit
<1> QED BY <1>1, InitHolds, NextHolds, LruStep, OrderStep, PTL DEF Spec, KeepsRecentlyUsed

\* Of some pages, one has the lowest lru.
LEMMA OldestPage ==
    ASSUME NEW S, S # {}, \A p \in S : lru_of[p] \in Nat
    PROVE  \E p \in S : \A q \in S : ~(lru_of[q] < lru_of[p])
<1> DEFINE T == {lru_of[p] : p \in S}
<1>1. T \subseteq Nat /\ T # {}
  OBVIOUS
<1>2. IsWellFoundedOn(OpToRel(<, Nat), Nat)
  BY NatLessThanWellFounded
<1>3. \E x \in T : \A y \in T : ~(<<y, x>> \in OpToRel(<, Nat))
  BY <1>1, <1>2, WFMin
<1> QED BY <1>1, <1>3 DEF OpToRel

\* If a clean page is left, the oldest one was the last that cleanup() looked
\* at: all older pages are gone, and no more than cache_low are left.
LEMMA CleanupStopsAtLow ==
    ASSUME Typed, LruInRange, NEW s, Cleanup(s), Cardinality(cached) > cache_high
    PROVE  Cardinality(cached') <= cache_low \/ cached' \subseteq dirty
<1>1. IsFiniteSet(cached) /\ Cardinality(cached) \in Nat /\ cache_high \in Nat
  BY LruAssumption, CacheAssumption, FS_Subset, FS_CardinalityType DEF Typed
<1>2. cached' = cached \ Erased
  <2>1. layout' = [q \in cached \ Erased |-> layout[q]]
    BY <1>1 DEF Cleanup
  <2> QED BY <2>1 DEF cached
<1> DEFINE clean == {p \in cached \ Erased : Clean(p)}
<1>3. SUFFICES ASSUME clean # {} PROVE Cardinality(cached \ Erased) <= cache_low
  BY <1>2 DEF Clean
<1>4. PICK p \in clean : \A q \in clean : ~(lru_of[q] < lru_of[p])
  <2>1. \A p \in clean : lru_of[p] \in Nat
    BY DEF LruInRange
  <2> HIDE DEF clean
  <2> QED BY <1>3, <2>1, OldestPage
<1> DEFINE older == {q \in cached : Clean(q) /\ lru_of[q] < lru_of[p]}
<1>5. ~(Cardinality(cached) - Cardinality(older) > cache_low)
  BY DEF Erased
<1>6. cached \ Erased \subseteq cached \ older
  BY <1>4
<1>7. older \subseteq cached
  OBVIOUS
<1> HIDE DEF older
<1>8. IsFiniteSet(older) /\ Cardinality(older) \in Nat
  BY <1>1, <1>7, FS_Subset, FS_CardinalityType
<1>9. /\ IsFiniteSet(cached \ older)
      /\ Cardinality(cached \ older) = Cardinality(cached) - Cardinality(older)
  <2>1. cached \cap older = older
    BY <1>7
  <2> QED BY <1>1, <2>1, FS_Difference
<1>10. /\ Cardinality(cached \ Erased) <= Cardinality(cached \ older)
       /\ Cardinality(cached \ Erased) \in Nat
  BY <1>6, <1>9, FS_Subset, FS_CardinalityType
<1> QED BY <1>1, <1>5, <1>8, <1>9, <1>10, CacheAssumption

\* A cleanup of too large a cache leaves cache_low pages, or only dirty ones.
THEOREM CleanupsMakeRoom == Spec => CleanupMakesRoom
<1>1. IInv /\ LruInRange /\ [Next]_vars => [MakesRoom]_vars
  BY CleanupStopsAtLow DEF MakesRoom, WalkCleanup, SnapshotRelease, IInv
<1> QED BY <1>1, InitHolds, NextHolds, LruStep, PTL DEF Spec, CleanupMakesRoom
===============================================================================
