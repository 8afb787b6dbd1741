---------------------------- MODULE BTreeWalkProofs ----------------------------
(***************************************************************************)
(* Proofs about walks over the index (BTreeWalk): a walk misses nothing;   *)
(* and about sweeps (BTreeSweeps): an operation does what it is asked to.  *)
(*                                                                         *)
(* What is known of a walk under way is said with the bounds of the        *)
(* invariant of BTreeProofs.  The keys up to passed are done with; of the  *)
(* page where the walk is, the bounds say where the next key has to be.    *)
(***************************************************************************)
EXTENDS BTreeWalk, BTreeSweeps, BTreeProofs

\* The index has no key between a and b.
NoneIn(a, b) == \A x \in Contents : x <= a \/ b <= x

\* Where a walk may be.
Where(lo, hi) ==
    \/ walk = End /\ \A x \in Contents : x <= passed
    \/ \E p \in Live, k \in Key :
          /\ walk = [do |-> "great_equal_key", page |-> p, key |-> k]
          /\ lo[p] < k /\ k < hi[p] /\ passed = k - 1 /\ ~begun
    \/ \E p \in Live : walk = [do |-> "left_most", page |-> p] /\ lo[p] = passed
    \/ \E p \in Live : \E i \in Slots(p) : walk = At(p, i) /\ IsNext(key[p][i])
    \/ \E p \in Live :
          /\ walk = At(p, r_pos[p]) /\ Leaf(p) /\ ~begun
          /\ passed < hi[p] /\ NoneIn(passed, hi[p])
    \/ \E p \in Live :
          /\ walk = [do |-> "climb", page |-> p]
          /\ passed < hi[p] /\ NoneIn(passed, hi[p])

WalkOK(lo, hi) ==
    /\ passed \in Int /\ begun \in BOOLEAN
    /\ walk # Rest => job = Idle /\ Where(lo, hi)

\* The inductive invariant of a table with walks.
WInv == TypeOK /\ FreeOK /\ \E lo, hi, lv : Good(lo, hi, lv) /\ WalkOK(lo, hi)

\* Between two operations the keys of the index are those in its pages, and one
\* within the bounds of a leaf is in that leaf.
LEMMA KeysAtRest ==
    ASSUME NEW lo, NEW hi, NEW lv, TypeOK, Good(lo, hi, lv), job = Idle
    PROVE  /\ \A v \in Contents : v \in Int /\ 1 <= v /\ v <= MaxKey
           /\ \A v \in Contents : \A p \in Live :
                 lv[p] = 0 /\ lo[p] < v /\ v < hi[p] => Has(p, v)
  <1>1. \A v : ~Waiting(v)
    BY DEF Waiting, Idle
  <1>2. ASSUME NEW v \in Contents
        PROVE  \E x \in Live : \E i \in Slots(x) : key[x][i] = v
    BY <1>1, <1>2, InContents DEF Has
  <1>3. ASSUME NEW v \in Contents
        PROVE  v \in Int /\ 1 <= v /\ v <= MaxKey
    BY <1>2, LiveTyped, KeyAssumption
  <1>4. ASSUME NEW v \in Contents, NEW p \in Live, lv[p] = 0, lo[p] < v, v < hi[p]
        PROVE  Has(p, v)
    <2>1. PICK x \in Live : \E i \in Slots(x) : key[x][i] = v
      BY <1>2
    <2>2. PICK i \in Slots(x) : key[x][i] = v
      BY <2>1
    <2>3. CASE x = p
      BY <2>2, <2>3 DEF Has
    <2>4. CASE x # p
      <3>1. /\ lo[x] \in Int /\ hi[x] \in Int /\ lo[p] \in Int /\ hi[p] \in Int
            /\ lv[x] \in Nat /\ v \in Int
        BY <1>3, KeyAssumption DEF Good, GhostType
      <3>2. lo[x] < v /\ v < hi[x]
        BY <2>2 DEF Good, Keys
      <3>3. CASE lv[x] = 0
        <4>1. hi[x] <= lo[p] \/ hi[p] <= lo[x]
          BY <1>4, <2>4, <3>3 DEF Good, Apart
        <4> QED BY <1>4, <3>1, <3>2, <4>1
      <3>4. CASE lv[x] > 0
        <4>1. Outside(key[x][i], lo, hi, p)
          BY <1>4, <2>4, <3>1, <3>4 DEF Good, Apart
        <4> QED BY <1>4, <2>2, <3>1, <4>1 DEF Outside
      <3> QED BY <3>1, <3>3, <3>4
    <2> QED BY <2>3, <2>4
  <1> QED BY <1>3, <1>4

\* Slot i of leaf p has the next key, if there is none of the leaf between that
\* and what is passed.
LEMMA NextInLeaf ==
    ASSUME NEW lo, NEW hi, NEW lv, TypeOK, Good(lo, hi, lv), job = Idle,
           NEW p \in Live, lv[p] = 0, passed \in Int, lo[p] <= passed,
           NEW i \in Slots(p), passed < key[p][i],
           \A j \in Slots(p) : j < i => key[p][j] <= passed
    PROVE  IsNext(key[p][i])
  <1>1. \A j \in Slots(p) : key[p][j] \in Int /\ key[p][j] < hi[p] /\ j \in Int
    BY LiveTyped, KeyAssumption DEF Good, Keys, Slots
  <1>2. \A j, n \in Slots(p) : j < n => key[p][j] < key[p][n]
    BY DEF Good, Keys
  <1>3. lo[p] \in Int /\ hi[p] \in Int
    BY KeyAssumption DEF Good, GhostType
  <1>4. ASSUME NEW x \in Contents, passed < x, x < key[p][i]
        PROVE  FALSE
    <2>1. x \in Int /\ lo[p] < x /\ x < hi[p]
      BY <1>1, <1>3, <1>4, KeysAtRest
    <2>2. PICK j \in Slots(p) : key[p][j] = x
      BY <2>1, KeysAtRest DEF Has
    <2>3. ~(j < i) /\ ~(i < j) /\ j # i
      BY <1>1, <1>2, <1>4, <2>1, <2>2
    <2> QED BY <1>1, <2>3
  <1>5. \A x \in Contents : x <= passed \/ key[p][i] <= x
    <2>1. \A x \in Contents : x \in Int
      BY KeysAtRest
    <2> QED BY <1>1, <1>4, <2>1
  <1> QED BY <1>5 DEF IsNext

\* After the last slot of leaf p there is nothing more below its bound.
LEMMA NoneInLeaf ==
    ASSUME NEW lo, NEW hi, NEW lv, TypeOK, Good(lo, hi, lv), job = Idle,
           NEW p \in Live, lv[p] = 0, NEW n \in Int, lo[p] <= n,
           \A j \in Slots(p) : key[p][j] <= n
    PROVE  NoneIn(n, hi[p])
  <1>1. lo[p] \in Int /\ hi[p] \in Int /\ \A x \in Contents : x \in Int
    BY KeysAtRest, KeyAssumption DEF Good, GhostType
  <1>2. ASSUME NEW x \in Contents, n < x, x < hi[p]
        PROVE  FALSE
    <2>1. lo[p] < x
      BY <1>1, <1>2
    <2>2. PICK j \in Slots(p) : key[p][j] = x
      BY <1>2, <2>1, KeysAtRest DEF Has
    <2> QED BY <1>1, <1>2, <2>2
  <1> QED BY <1>1, <1>2 DEF NoneIn

\* The bounds of a page are numbers, and those of the root are beyond all keys.
LEMMA BeyondAll ==
    ASSUME NEW lo, NEW hi, NEW lv, TypeOK, Good(lo, hi, lv), job = Idle,
           passed \in Int, NoneIn(passed, hi[root])
    PROVE  \A x \in Contents : x <= passed
  <1>1. hi[root] = MaxKey + 1
    BY DEF Good, RootOK
  <1>2. \A x \in Contents : x \in Int /\ x <= MaxKey
    BY KeysAtRest
  <1> QED BY <1>1, <1>2, KeyAssumption DEF NoneIn

\* A walk starts below the first key, or below the one it was given.
LEMMA StartWalk ==
    ASSUME NEW lo, NEW hi, NEW lv, TypeOK, Good(lo, hi, lv),
           WalkAll \/ \E k \in Key : WalkFrom(k)
    PROVE  WalkOK(lo, hi)'
  <1>1. /\ root \in Live /\ lo[root] = 0 /\ hi[root] = MaxKey + 1
        /\ \A k \in Key : k \in Int /\ 0 < k /\ k < MaxKey + 1
    BY KeyAssumption DEF Good, RootOK, Key
  <1>2. job = Idle /\ job' = job /\ Live' = Live /\ begun' \in BOOLEAN /\ ~begun'
    BY DEF WalkAll, WalkFrom, Start, vars, pages, Live, Free
  <1>3. CASE WalkAll
    <2>1. walk' = [do |-> "left_most", page |-> root] /\ passed' = 0
      BY <1>3 DEF WalkAll, Start
    <2>2. Where(lo, hi)'
      BY <1>1, <1>2, <2>1 DEF Where
    <2> QED BY <1>2, <2>1, <2>2 DEF WalkOK
  <1>4. ASSUME NEW k \in Key, WalkFrom(k)
        PROVE  WalkOK(lo, hi)'
    <2>1. walk' = [do |-> "great_equal_key", page |-> root, key |-> k] /\ passed' = k - 1
      BY <1>4 DEF WalkFrom, Start
    <2>2. Where(lo, hi)'
      BY <1>1, <1>2, <2>1 DEF Where
    <2> QED BY <1>1, <1>2, <2>1, <2>2 DEF WalkOK
  <1> QED BY <1>3, <1>4

\* The search for the key to start from keeps within the bounds of the page, and
\* where it ends nothing has been missed.
LEMMA GreatEqualKeyGoesOn ==
    ASSUME NEW lo, NEW hi, NEW lv, TypeOK, Good(lo, hi, lv), WalkOK(lo, hi), GreatEqualKey
    PROVE  WalkOK(lo, hi)'
  <1>1. walk.do = "great_equal_key" /\ walk # Rest /\ walk # End
    BY DEF GreatEqualKey, Rest, End
  <1>2. PICK p \in Live, k \in Key :
           /\ walk = [do |-> "great_equal_key", page |-> p, key |-> k]
           /\ lo[p] < k /\ k < hi[p] /\ passed = k - 1 /\ ~begun
    BY <1>1 DEF WalkOK, Where, At
  <1>3. walk.page = p /\ walk.key = k
    BY <1>2
  <1>4. PICK i \in l_pos[p]..r_pos[p] :
           /\ EndsAt(p, k, i)
           /\ \/ Found(p, k, i) /\ walk' = At(p, i)
              \/ ~Found(p, k, i) /\ ~Leaf(p) /\ walk' = [walk EXCEPT !.page = kid[p][i]]
              \/ ~Found(p, k, i) /\ Leaf(p) /\ walk' = SlotOf(p, i)
    BY <1>3 DEF GreatEqualKey
  <1>5. UNCHANGED vars /\ passed' = passed /\ begun' = begun /\ job = Idle
    BY <1>1 DEF GreatEqualKey, WalkOK
  <1>6. /\ k \in Int /\ lo[p] \in Int /\ hi[p] \in Int /\ lo[p] <= passed /\ passed < hi[p]
        /\ \A x \in Contents : x \in Int
        /\ \A j \in Slots(p) : key[p][j] \in Int /\ key[p][j] < hi[p] /\ j \in Int
        /\ i \in Int /\ l_pos[p] \in Int /\ r_pos[p] \in Int
    BY <1>2, <1>5, KeysAtRest, LiveTyped, KeyAssumption DEF Good, GhostType, Keys, Key, Slots
  <1>7. SUFFICES Where(lo, hi)'
    BY <1>5, Untouched DEF WalkOK
  <1>8. CASE Found(p, k, i) /\ walk' = At(p, i)
    <2>1. i \in Slots(p) /\ key[p][i] = k
      BY <1>6, <1>8 DEF Found, Slots
    <2>2. IsNext(key[p][i])
      BY <1>2, <1>6, <2>1 DEF IsNext
    <2>3. IsNext(key[p][i])'
      BY <1>5, <2>2, Untouched DEF IsNext
    <2>4. p \in Live' /\ i \in Slots(p)' /\ walk' = At(p, i)
      BY <1>5, <1>8, <2>1, Untouched
    <2> QED BY <2>3, <2>4 DEF Where, At
  <1>9. CASE ~Found(p, k, i) /\ ~Leaf(p) /\ walk' = [walk EXCEPT !.page = kid[p][i]]
    <2>1. PICK c : c = kid[p][i]
      OBVIOUS
    <2>2. walk' = [do |-> "great_equal_key", page |-> c, key |-> k]
      BY <1>2, <1>9, <2>1
    <2>3. c \in Live /\ lo[c] = LoAt(lo, p, i) /\ hi[c] = HiAt(hi, p, i)
      BY <1>5, <1>9, <2>1, ChildBounds DEF Positions, Idle
    <2>4. /\ \A j \in Slots(p) : j < i => key[p][j] < k
          /\ \A j \in Slots(p) : j >= i => k < key[p][j]
      BY <1>4, <1>9, Searched
    <2>5. lo[c] < k
      <3>1. i # l_pos[p] => i - 1 \in Slots(p) /\ i - 1 < i
        BY <1>6 DEF Slots
      <3> QED BY <1>2, <2>3, <2>4, <3>1 DEF LoAt
    <2>6. k < hi[c]
      <3>1. i # r_pos[p] => i \in Slots(p) /\ i >= i
        BY <1>6 DEF Slots
      <3> QED BY <1>2, <2>3, <2>4, <3>1 DEF HiAt
    <2> QED BY <1>2, <1>5, <2>2, <2>3, <2>5, <2>6, Untouched DEF Where
  <1>10. CASE ~Found(p, k, i) /\ Leaf(p) /\ walk' = SlotOf(p, i)
    <2>1. lv[p] = 0
      BY <1>5, <1>10, AtRest
    <2>2. /\ \A j \in Slots(p) : j < i => key[p][j] < k
          /\ \A j \in Slots(p) : j >= i => k < key[p][j]
      BY <1>4, <1>10, Searched
    <2>3. \A j \in Slots(p) : j < i => key[p][j] <= passed
      BY <1>2, <1>6, <2>2
    <2>4. CASE i < r_pos[p]
      <3>1. i \in Slots(p) /\ passed < key[p][i]
        BY <1>2, <1>6, <2>2, <2>4 DEF Slots
      <3>2. IsNext(key[p][i])
        BY <1>5, <1>6, <2>1, <2>3, <3>1, NextInLeaf DEF WalkOK
      <3>3. walk' = At(p, i)
        BY <1>6, <1>10, <2>4 DEF SlotOf
      <3>4. IsNext(key[p][i])' /\ p \in Live' /\ i \in Slots(p)'
        BY <1>5, <3>1, <3>2, Untouched DEF IsNext
      <3> QED BY <3>3, <3>4 DEF Where
    <2>5. CASE i = r_pos[p]
      <3>1. \A j \in Slots(p) : key[p][j] <= passed
        BY <2>3, <2>5, <1>6 DEF Slots
      <3>2. NoneIn(passed, hi[p])
        BY <1>5, <1>6, <2>1, <3>1, NoneInLeaf DEF WalkOK
      <3>3. CASE p = root
        <4>1. \A x \in Contents : x <= passed
          BY <1>5, <3>2, <3>3, BeyondAll DEF WalkOK
        <4>2. walk' = End
          BY <1>10, <2>5, <3>3 DEF SlotOf
        <4> QED BY <1>5, <4>1, <4>2, Untouched DEF Where
      <3>4. CASE p # root
        <4>1. walk' = At(p, r_pos'[p])
          BY <1>5, <1>10, <2>5, <3>4, Untouched DEF SlotOf
        <4>2. NoneIn(passed, hi[p])' /\ p \in Live' /\ Leaf(p)' /\ ~begun' /\ passed' < hi[p]
          BY <1>2, <1>5, <1>6, <1>10, <3>2, Untouched DEF NoneIn
        <4> QED BY <4>1, <4>2 DEF Where
      <3> QED BY <3>3, <3>4
    <2> QED BY <1>6, <2>4, <2>5
  <1> QED BY <1>4, <1>8, <1>9, <1>10

\* On the way down to the leftmost leaf the lower bound stays.
LEMMA LeftMostGoesOn ==
    ASSUME NEW lo, NEW hi, NEW lv, TypeOK, Good(lo, hi, lv), WalkOK(lo, hi), LeftMost
    PROVE  WalkOK(lo, hi)'
  <1>1. walk.do = "left_most" /\ walk # Rest /\ walk # End
    BY DEF LeftMost, Rest, End
  <1>2. PICK p \in Live : walk = [do |-> "left_most", page |-> p] /\ lo[p] = passed
    BY <1>1 DEF WalkOK, Where, At
  <1>3. walk.page = p
    BY <1>2
  <1>4. UNCHANGED vars /\ passed' = passed /\ begun' = begun /\ job = Idle
    BY <1>1 DEF LeftMost, WalkOK
  <1>5. SUFFICES Where(lo, hi)'
    BY <1>4, Untouched DEF WalkOK
  <1>6. l_pos[p] \in Int /\ r_pos[p] \in Int /\ l_pos[p] <= r_pos[p]
    BY LiveTyped
  <1>7. CASE ~Leaf(p)
    <2>1. PICK c : c = kid[p][l_pos[p]]
      OBVIOUS
    <2>2. walk' = [do |-> "left_most", page |-> c]
      BY <1>2, <1>3, <1>7, <2>1 DEF LeftMost
    <2>3. c \in Live /\ lo[c] = passed
      <3>1. l_pos[p] \in Positions(p)
        BY <1>6 DEF Positions
      <3> QED BY <1>2, <1>4, <1>7, <2>1, <3>1, ChildBounds DEF LoAt, Idle
    <2> QED BY <1>4, <2>2, <2>3, Untouched DEF Where
  <1>8. CASE Leaf(p)
    <2>1. lv[p] = 0
      BY <1>4, <1>8, AtRest
    <2>2. CASE size(p) > 0
      <3>1. l_pos[p] \in Slots(p) /\ \A j \in Slots(p) : ~(j < l_pos[p])
        BY <1>6, <2>2 DEF size, Slots
      <3>2. passed < key[p][l_pos[p]]
        BY <1>2, <3>1 DEF Good, Keys
      <3>3. IsNext(key[p][l_pos[p]])
        BY <1>2, <1>4, <2>1, <3>1, <3>2, NextInLeaf DEF WalkOK
      <3>4. walk' = At(p, l_pos[p])
        BY <1>3, <1>8, <2>2 DEF LeftMost
      <3>5. IsNext(key[p][l_pos[p]])' /\ p \in Live' /\ l_pos[p] \in Slots(p)'
        BY <1>4, <3>1, <3>3, Untouched DEF IsNext
      <3> QED BY <1>4, <3>4, <3>5, Untouched DEF Where
    <2>3. CASE ~(size(p) > 0)
      <3>1. p = root
        BY <1>4, <1>6, <2>3, AtRest, Sizes DEF size
      <3>2. Slots(p) = {}
        BY <1>6, <2>3 DEF size, Slots
      <3>3. NoneIn(passed, hi[p])
        BY <1>2, <1>4, <2>1, <3>2, NoneInLeaf DEF WalkOK
      <3>4. \A x \in Contents : x <= passed
        BY <1>4, <3>1, <3>3, BeyondAll DEF WalkOK
      <3>5. walk' = End
        BY <1>3, <1>8, <2>3 DEF LeftMost
      <3> QED BY <1>4, <3>4, <3>5, Untouched DEF Where
    <2> QED BY <2>2, <2>3
  <1> QED BY <1>7, <1>8

\* From a slot that is delivered, the next key is below its right link, in the
\* slot beside it, or above the leaf.
LEMMA DeliverGoesOn ==
    ASSUME NEW lo, NEW hi, NEW lv, TypeOK, Good(lo, hi, lv), WalkOK(lo, hi), Deliver
    PROVE  WalkOK(lo, hi)'
  <1>1. walk.do = "at" /\ walk # Rest /\ walk # End
    BY DEF Deliver, Rest, End
  <1>2. PICK p \in Live : walk.page = p
    BY <1>1 DEF WalkOK, Where, At
  <1>3. PICK i : i = walk.pos
    OBVIOUS
  <1>4. \/ i \in Slots(p) /\ IsNext(key[p][i])
        \/ /\ i = r_pos[p] /\ Leaf(p) /\ ~begun
           /\ passed < hi[p] /\ NoneIn(passed, hi[p])
    BY <1>1, <1>2, <1>3 DEF WalkOK, Where, At
  <1>5. /\ UNCHANGED vars /\ begun' = TRUE /\ job = Idle
        /\ passed' = (IF i < r_pos[p] THEN key[p][i] ELSE passed)
        /\ walk' = Rest \/ GoOn(p, i)
    BY <1>1, <1>2, <1>3 DEF Deliver, WalkOK
  <1>6. /\ l_pos[p] \in Int /\ r_pos[p] \in Int /\ l_pos[p] <= r_pos[p]
        /\ lo[p] \in Int /\ hi[p] \in Int
        /\ \A j \in Slots(p) : key[p][j] \in Int /\ j \in Int
    BY LiveTyped, KeyAssumption DEF Good, GhostType, Slots
  <1>7. CASE i \in Slots(p)
    <2>1. PICK n : n = key[p][i]
      OBVIOUS
    <2>2. passed' = n /\ n \in Int /\ lo[p] < n /\ n < hi[p]
      <3>1. i < r_pos[p]
        BY <1>7, <1>6 DEF Slots
      <3> QED BY <1>5, <1>6, <1>7, <2>1, <3>1 DEF Good, Keys
    <2>3. SUFFICES ASSUME GoOn(p, i) PROVE Where(lo, hi)'
      BY <1>5, <2>2, Untouched DEF WalkOK
    <2>4. i \in Int /\ i + 1 \in Positions(p) /\ i + 1 # l_pos[p]
      BY <1>6, <1>7 DEF Slots, Positions
    <2>5. CASE ~Leaf(p)
      <3>1. PICK m \in Positions(p) : m = i + 1 /\ m # l_pos[p] /\ m - 1 = i
        BY <2>4
      <3>2. PICK c : c = kid[p][m]
        OBVIOUS
      <3>3. walk' = [do |-> "left_most", page |-> c]
        BY <2>3, <2>5, <3>1, <3>2 DEF GoOn
      <3>4. c \in Live /\ lo[c] = LoAt(lo, p, m)
        BY <1>5, <2>5, <3>2, ChildBounds DEF Idle
      <3>5. LoAt(lo, p, m) = n
        BY <2>1, <3>1 DEF LoAt
      <3> QED BY <1>5, <2>2, <3>3, <3>4, <3>5, Untouched DEF Where
    <2>6. CASE Leaf(p) /\ i + 1 < r_pos[p]
      <3>1. lv[p] = 0 /\ i + 1 \in Slots(p)
        BY <1>5, <1>6, <1>7, <2>6, AtRest DEF Slots
      <3>2. n < key[p][i + 1] /\ key[p][i + 1] < hi[p]
        BY <1>6, <1>7, <2>1, <3>1 DEF Good, Keys
      <3>3. \A x \in Contents : x <= n \/ key[p][i + 1] <= x
        <4>1. SUFFICES ASSUME NEW x \in Contents, n < x, x < key[p][i + 1] PROVE FALSE
          <5>1. \A x \in Contents : x \in Int
            BY <1>5, KeysAtRest
          <5> QED BY <1>6, <2>2, <3>1, <5>1
        <4>2. x \in Int /\ lo[p] < x /\ x < hi[p]
          BY <1>5, <1>6, <2>2, <3>1, <3>2, <4>1, KeysAtRest
        <4>3. PICK j \in Slots(p) : key[p][j] = x
          BY <1>5, <3>1, <4>2, KeysAtRest DEF Has
        <4>4. ~(j < i) /\ j # i /\ ~(i + 1 < j) /\ j # i + 1
          <5>1. \A a, b \in Slots(p) : a < b => key[p][a] < key[p][b]
            BY DEF Good, Keys
          <5> QED BY <1>6, <1>7, <2>1, <3>1, <4>1, <4>2, <4>3, <5>1
        <4> QED BY <1>6, <1>7, <4>3, <4>4
      <3>4. IsNext(key[p][i + 1])'
        BY <1>5, <2>2, <3>2, <3>3, Untouched DEF IsNext
      <3>5. walk' = At(p, i + 1)
        BY <2>3, <2>6, <1>6, <1>7 DEF GoOn
      <3> QED BY <1>5, <3>1, <3>4, <3>5, Untouched DEF Where
    <2>7. CASE Leaf(p) /\ i + 1 >= r_pos[p]
      <3>1. lv[p] = 0
        BY <1>5, <2>7, AtRest
      <3>2. \A j \in Slots(p) : key[p][j] <= n
        <4>1. \A j \in Slots(p) : j = i \/ j < i
          BY <1>6, <1>7, <2>7 DEF Slots
        <4>2. \A a, b \in Slots(p) : a < b => key[p][a] < key[p][b]
          BY DEF Good, Keys
        <4> QED BY <1>6, <1>7, <2>1, <2>2, <4>1, <4>2
      <3>3. NoneIn(n, hi[p])
        BY <1>5, <1>6, <2>2, <3>1, <3>2, NoneInLeaf
      <3>4. NoneIn(passed, hi[p])' /\ passed' < hi[p]
        BY <1>5, <2>2, <3>3, Untouched DEF NoneIn
      <3>5. walk' = [do |-> "climb", page |-> p]
        BY <2>3, <2>7, <1>6, <1>7 DEF GoOn
      <3> QED BY <1>5, <3>4, <3>5, Untouched DEF Where
    <2> QED BY <1>6, <1>7, <2>5, <2>6, <2>7
  <1>8. CASE i = r_pos[p] /\ Leaf(p) /\ passed < hi[p] /\ NoneIn(passed, hi[p])
    <2>1. passed' = passed /\ passed \in Int
      BY <1>5, <1>6, <1>8 DEF WalkOK
    <2>2. SUFFICES ASSUME GoOn(p, i) PROVE Where(lo, hi)'
      BY <1>5, <2>1, Untouched DEF WalkOK
    <2>3. walk' = [do |-> "climb", page |-> p]
      BY <1>6, <1>8, <2>2 DEF GoOn
    <2>4. NoneIn(passed, hi[p])' /\ passed' < hi[p]
      BY <1>5, <1>8, <2>1, Untouched DEF NoneIn
    <2> QED BY <1>5, <2>3, <2>4, Untouched DEF Where
  <1> QED BY <1>4, <1>7, <1>8

\* On the way up the upper bound is the key of the slot to the right of the link,
\* or that of the page above.
LEMMA ClimbGoesOn ==
    ASSUME NEW lo, NEW hi, NEW lv, TypeOK, Good(lo, hi, lv), WalkOK(lo, hi), Climb
    PROVE  WalkOK(lo, hi)'
  <1>1. walk.do = "climb" /\ walk # Rest /\ walk # End
    BY DEF Climb, Rest, End
  <1>2. PICK p \in Live : /\ walk = [do |-> "climb", page |-> p]
                          /\ passed < hi[p] /\ NoneIn(passed, hi[p])
    BY <1>1 DEF WalkOK, Where, At
  <1>3. walk.page = p
    BY <1>2
  <1>4. UNCHANGED vars /\ passed' = passed /\ begun' = begun /\ job = Idle
    BY <1>1 DEF Climb, WalkOK
  <1>5. SUFFICES Where(lo, hi)'
    BY <1>4, Untouched DEF WalkOK
  <1>6. CASE parent_index[p] = 0
    <2>1. p = root
      BY <1>4, <1>6, AtRest DEF UpAt
    <2>2. \A x \in Contents : x <= passed
      BY <1>2, <1>4, <2>1, BeyondAll DEF WalkOK
    <2>3. walk' = End
      BY <1>3, <1>6 DEF Climb
    <2> QED BY <1>4, <2>2, <2>3, Untouched DEF Where
  <1>7. CASE parent_index[p] # 0
    <2>1. PICK q, i : q = parent_index[p] /\ i = parent_pos[p]
      OBVIOUS
    <2>2. q \in Live /\ i \in Positions(q) /\ kid[q][i] = p /\ lv[q] = lv[p] + 1
      BY <1>4, <1>7, <2>1, AtRest DEF UpAt
    <2>3. hi[p] = HiAt(hi, q, i)
      <3>1. DownAt(q, lo, hi, lv) /\ lv[p] \in Nat
        BY <1>4, <2>2, AtRest
      <3> QED BY <2>1, <2>2, <3>1 DEF DownAt
    <2>4. l_pos[q] \in Int /\ r_pos[q] \in Int /\ i \in Int /\ l_pos[q] <= i /\ i <= r_pos[q]
      BY <2>2, LiveTyped DEF Positions
    <2>5. CASE i < r_pos[q]
      <3>1. i \in Slots(q) /\ hi[p] = key[q][i]
        BY <2>3, <2>4, <2>5 DEF Slots, HiAt
      <3>2. IsNext(key[q][i])'
        BY <1>2, <1>4, <3>1, Untouched DEF IsNext, NoneIn
      <3>3. walk' = At(q, i)
        BY <1>3, <1>7, <2>1, <2>4, <2>5 DEF Climb
      <3> QED BY <1>4, <2>2, <3>1, <3>2, <3>3, Untouched DEF Where
    <2>6. CASE i >= r_pos[q]
      <3>1. hi[p] = hi[q]
        BY <2>3, <2>4, <2>6 DEF HiAt
      <3>2. walk' = [do |-> "climb", page |-> q]
        BY <1>2, <1>3, <1>7, <2>1, <2>4, <2>6 DEF Climb
      <3>3. NoneIn(passed, hi[q])' /\ passed' < hi[q]
        BY <1>2, <1>4, <3>1, Untouched DEF NoneIn
      <3> QED BY <1>4, <2>2, <3>2, <3>3, Untouched DEF Where
    <2> QED BY <2>4, <2>5, <2>6
  <1> QED BY <1>6, <1>7

\* Every step keeps the invariant: an operation runs only while no walk does.
LEMMA WalkNextInv == WInv /\ [WalkNext]_<<vars, walkVars>> => WInv'
  <1>1. SUFFICES ASSUME WInv, [WalkNext]_<<vars, walkVars>> PROVE WInv'
    OBVIOUS
  <1>2. PICK lo, hi, lv : TypeOK /\ FreeOK /\ Good(lo, hi, lv) /\ WalkOK(lo, hi)
    BY <1>1 DEF WInv
  <1>3. CASE walk = Rest /\ Next /\ UNCHANGED walkVars
    <2>1. IInv'
      BY <1>2, <1>3, NextInv DEF IInv
    <2>2. walk' = Rest /\ passed' = passed /\ begun' = begun
      BY <1>3 DEF walkVars
    <2>3. \A a, b : WalkOK(a, b)'
      BY <1>2, <2>2 DEF WalkOK
    <2> QED BY <2>1, <2>3 DEF IInv, WInv
  <1>4. SUFFICES ASSUME WalkStep \/ UNCHANGED <<vars, walkVars>> PROVE WalkOK(lo, hi)'
    <2>1. SUFFICES ASSUME WalkStep \/ UNCHANGED <<vars, walkVars>> PROVE WInv'
      BY <1>1, <1>3 DEF WalkNext
    <2>2. UNCHANGED vars
      BY <2>1 DEF WalkStep, WalkAll, WalkFrom, Start, GreatEqualKey, LeftMost, Deliver, Climb, Ends
    <2> QED BY <1>2, <1>4, <2>1, <2>2, Standstill DEF WInv
  <1>5. CASE UNCHANGED <<vars, walkVars>>
    <2>1. UNCHANGED vars /\ walk' = walk /\ passed' = passed /\ begun' = begun
      BY <1>5 DEF walkVars
    <2> QED BY <1>2, <2>1, Untouched DEF WalkOK, Where, NoneIn, IsNext
  <1>6. CASE WalkAll
    BY <1>2, <1>6, StartWalk
  <1>7. ASSUME NEW k \in Key, WalkFrom(k) PROVE WalkOK(lo, hi)'
    BY <1>2, <1>7, StartWalk
  <1>8. CASE GreatEqualKey
    BY <1>2, <1>8, GreatEqualKeyGoesOn
  <1>9. CASE LeftMost
    BY <1>2, <1>9, LeftMostGoesOn
  <1>10. CASE Deliver
    BY <1>2, <1>10, DeliverGoesOn
  <1>11. CASE Climb
    BY <1>2, <1>11, ClimbGoesOn
  <1>12. CASE Ends
    BY <1>2, <1>12 DEF Ends, WalkOK
  <1> QED BY <1>4, <1>5, <1>6, <1>7, <1>8, <1>9, <1>10, <1>11, <1>12 DEF WalkStep

\* The index stays sound, and so does a walk, whatever operations came before.
LEMMA WalkSound == WalkSpec => []WInv
  <1>1. WalkInit => WInv
    <2>1. SUFFICES ASSUME WalkInit PROVE WInv
      OBVIOUS
    <2>2. IInv
      BY <2>1, InitInv DEF WalkInit
    <2>3. walk = Rest /\ passed = 0 /\ begun \in BOOLEAN
      BY <2>1 DEF WalkInit
    <2>4. \A a, b : WalkOK(a, b)
      BY <2>3 DEF WalkOK
    <2> QED BY <2>2, <2>4 DEF IInv, WInv
  <1> QED BY <1>1, WalkNextInv, PTL DEF WalkSpec

\* A walk (walk and next of znet/common/db.h) from any key, present or not,
\* delivers the keys from there on, each once and in order, and ends only when
\* there are no more; all it can deliver besides is one stale record, first.
THEOREM WalksMissNothing == WalkSpec => []WalkMissesNothing
  <1>1. WInv => WalkMissesNothing
    <2>1. SUFFICES ASSUME WInv PROVE WalkMissesNothing
      OBVIOUS
    <2>2. PICK lo, hi, lv : TypeOK /\ WalkOK(lo, hi)
      BY <2>1 DEF WInv
    <2>3. ASSUME walk = End
          PROVE  \A x \in Contents : x <= passed
      <3>1. walk # Rest /\ walk.do = "end"
        BY <2>3 DEF End, Rest
      <3> QED BY <2>2, <2>3, <3>1 DEF WalkOK, Where, At
    <2>4. ASSUME walk.do = "at"
          PROVE  IF walk.pos < r_pos[walk.page] THEN IsNext(key[walk.page][walk.pos]) ELSE ~begun
      <3>1. walk # Rest /\ walk # End
        BY <2>4 DEF End, Rest
      <3>2. PICK p \in Live : walk.page = p
        BY <2>2, <2>4, <3>1 DEF WalkOK, Where, At
      <3>3. PICK i : i = walk.pos
        OBVIOUS
      <3>4. \/ i \in Slots(p) /\ IsNext(key[p][i])
            \/ i = r_pos[p] /\ ~begun
        BY <2>2, <2>4, <3>1, <3>2, <3>3 DEF WalkOK, Where, At
      <3>5. (i \in Slots(p) => i < r_pos[p]) /\ ~(r_pos[p] < r_pos[p])
        BY <2>2, LiveTyped DEF Slots
      <3> QED BY <3>2, <3>3, <3>4, <3>5
    <2> QED BY <2>3, <2>4 DEF WalkMissesNothing
  <1> QED BY <1>1, WalkSound, PTL

\* All that is proved of the index holds of a table with walks.
LEMMA WalksChangeNothing == WalkSpec => Spec
  <1>1. [WalkNext]_<<vars, walkVars>> => [Next]_vars
    BY DEF WalkNext, WalkStep, WalkAll, WalkFrom, Start, GreatEqualKey, LeftMost, Deliver,
           Climb, Ends
  <1> QED BY <1>1, PTL DEF WalkSpec, WalkInit, Spec

-------------------------------------------------------------------------------
(* Sweeps: every operation does what was asked of it.                      *)

\* What the index will hold when the operation is over.
Due == IF job.do = "find_key" /\ job.op = "put" THEN Contents \cup {job.key}
       ELSE IF job.do \in {"find_key", "remove_internal"} THEN Contents \ {job.key}
       ELSE Contents

\* A call leaves it to that: the search for the key and its removal from a leaf
\* far below agree on the key, and what comes after neither adds nor removes one.
LEMMA CallSettles ==
    ASSUME NEW lo, NEW hi, NEW lv, TypeOK, FreeOK, Good(lo, hi, lv), Call
    PROVE  Due' = Due
  <1>1. CASE FindKey \/ FindRightMost \/ GoRightMost
    <2>1. Contents' = Contents
      BY <1>1, SearchRefines
    <2>2. CASE FindKey
      <3>1. PICK op \in {"put", "del"}, k \in Key, p \in Live :
               job = [do |-> "find_key", op |-> op, key |-> k, page |-> p]
        BY <2>2, SearchJob DEF FindKey, Good
      <3>2. job.do = "find_key" /\ job.op = op /\ job.key = k
        BY <3>1
      <3>3. PICK x : job' = [job EXCEPT !.page = x]
        BY <2>2 DEF FindKey
      <3>4. job' = [do |-> "find_key", op |-> op, key |-> k, page |-> x]
        BY <3>1, <3>3
      <3>5. job'.do = "find_key" /\ job'.op = op /\ job'.key = k
        BY <3>4
      <3> QED BY <2>1, <3>2, <3>5 DEF Due
    <2>3. CASE FindRightMost
      <3>1. job.do = "find_key" /\ job.op = "del"
        BY <2>3 DEF FindRightMost
      <3>2. PICK p, i, l : job' = [do |-> "remove_internal", page |-> p, pos |-> i,
                                   key |-> job.key, leaf |-> l]
        BY <2>3 DEF FindRightMost
      <3>3. job'.do = "remove_internal" /\ job'.key = job.key
        BY <3>2
      <3> QED BY <2>1, <3>1, <3>3 DEF Due
    <2>4. CASE GoRightMost
      <3>1. PICK p \in Live, leaf \in Live, i \in 0..INDEXCOUNT, k \in Key :
               job = [do |-> "remove_internal", page |-> p, pos |-> i, key |-> k, leaf |-> leaf]
        BY <2>4, DescentJob DEF GoRightMost, Good
      <3>2. PICK x : job' = [job EXCEPT !.leaf = x]
        BY <2>4 DEF GoRightMost
      <3>3. job' = [do |-> "remove_internal", page |-> p, pos |-> i, key |-> k, leaf |-> x]
        BY <3>1, <3>2
      <3>4. /\ job.do = "remove_internal" /\ job.key = k
            /\ job'.do = "remove_internal" /\ job'.key = k
        BY <3>1, <3>3
      <3> QED BY <2>1, <3>4 DEF Due
    <2> QED BY <1>1, <2>2, <2>3, <2>4
  <1>2. CASE NothingToDo
    <2>1. PICK k \in Key : /\ Contents' = Contents
                           /\ \/ k \in Contents /\ answer' = <<k, TRUE>>
                              \/ k \notin Contents /\ answer' = <<k, FALSE>>
      BY <1>2, NothingToDoRefines
    <2>2. job.do = "find_key" /\ job'.do = "idle"
      BY <1>2 DEF NothingToDo, Idle
    <2>3. PICK p, i : /\ \/ job.op = "put" /\ Found(p, job.key, i)
                         \/ job.op = "del" /\ ~Found(p, job.key, i)
                      /\ answer' = <<job.key, Found(p, job.key, i)>>
      BY <1>2 DEF NothingToDo
    <2>4. CASE job.op = "put" /\ Found(p, job.key, i)
      <3>1. answer' = <<job.key, TRUE>>
        <4>1. Found(p, job.key, i) = TRUE
          BY <2>4 DEF Found
        <4> QED BY <2>3, <4>1
      <3>2. job.key = k /\ k \in Contents
        BY <2>1, <3>1
      <3> QED BY <2>1, <2>2, <2>4, <3>2 DEF Due
    <2>5. CASE job.op = "del" /\ ~Found(p, job.key, i)
      <3>1. answer' = <<job.key, FALSE>>
        <4>1. Found(p, job.key, i) = FALSE
          BY <2>5 DEF Found
        <4> QED BY <2>3, <4>1
      <3>2. job.key = k /\ k \notin Contents
        BY <2>1, <3>1
      <3> QED BY <2>1, <2>2, <2>5, <3>2 DEF Due
    <2> QED BY <2>3, <2>4, <2>5
  <1>3. CASE InsertInitNode \/ InsertLeaf
    <2>1. PICK k \in Key : Contents' = Contents \cup {k} /\ answer' = <<k, FALSE>>
      BY <1>3, InsertRefines
    <2>2. job.do = "find_key" /\ job.op = "put" /\ answer' = <<job.key, FALSE>>
      BY <1>3 DEF InsertInitNode, InsertLeaf
    <2>3. job'.do \in {"idle", "split"}
      <3>1. job' = Idle \/ \E p : SplitIfFull(p)
        BY <1>3 DEF InsertInitNode, InsertLeaf
      <3> QED BY <3>1 DEF SplitIfFull, Idle
    <2>4. k = job.key
      BY <2>1, <2>2
    <2> QED BY <2>1, <2>2, <2>3, <2>4 DEF Due
  <1>4. CASE RemoveLeaf \/ RemoveInternal
    <2>1. PICK k \in Key : Contents' = Contents \ {k} /\ answer' = <<k, TRUE>>
      BY <1>4, RemoveLeafRefines, RemoveInternalRefines
    <2>2. /\ \/ job.do = "find_key" /\ job.op = "del"
             \/ job.do = "remove_internal"
          /\ answer' = <<job.key, TRUE>>
      BY <1>4 DEF RemoveLeaf, RemoveInternal
    <2>3. job'.do \in {"idle", "shrink"}
      <3>1. \E p : ShrinkIfSmall(p)
        BY <1>4 DEF RemoveLeaf, RemoveInternal
      <3> QED BY <3>1 DEF ShrinkIfSmall, Idle
    <2>4. k = job.key
      BY <2>1, <2>2
    <2> QED BY <2>1, <2>2, <2>3, <2>4 DEF Due
  <1>5. CASE AllocRootIndexPage
    <2>1. Contents' = Contents /\ job.do = "split"
      BY <1>5, AllocRootRefines DEF AllocRootIndexPage
    <2>2. job'.do = "split"
      <3>1. PICK p \in Live, q \in Live \cup {0} : job = [do |-> "split", page |-> p, parent |-> q]
        BY <2>1, SplitJob DEF Good
      <3>2. job' = [job EXCEPT !.parent = NewPage]
        BY <1>5 DEF AllocRootIndexPage
      <3> QED BY <3>1, <3>2
    <2> QED BY <2>1, <2>2 DEF Due
  <1>6. CASE Split
    <2>1. Contents' = Contents /\ job.do = "split" /\ job'.do = "insert_internal"
      BY <1>6, SplitRefines DEF Split
    <2> QED BY <2>1 DEF Due
  <1>7. CASE InsertInternal
    <2>1. Contents' = Contents /\ job.do = "insert_internal" /\ job'.do \in {"idle", "split"}
      BY <1>7, InsertInternalRefines DEF InsertInternal, SplitIfFull, Idle
    <2> QED BY <2>1 DEF Due
  <1>8. CASE RShrink \/ LShrink
    <2>1. Contents' = Contents /\ job.do = "shrink"
      BY <1>8, ShrinkKeeps DEF RShrink, LShrink
    <2>2. job'.do \in {"idle", "shrink"}
      <3>1. job' = Idle \/ \E q : ShrinkIfSmall(q)
        <4>1. CASE RShrink
          BY <4>1 DEF RShrink, BorrowRight, MergeSibling
        <4>2. CASE LShrink
          BY <4>2 DEF LShrink, BorrowLeft, MergeSibling
        <4> QED BY <1>8, <4>1, <4>2
      <3> QED BY <3>1 DEF ShrinkIfSmall, Idle
    <2> QED BY <2>1, <2>2 DEF Due
  <1> QED BY <1>1, <1>2, <1>3, <1>4, <1>5, <1>6, <1>7, <1>8 DEF Call

\* The keys of a sweep are those that the index holds or is about to.
SInv == IInv /\ keys = Due

\* An operation of a sweep begins.
LEMMA FlipSettles ==
    ASSUME SInv, NEW k, Flip(k)
    PROVE  SInv'
  <1>1. PICK lo, hi, lv : TypeOK /\ FreeOK /\ Good(lo, hi, lv) /\ keys = Due
    BY DEF SInv, IInv
  <1>2. k \in Key /\ (Put(k) \/ Del(k))
    BY DEF Flip
  <1>3. IInv'
    BY <1>2, NextInv DEF SInv, Next
  <1>4. Contents' = Contents
    BY <1>1, <1>2, SearchRefines
  <1>5. keys = Contents
    BY <1>1, <1>2 DEF Put, Del, Begin, Idle, Due
  <1>6. CASE Put(k) /\ keys' = keys \cup {k}
    <2>1. job'.do = "find_key" /\ job'.op = "put" /\ job'.key = k
      BY <1>6 DEF Put, Begin
    <2> QED BY <1>3, <1>4, <1>5, <1>6, <2>1 DEF SInv, Due
  <1>7. CASE Del(k) /\ keys' = keys \ {k}
    <2>1. job'.do = "find_key" /\ job'.op = "del" /\ job'.key = k
      BY <1>7 DEF Del, Begin
    <2> QED BY <1>3, <1>4, <1>5, <1>7, <2>1 DEF SInv, Due
  <1> QED BY <1>6, <1>7 DEF Flip

\* After any sweep, however often it turns, the index is a B-tree that holds the
\* keys that were put and not deleted since: put and del of znet/common/db.h do
\* what they are asked to do, to that key and no other.
THEOREM SweepsAlwaysKeepTheTree == SweepSpec => []SweepsKeepTheTree
  <1>1. SweepInit => SInv
    <2>1. SUFFICES ASSUME SweepInit PROVE SInv
      OBVIOUS
    <2>2. IInv /\ Contents = {} /\ job = Idle /\ keys = {}
      BY <2>1, InitInv, InitRefines DEF SweepInit, Init, Index!Init
    <2> QED BY <2>2 DEF SInv, Due, Idle
  <1>2. SInv /\ [SweepNext]_<<vars, sweep>> => SInv'
    <2>1. SUFFICES ASSUME SInv, [SweepNext]_<<vars, sweep>> PROVE SInv'
      OBVIOUS
    <2>2. ASSUME NEW k, Flip(k) PROVE SInv'
      BY <2>1, <2>2, FlipSettles
    <2>3. CASE Build \/ Onward \/ Turn
      BY <2>2, <2>3 DEF Build, Onward, Turn
    <2>4. CASE Call /\ UNCHANGED sweep
      <3>1. PICK lo, hi, lv : TypeOK /\ FreeOK /\ Good(lo, hi, lv)
        BY <2>1 DEF SInv, IInv
      <3>2. Due' = Due
        BY <2>4, <3>1, CallSettles
      <3>3. IInv' /\ keys' = keys
        BY <2>1, <2>4, NextInv DEF SInv, Next, sweep
      <3> QED BY <2>1, <3>2, <3>3 DEF SInv
    <2>5. CASE UNCHANGED <<vars, sweep>>
      <3>1. Contents' = Contents /\ job' = job /\ keys' = keys
        BY <2>5, Untouched DEF sweep
      <3>2. IInv'
        BY <2>1, <2>5, NextInv DEF SInv
      <3> QED BY <2>1, <3>1, <3>2 DEF SInv, Due
    <2> QED BY <2>1, <2>3, <2>4, <2>5 DEF SweepNext
  <1>3. SweepSpec => Spec
    <2>1. SweepInit => Init
      BY DEF SweepInit
    <2>2. [SweepNext]_<<vars, sweep>> => [Next]_vars
      BY DEF SweepNext, Build, Onward, Turn, Flip, Next
    <2> QED BY <2>1, <2>2, PTL DEF SweepSpec, Spec
  <1>4. SInv /\ IsBTree => SweepsKeepTheTree
    BY DEF SInv, SweepsKeepTheTree, Due, Idle
  <1> QED BY <1>1, <1>2, <1>3, <1>4, AlwaysBTree, PTL DEF SweepSpec
===============================================================================
