------------------------------ MODULE BTreeProofs -----------------------------
(***************************************************************************)
(* Proofs about the index of a table (BTree): it is a B-tree between two   *)
(* operations, loses no page, marks what it changes, and implements        *)
(* KeySet.                                                                 *)
(*                                                                         *)
(* What makes it a B-tree is said with three functions on the pages that   *)
(* the program does not have: page p holds keys between lo[p] and hi[p],   *)
(* and is lv[p] levels above the leaves.  The inductive invariant is that  *)
(* there are such functions; a step shows what becomes of them.  Good says *)
(* what they are like, page by page, and what the job of the next call     *)
(* says of the pages that are not yet, or no more, like the others.  The   *)
(* key to it is Apart: two pages of a level have bounds that do not        *)
(* overlap, and no key or bound of a page lies within the bounds of a page *)
(* below its level.  So a key that is taken out, or moved across the slot  *)
(* above two siblings, is seen to be in order with all other pages.        *)
(***************************************************************************)
EXTENDS BTree, WellFoundedInduction, TLAPS

\* Value v does not lie within the bounds of page y.
Outside(v, lo, hi, y) == v <= lo[y] \/ hi[y] <= v

\* The positions in page p of its slots and of its links.
Slots(p) == l_pos[p]..(r_pos[p] - 1)
Positions(p) == l_pos[p]..r_pos[p]

\* The new root, until the halves of the old one have entered it.
Fresh == IF job.do = "split" /\ job.parent # parent_index[job.page] THEN {job.parent}
         ELSE IF job.do = "insert_internal" /\ parent_index[job.l_child] # job.page
         THEN {job.page} ELSE {}

\* The lower half of a page that was split, until both have entered the parent.
Half == IF job.do = "insert_internal" THEN {job.l_child} ELSE {}

\* The bounds of what is below the link of p at i.
LoAt(lo, p, i) == IF i = l_pos[p] THEN lo[p] ELSE key[p][i - 1]
HiAt(hi, p, i) == IF i = r_pos[p] THEN hi[p] ELSE key[p][i]

\* The keys of a page are in order and within its bounds.
Keys(lo, hi) ==
    \A p \in Live :
        /\ lo[p] < hi[p]
        /\ \A i \in Slots(p) : lo[p] < key[p][i] /\ key[p][i] < hi[p]
        /\ \A i, j \in Slots(p) : i < j => key[p][i] < key[p][j]

\* A child is one level down, has its bounds from its parent and knows its seat.
Down(lo, hi, lv) ==
    \A p \in Live \ Fresh : \A i \in Positions(p) :
        /\ lv[p] = 0 => kid[p][i] = 0
        /\ lv[p] > 0 => /\ kid[p][i] \in Live /\ lv[kid[p][i]] = lv[p] - 1
                        /\ parent_index[kid[p][i]] = p /\ parent_pos[kid[p][i]] = i
                        /\ lo[kid[p][i]] = LoAt(lo, p, i)
                        /\ kid[p][i] \notin Half => hi[kid[p][i]] = HiAt(hi, p, i)

\* A page is linked where it says it is; without a parent are the root, the new
\* half of a page that was split, and the old root until it enters the new one.
Up ==
    \A p \in Live :
        /\ parent_index[p] # 0 =>
              /\ parent_index[p] \in Live \ Fresh
              /\ parent_pos[p] \in Positions(parent_index[p])
              /\ kid[parent_index[p]][parent_pos[p]] = p
        /\ parent_index[p] = 0 =>
              /\ parent_pos[p] = 0
              /\ \/ p = root
                 \/ job.do = "split" /\ p = job.page /\ root = job.parent
                 \/ job.do = "insert_internal" /\ p = job.r_child
                 \/ job.do = "insert_internal" /\ p = job.l_child /\ root = job.page

\* Under the root is everything.
RootOK(lo, hi, lv) ==
    /\ root \in Live /\ parent_index[root] = 0
    /\ lo[root] = 0 /\ hi[root] = MaxKey + 1
    /\ \A p \in Live : lv[p] <= lv[root]

\* Only the page that is about to be split is full, and only the one that is
\* about to shrink is small.
Size(lv) ==
    \A p \in Live \ Fresh :
        /\ size(p) = INDEXCOUNT => job.do = "split" /\ p = job.page
        /\ p # root => size(p) >= INDEXMINR \/ (job.do = "shrink" /\ p = job.page)
        /\ lv[p] > 0 => size(p) > 0 \/ (job.do = "shrink" /\ p = job.page)

\* Pages of one level do not overlap; what is above a page is not within it.
Apart(lo, hi, lv) ==
    \A x, y \in Live : x # y =>
        /\ lv[x] = lv[y] => hi[x] <= lo[y] \/ hi[y] <= lo[x]
        /\ lv[x] > lv[y] => /\ Outside(lo[x], lo, hi, y) /\ Outside(hi[x], lo, hi, y)
                            /\ \A i \in Slots(x) : Outside(key[x][i], lo, hi, y)

\* Page p has never had a slot.
Blank(p) == l_pos[p] = 0 /\ r_pos[p] = 0

\* What is true of the pages and the key of the call to be made.
Job(lo, hi, lv) ==
    \/ job = Idle
    \/ \E op \in {"put", "del"}, k \in Key, p \in Live :
          /\ job = [do |-> "find_key", op |-> op, key |-> k, page |-> p]
          /\ lo[p] < k /\ k < hi[p]
    \/ \E p \in Live, q \in Live \cup {0} :
          /\ job = [do |-> "split", page |-> p, parent |-> q]
          /\ p \in dirty
          /\ size(p) = INDEXCOUNT
          /\ \/ q = parent_index[p]
             \/ /\ q = root /\ q # p /\ parent_index[p] = 0
                /\ Blank(q) /\ lv[q] = lv[p] + 1 /\ lo[p] = 0 /\ hi[p] = MaxKey + 1
                /\ q \in dirty
    \/ \E p, l, r \in Live, k \in Key, i \in 0..INDEXCOUNT :
          /\ job = [do |-> "insert_internal", page |-> p, pos |-> i, key |-> k,
                    l_child |-> l, r_child |-> r]
          /\ {p, l, r} \subseteq dirty
          /\ l # r /\ r # root
          /\ lv[l] = lv[p] - 1 /\ lv[r] = lv[l]
          /\ hi[l] = k /\ lo[r] = k
          /\ parent_index[r] = 0
          /\ i \in Positions(p)
          /\ \A y \in Live : lv[y] < lv[p] => Outside(k, lo, hi, y)
          /\ \/ /\ parent_index[l] = p /\ parent_pos[l] = i /\ hi[r] = HiAt(hi, p, i)
                /\ size(p) < INDEXCOUNT /\ size(p) > 0
             \/ /\ parent_index[l] = 0 /\ p = root /\ Blank(p) /\ lo[l] = 0 /\ hi[r] = MaxKey + 1
    \/ \E p, leaf \in Live, i \in 0..INDEXCOUNT, k \in Key :
          /\ job = [do |-> "remove_internal", page |-> p, pos |-> i, key |-> k, leaf |-> leaf]
          /\ i \in Slots(p) /\ key[p][i] = k
          /\ lv[leaf] < lv[p] /\ hi[leaf] = k
          /\ p \in dirty
    \/ \E p \in Live :
          /\ job = [do |-> "shrink", page |-> p]
          /\ p \in dirty
          /\ size(p) = INDEXMINR - 1 /\ parent_index[p] # 0

\* The values of the three functions.
GhostType(lo, hi, lv) ==
    \A p \in Live : lo[p] \in 0..(MaxKey + 1) /\ hi[p] \in 0..(MaxKey + 1) /\ lv[p] \in Nat

\* The functions lo, hi and lv are what the index says of its pages.
Good(lo, hi, lv) ==
    /\ GhostType(lo, hi, lv)
    /\ Keys(lo, hi) /\ Down(lo, hi, lv) /\ Up /\ RootOK(lo, hi, lv) /\ Size(lv)
    /\ Apart(lo, hi, lv) /\ Job(lo, hi, lv)

\* No page is on the free list twice.
FreeOK == \A i, j \in DOMAIN free : free[i] = free[j] => i = j

\* The inductive invariant.
IInv == TypeOK /\ FreeOK /\ \E lo, hi, lv : Good(lo, hi, lv)

-------------------------------------------------------------------------------

\* What the constants of a page are to each other.
LEMMA Sizes ==
    /\ INDEXCOUNT \in Nat /\ INDEXMINL \in Nat /\ INDEXMINR \in Nat
    /\ INDEXMINL + INDEXMINR + 1 = INDEXCOUNT
    /\ 1 <= INDEXMINR /\ INDEXMINR <= INDEXMINL
    /\ INDEXSLIPL \in Nat /\ INDEXSLIPR = INDEXSLIPL + 1
    /\ INDEXSLIPL + INDEXMINR <= INDEXCOUNT
  <1>1. INDEXMINL \in Nat /\ 2 * INDEXMINL <= INDEXCOUNT /\ INDEXCOUNT <= 2 * INDEXMINL + 1
    BY CountAssumption DEF INDEXMINL
  <1>2. INDEXMINL >= 1 /\ INDEXMINR \in Nat /\ INDEXMINL + INDEXMINR + 1 = INDEXCOUNT
        /\ 1 <= INDEXMINR /\ INDEXMINR <= INDEXMINL
    BY <1>1, CountAssumption DEF INDEXMINR
  <1>3. PICK s \in Nat : s = INDEXCOUNT - INDEXMINR
    BY <1>1, <1>2, CountAssumption
  <1>4. s \div 2 \in Nat /\ s \div 2 <= s
    BY <1>3
  <1>5. INDEXSLIPL \in Nat /\ INDEXSLIPR = INDEXSLIPL + 1 /\ INDEXSLIPL + INDEXMINR <= INDEXCOUNT
    BY <1>2, <1>3, <1>4, CountAssumption DEF INDEXSLIPL, INDEXSLIPR
  <1> QED BY <1>2, <1>5, <1>1, CountAssumption

\* The pages of the index are pages.
LEMMA LiveIsPage ==
    ASSUME TypeOK
    PROVE  Live \subseteq Page /\ 0 \notin Live
  BY PageAssumption DEF TypeOK, Live, Page

\* What the types say of a page of the index.
LEMMA LiveTyped ==
    ASSUME TypeOK, NEW p \in Live
    PROVE  /\ p \in Page /\ p # 0
           /\ l_pos[p] \in Nat /\ r_pos[p] \in Nat /\ l_pos[p] <= r_pos[p]
           /\ r_pos[p] <= INDEXCOUNT
           /\ \A i \in Slots(p) : key[p][i] \in 1..MaxKey
           /\ \A i \in Positions(p) : kid[p][i] \in 0..max
  <1>1. p \in Page /\ p # 0
    BY LiveIsPage
  <1>2. /\ l_pos[p] \in 0..INDEXCOUNT /\ r_pos[p] \in 0..INDEXCOUNT /\ l_pos[p] <= r_pos[p]
        /\ key[p] \in [l_pos[p]..(r_pos[p] - 1) -> Key]
        /\ kid[p] \in [l_pos[p]..r_pos[p] -> 0..max]
    BY <1>1 DEF TypeOK
  <1> QED BY <1>1, <1>2, CountAssumption DEF Slots, Positions, Key

\* A position in the parent is a number.
LEMMA SeatTyped ==
    ASSUME TypeOK, NEW x \in Page
    PROVE  parent_pos[x] \in 0..INDEXCOUNT /\ parent_pos[x] \in Int
  <1>1. parent_pos[x] \in 0..INDEXCOUNT
    BY DEF TypeOK
  <1> QED BY <1>1, CountAssumption

\* A step that only goes on with the search, or ends it.
LEMMA SearchKeeps ==
    ASSUME NEW lo, NEW hi, NEW lv, TypeOK, Good(lo, hi, lv),
           UNCHANGED <<slots, links, pages>>,
           job = Idle \/ job.do \in {"find_key", "remove_internal"},
           Fresh = {}, Fresh' = {},
           job'.do \in {"idle", "find_key", "remove_internal"},
           Job(lo, hi, lv)'
    PROVE  Good(lo, hi, lv)'
  <1>1. Live' = Live
    BY DEF pages, Live, Free
  <1>2. /\ l_pos' = l_pos /\ r_pos' = r_pos /\ key' = key /\ kid' = kid
        /\ parent_index' = parent_index /\ parent_pos' = parent_pos /\ root' = root
    BY DEF slots, links, pages
  <1>3. job.do \in {"idle", "find_key", "remove_internal"}
    BY DEF Idle
  <1>4. GhostType(lo, hi, lv)' /\ Keys(lo, hi)'
    BY <1>1, <1>2 DEF Good, GhostType, Keys, Slots
  <1>5. Down(lo, hi, lv)'
    <2>1. Half = {} /\ Half' = {}
      BY <1>3 DEF Half
    <2> QED BY <1>1, <1>2, <2>1 DEF Good, Down, Positions, LoAt, HiAt
  <1>6. Up'
    BY <1>1, <1>2, <1>3 DEF Good, Up, Positions
  <1>7. RootOK(lo, hi, lv)'
    BY <1>1, <1>2 DEF Good, RootOK
  <1>8. Size(lv)'
    BY <1>1, <1>2, <1>3 DEF Good, Size, size
  <1>9. Apart(lo, hi, lv)'
    BY <1>1, <1>2 DEF Good, Apart, Outside, Slots
  <1> QED BY <1>4, <1>5, <1>6, <1>7, <1>8, <1>9 DEF Good

\* Pages, links and the free list stay as they are.
LEMMA TypesStay ==
    ASSUME TypeOK, FreeOK, UNCHANGED <<slots, links, pages>>, dirty' \subseteq Page,
           answer' \in {<<>>} \cup (Key \X BOOLEAN)
    PROVE  TypeOK' /\ FreeOK'
  <1>1. /\ l_pos' = l_pos /\ r_pos' = r_pos /\ key' = key /\ kid' = kid
        /\ parent_index' = parent_index /\ parent_pos' = parent_pos
        /\ root' = root /\ max' = max /\ free' = free
    BY DEF slots, links, pages
  <1> QED BY <1>1 DEF TypeOK, FreeOK

\* What an invariant state with a search going on is.
LEMMA SearchJob ==
    ASSUME NEW lo, NEW hi, NEW lv, Job(lo, hi, lv), job.do = "find_key"
    PROVE  \E op \in {"put", "del"}, k \in Key, p \in Live :
              /\ job = [do |-> "find_key", op |-> op, key |-> k, page |-> p]
              /\ lo[p] < k /\ k < hi[p]
  BY DEF Job, Idle

\* Put and Del keep the invariant.
LEMMA BeginKeeps ==
    ASSUME NEW lo, NEW hi, NEW lv, TypeOK, FreeOK, Good(lo, hi, lv),
           NEW op \in {"put", "del"}, NEW k \in Key, Begin(op, k)
    PROVE  TypeOK' /\ FreeOK' /\ Good(lo, hi, lv)'
  <1>1. /\ job = Idle /\ job' = [do |-> "find_key", op |-> op, key |-> k, page |-> root]
        /\ UNCHANGED <<slots, links, pages>> /\ dirty' = {} /\ answer' = answer
    BY DEF Begin
  <1>2. TypeOK' /\ FreeOK'
    BY <1>1, TypesStay DEF TypeOK
  <1>3. Fresh = {} /\ Fresh' = {}
    BY <1>1 DEF Fresh, Idle
  <1>4. root \in Live /\ lo[root] < k /\ k < hi[root]
    BY KeyAssumption DEF Good, RootOK, Key
  <1>5. Live' = Live
    BY <1>1 DEF pages, Live, Free
  <1>6. Job(lo, hi, lv)'
    BY <1>1, <1>4, <1>5 DEF Job
  <1>7. Good(lo, hi, lv)'
    BY <1>1, <1>3, <1>6, SearchKeeps
  <1> QED BY <1>2, <1>7

\* The bounds of the child that the search goes on in.
LEMMA ChildBounds ==
    ASSUME NEW lo, NEW hi, NEW lv, TypeOK, Good(lo, hi, lv), job.do \notin {"split", "insert_internal"},
           NEW p \in Live, NEW i \in Positions(p), ~Leaf(p)
    PROVE  /\ kid[p][i] \in Live /\ lv[p] > 0 /\ lv[kid[p][i]] = lv[p] - 1
           /\ lo[kid[p][i]] = LoAt(lo, p, i) /\ hi[kid[p][i]] = HiAt(hi, p, i)
  <1>1. Fresh = {} /\ Half = {}
    BY DEF Fresh, Half
  <1>2. l_pos[p] \in Positions(p)
    BY LiveTyped DEF Positions
  <1>3. lv[p] > 0
    BY <1>1, <1>2 DEF Good, Down, Leaf, GhostType
  <1> QED BY <1>1, <1>3 DEF Good, Down

\* FindKey keeps the invariant: the key lies within the bounds of the child.
LEMMA FindKeyKeeps ==
    ASSUME NEW lo, NEW hi, NEW lv, TypeOK, FreeOK, Good(lo, hi, lv), FindKey
    PROVE  TypeOK' /\ FreeOK' /\ Good(lo, hi, lv)'
  <1>1. PICK op \in {"put", "del"}, k \in Key, p \in Live :
              /\ job = [do |-> "find_key", op |-> op, key |-> k, page |-> p]
              /\ lo[p] < k /\ k < hi[p]
    BY SearchJob DEF FindKey, Good
  <1>2. /\ job.do = "find_key" /\ job.op = op /\ job.key = k /\ job.page = p
    BY <1>1
  <1>3. PICK i \in l_pos[p]..r_pos[p] : /\ EndsAt(p, k, i) /\ ~Found(p, k, i) /\ ~Leaf(p)
                                        /\ job' = [job EXCEPT !.page = kid[p][i]]
    BY <1>2 DEF FindKey
  <1>4. UNCHANGED <<slots, links, pages>> /\ dirty' = dirty /\ answer' = answer
    BY DEF FindKey
  <1>5. i \in Positions(p)
    BY <1>3 DEF Positions
  <1>6. /\ kid[p][i] \in Live
        /\ lo[kid[p][i]] = LoAt(lo, p, i) /\ hi[kid[p][i]] = HiAt(hi, p, i)
    BY <1>2, <1>3, <1>5, ChildBounds
  <1>7. LoAt(lo, p, i) < k
    BY <1>1, <1>3, LiveTyped DEF LoAt, EndsAt
  <1>8. k < HiAt(hi, p, i)
    BY <1>1, <1>3, LiveTyped DEF HiAt, EndsAt, Found, Slots, Key
  <1>9. job' = [do |-> "find_key", op |-> op, key |-> k, page |-> kid[p][i]]
    BY <1>1, <1>3
  <1>10. Live' = Live
    BY <1>4 DEF pages, Live, Free
  <1>11. Job(lo, hi, lv)'
    BY <1>6, <1>7, <1>8, <1>9, <1>10 DEF Job
  <1>12. Fresh = {} /\ Fresh' = {}
    BY <1>1, <1>9 DEF Fresh
  <1>13. Good(lo, hi, lv)'
    BY <1>2, <1>4, <1>9, <1>11, <1>12, SearchKeeps
  <1>14. TypeOK' /\ FreeOK'
    BY <1>4, TypesStay DEF TypeOK
  <1> QED BY <1>13, <1>14

\* NothingToDo keeps the invariant.
LEMMA NothingToDoKeeps ==
    ASSUME NEW lo, NEW hi, NEW lv, TypeOK, FreeOK, Good(lo, hi, lv), NothingToDo
    PROVE  TypeOK' /\ FreeOK' /\ Good(lo, hi, lv)'
  <1>1. PICK op \in {"put", "del"}, k \in Key, p \in Live :
              /\ job = [do |-> "find_key", op |-> op, key |-> k, page |-> p]
              /\ lo[p] < k /\ k < hi[p]
    BY SearchJob DEF NothingToDo, Good
  <1>2. /\ job.do = "find_key" /\ job.op = op /\ job.key = k /\ job.page = p
    BY <1>1
  <1>3. /\ UNCHANGED <<slots, links, pages>> /\ dirty' = dirty /\ job' = Idle
        /\ \E b \in BOOLEAN : answer' = <<k, b>>
    BY <1>2 DEF NothingToDo, Found
  <1>4. Job(lo, hi, lv)'
    BY <1>3 DEF Job, Idle
  <1>5. Fresh = {} /\ Fresh' = {}
    BY <1>1, <1>3 DEF Fresh, Idle
  <1>6. Good(lo, hi, lv)'
    BY <1>2, <1>3, <1>4, <1>5, SearchKeeps DEF Idle
  <1>7. answer' \in Key \X BOOLEAN
    BY <1>3
  <1>8. TypeOK' /\ FreeOK'
    BY <1>3, <1>7, TypesStay DEF TypeOK
  <1> QED BY <1>6, <1>8

\* FindRightMost keeps the invariant: the removed key is the upper bound of
\* its left child.
LEMMA FindRightMostKeeps ==
    ASSUME NEW lo, NEW hi, NEW lv, TypeOK, FreeOK, Good(lo, hi, lv), FindRightMost
    PROVE  TypeOK' /\ FreeOK' /\ Good(lo, hi, lv)'
  <1>1. PICK op \in {"put", "del"}, k \in Key, p \in Live :
              /\ job = [do |-> "find_key", op |-> op, key |-> k, page |-> p]
              /\ lo[p] < k /\ k < hi[p]
    BY SearchJob DEF FindRightMost, Good
  <1>2. /\ job.do = "find_key" /\ job.op = op /\ job.key = k /\ job.page = p
    BY <1>1
  <1>3. PICK i \in l_pos[p]..r_pos[p] :
            /\ EndsAt(p, k, i) /\ Found(p, k, i) /\ ~Leaf(p)
            /\ job' = [do |-> "remove_internal", page |-> p, pos |-> i, key |-> k, leaf |-> kid[p][i]]
            /\ dirty' = dirty \cup {p}
    BY <1>2 DEF FindRightMost
  <1>4. UNCHANGED <<slots, links, pages>> /\ answer' = answer
    BY DEF FindRightMost
  <1>5. i \in Positions(p)
    BY <1>3 DEF Positions
  <1>6. /\ kid[p][i] \in Live /\ lv[p] > 0 /\ lv[kid[p][i]] = lv[p] - 1
        /\ hi[kid[p][i]] = HiAt(hi, p, i)
    BY <1>2, <1>3, <1>5, ChildBounds
  <1>7. i < r_pos[p] /\ key[p][i] = k
    BY <1>3 DEF Found
  <1>8. i \in Slots(p) /\ i \in 0..INDEXCOUNT
    BY <1>3, <1>7, LiveTyped, Sizes DEF Slots
  <1>9. HiAt(hi, p, i) = k
    BY <1>3, <1>7, LiveTyped DEF HiAt
  <1>10. lv[kid[p][i]] < lv[p]
    BY <1>6 DEF Good, GhostType
  <1>11. Live' = Live /\ l_pos' = l_pos /\ r_pos' = r_pos /\ key' = key
    BY <1>4 DEF pages, slots, Live, Free
  <1>12. p \in dirty'
    BY <1>3
  <1>13. Job(lo, hi, lv)'
    BY <1>3, <1>6, <1>7, <1>10, <1>11, <1>12, <1>8, <1>9 DEF Job, Slots
  <1>14. Fresh = {} /\ Fresh' = {}
    BY <1>1, <1>3 DEF Fresh
  <1>15. Good(lo, hi, lv)'
    BY <1>2, <1>3, <1>4, <1>13, <1>14, SearchKeeps
  <1>16. TypeOK' /\ FreeOK'
    BY <1>3, <1>4, LiveIsPage, TypesStay DEF TypeOK
  <1> QED BY <1>15, <1>16

\* What an invariant state is when the replacement of a removed key is looked
\* for.
LEMMA DescentJob ==
    ASSUME NEW lo, NEW hi, NEW lv, Job(lo, hi, lv), job.do = "remove_internal"
    PROVE  \E p, leaf \in Live, i \in 0..INDEXCOUNT, k \in Key :
              /\ job = [do |-> "remove_internal", page |-> p, pos |-> i, key |-> k, leaf |-> leaf]
              /\ i \in Slots(p) /\ key[p][i] = k
              /\ lv[leaf] < lv[p] /\ hi[leaf] = k
              /\ p \in dirty
  BY DEF Job, Idle

\* GoRightMost keeps the invariant: the last child has its parent's upper
\* bound.
LEMMA GoRightMostKeeps ==
    ASSUME NEW lo, NEW hi, NEW lv, TypeOK, FreeOK, Good(lo, hi, lv), GoRightMost
    PROVE  TypeOK' /\ FreeOK' /\ Good(lo, hi, lv)'
  <1>1. PICK p \in Live, leaf \in Live, i \in 0..INDEXCOUNT, k \in Key :
              /\ job = [do |-> "remove_internal", page |-> p, pos |-> i, key |-> k, leaf |-> leaf]
              /\ i \in Slots(p) /\ key[p][i] = k
              /\ lv[leaf] < lv[p] /\ hi[leaf] = k
              /\ p \in dirty
    BY DescentJob DEF GoRightMost, Good
  <1>2. /\ job.do = "remove_internal" /\ job.leaf = leaf
    BY <1>1
  <1>3. /\ UNCHANGED <<slots, links, pages>> /\ dirty' = dirty /\ answer' = answer
        /\ ~Leaf(leaf) /\ job' = [job EXCEPT !.leaf = kid[leaf][r_pos[leaf]]]
    BY <1>2 DEF GoRightMost
  <1>4. PICK c : c = kid[leaf][r_pos[leaf]]
    OBVIOUS
  <1>5. r_pos[leaf] \in Positions(leaf)
    BY LiveTyped DEF Positions
  <1>6. c \in Live /\ lv[c] = lv[leaf] - 1 /\ hi[c] = HiAt(hi, leaf, r_pos[leaf])
    BY <1>2, <1>3, <1>4, <1>5, ChildBounds
  <1>7. hi[c] = k /\ lv[c] < lv[p]
    BY <1>1, <1>6 DEF HiAt, Good, GhostType
  <1>8. job' = [do |-> "remove_internal", page |-> p, pos |-> i, key |-> k, leaf |-> c]
    BY <1>1, <1>3, <1>4
  <1>9. Live' = Live /\ l_pos' = l_pos /\ r_pos' = r_pos /\ key' = key
    BY <1>3 DEF pages, slots, Live, Free
  <1>10. p \in dirty'
    BY <1>1, <1>3
  <1>11. Job(lo, hi, lv)'
    BY <1>1, <1>6, <1>7, <1>8, <1>9, <1>10 DEF Job, Slots
  <1>12. Fresh = {} /\ Fresh' = {}
    BY <1>1, <1>8 DEF Fresh
  <1>13. Good(lo, hi, lv)'
    BY <1>2, <1>3, <1>8, <1>11, <1>12, SearchKeeps
  <1>14. TypeOK' /\ FreeOK'
    BY <1>3, TypesStay DEF TypeOK
  <1> QED BY <1>13, <1>14

-------------------------------------------------------------------------------
(* The arrays of a page with a slot more or less.                          *)

\* The keys of a page with a new slot: those before it, the new one, those
\* after it, in an array that has room for them.
LEMMA InsertedKeys ==
    ASSUME TypeOK, NEW p \in Live, NEW i \in Positions(p), NEW k \in Key, size(p) < INDEXCOUNT,
           NEW d, d = Gap(p, i), NEW K, K = KeysWith(p, i, k)
    PROVE  /\ d \in {0, 1} /\ 0 <= l_pos[p] - d /\ r_pos[p] + 1 - d <= INDEXCOUNT
           /\ K \in [(l_pos[p] - d)..(r_pos[p] - d) -> Key]
           /\ \A j \in (l_pos[p] - d)..(r_pos[p] - d) :
                 /\ j < i - d => j + d \in Slots(p) /\ j + d < i /\ K[j] = key[p][j + d]
                 /\ j = i - d => K[j] = k
                 /\ j > i - d => /\ j + d - 1 \in Slots(p) /\ j + d - 1 >= i
                                 /\ K[j] = key[p][j + d - 1]
  <1>1. /\ l_pos[p] \in Nat /\ r_pos[p] \in Nat /\ l_pos[p] <= r_pos[p] /\ r_pos[p] <= INDEXCOUNT
        /\ INDEXCOUNT \in Nat /\ i \in l_pos[p]..r_pos[p]
        /\ \A j \in l_pos[p]..(r_pos[p] - 1) : key[p][j] \in Key
    BY LiveTyped, Sizes DEF Slots, Positions, Key
  <1>2. d \in {0, 1} /\ 0 <= l_pos[p] - d /\ r_pos[p] + 1 - d <= INDEXCOUNT
    BY <1>1 DEF Gap, size
  <1>3. K = [j \in (l_pos[p] - d)..(r_pos[p] - d) |->
                IF j < i - d THEN key[p][j + d] ELSE IF j = i - d THEN k ELSE key[p][j + d - 1]]
    BY DEF KeysWith
  <1>4. \A j \in (l_pos[p] - d)..(r_pos[p] - d) :
           /\ j < i - d => j + d \in Slots(p) /\ j + d < i /\ K[j] = key[p][j + d]
           /\ j = i - d => K[j] = k
           /\ j > i - d => /\ j + d - 1 \in Slots(p) /\ j + d - 1 >= i
                           /\ K[j] = key[p][j + d - 1]
    BY <1>1, <1>2, <1>3 DEF Slots
  <1>5. \A j \in (l_pos[p] - d)..(r_pos[p] - d) : K[j] \in Key
    BY <1>1, <1>2, <1>4 DEF Slots
  <1>6. K \in [(l_pos[p] - d)..(r_pos[p] - d) -> Key]
    BY <1>3, <1>5
  <1> QED BY <1>2, <1>4, <1>6

\* They are in order when the new one is between those before and after it.
LEMMA InsertedInOrder ==
    ASSUME TypeOK, NEW p \in Live, NEW i \in Positions(p), NEW k \in Key, size(p) < INDEXCOUNT,
           NEW d, d = Gap(p, i), NEW K, K = KeysWith(p, i, k),
           \A m, n \in Slots(p) : m < n => key[p][m] < key[p][n],
           \A j \in Slots(p) : j < i => key[p][j] < k,
           \A j \in Slots(p) : j >= i => k < key[p][j]
    PROVE  \A m, n \in (l_pos[p] - d)..(r_pos[p] - d) : m < n => K[m] < K[n]
  <1>1. /\ l_pos[p] \in Nat /\ r_pos[p] \in Nat /\ i \in l_pos[p]..r_pos[p] /\ k \in Nat
        /\ \A j \in Slots(p) : key[p][j] \in Nat
    BY LiveTyped DEF Slots, Positions, Key
  <1>2. /\ d \in {0, 1}
        /\ \A j \in (l_pos[p] - d)..(r_pos[p] - d) :
                 /\ j < i - d => j + d \in Slots(p) /\ j + d < i /\ K[j] = key[p][j + d]
                 /\ j = i - d => K[j] = k
                 /\ j > i - d => /\ j + d - 1 \in Slots(p) /\ j + d - 1 >= i
                                 /\ K[j] = key[p][j + d - 1]
    BY InsertedKeys
  <1>3. SUFFICES ASSUME NEW m \in (l_pos[p] - d)..(r_pos[p] - d),
                        NEW n \in (l_pos[p] - d)..(r_pos[p] - d), m < n
                 PROVE  K[m] < K[n]
    OBVIOUS
  <1>4. m \in Int /\ n \in Int /\ d \in Int /\ i \in Int
    BY <1>1, <1>2, <1>3
  <1>5. CASE n < i - d
    BY <1>1, <1>2, <1>3, <1>4, <1>5
  <1>6. CASE n = i - d
    BY <1>1, <1>2, <1>3, <1>4, <1>6
  <1>7. CASE n > i - d /\ m <= i - d
    <2>1. K[n] = key[p][n + d - 1] /\ n + d - 1 \in Slots(p) /\ k < K[n]
      BY <1>1, <1>2, <1>3, <1>4, <1>7
    <2>2. CASE m = i - d
      BY <2>1, <2>2, <1>2
    <2>3. CASE m < i - d
      BY <1>1, <1>2, <1>3, <1>4, <2>1, <2>3
    <2> QED BY <1>4, <1>7, <2>2, <2>3
  <1>8. CASE n > i - d /\ m > i - d
    BY <1>1, <1>2, <1>3, <1>4, <1>8
  <1> QED BY <1>4, <1>5, <1>6, <1>7, <1>8

\* The links of a page with a new slot.
LEMMA InsertedKids ==
    ASSUME TypeOK, NEW p \in Live, NEW i \in Positions(p), size(p) < INDEXCOUNT,
           NEW d, d = Gap(p, i), NEW l, NEW r, NEW L, L = KidsWith(p, i, l, r)
    PROVE  /\ d \in {0, 1} /\ 0 <= l_pos[p] - d /\ r_pos[p] + 1 - d <= INDEXCOUNT
           /\ DOMAIN L = (l_pos[p] - d)..(r_pos[p] + 1 - d)
           /\ L = [j \in (l_pos[p] - d)..(r_pos[p] + 1 - d) |-> L[j]]
           /\ \A j \in (l_pos[p] - d)..(r_pos[p] + 1 - d) :
                 /\ j < i - d => j + d \in Positions(p) /\ j + d < i /\ L[j] = kid[p][j + d]
                 /\ j = i - d => L[j] = l
                 /\ j = i - d + 1 => L[j] = r
                 /\ j > i - d + 1 => /\ j + d - 1 \in Positions(p) /\ j + d - 1 > i
                                     /\ L[j] = kid[p][j + d - 1]
  <1>1. /\ l_pos[p] \in Nat /\ r_pos[p] \in Nat /\ l_pos[p] <= r_pos[p] /\ r_pos[p] <= INDEXCOUNT
        /\ INDEXCOUNT \in Nat /\ i \in l_pos[p]..r_pos[p]
    BY LiveTyped, Sizes DEF Positions
  <1>2. d \in {0, 1} /\ 0 <= l_pos[p] - d /\ r_pos[p] + 1 - d <= INDEXCOUNT
    BY <1>1 DEF Gap, size
  <1>3. L = [j \in (l_pos[p] - d)..(r_pos[p] - d + 1) |->
                IF j < i - d THEN kid[p][j + d] ELSE IF j = i - d THEN l
                ELSE IF j = i - d + 1 THEN r ELSE kid[p][j + d - 1]]
    BY DEF KidsWith
  <1>4. r_pos[p] - d + 1 = r_pos[p] + 1 - d
    BY <1>1, <1>2
  <1>5. \A j \in (l_pos[p] - d)..(r_pos[p] + 1 - d) :
                 /\ j < i - d => j + d \in Positions(p) /\ j + d < i /\ L[j] = kid[p][j + d]
                 /\ j = i - d => L[j] = l
                 /\ j = i - d + 1 => L[j] = r
                 /\ j > i - d + 1 => /\ j + d - 1 \in Positions(p) /\ j + d - 1 > i
                                     /\ L[j] = kid[p][j + d - 1]
    <2> SUFFICES ASSUME NEW j \in (l_pos[p] - d)..(r_pos[p] + 1 - d)
                 PROVE  /\ j < i - d => j + d \in Positions(p) /\ j + d < i /\ L[j] = kid[p][j + d]
                        /\ j = i - d => L[j] = l
                        /\ j = i - d + 1 => L[j] = r
                        /\ j > i - d + 1 => /\ j + d - 1 \in Positions(p) /\ j + d - 1 > i
                                            /\ L[j] = kid[p][j + d - 1]
      OBVIOUS
    <2>1. /\ j \in Int /\ i \in Int /\ d \in Int /\ l_pos[p] \in Int /\ r_pos[p] \in Int
          /\ l_pos[p] <= i /\ i <= r_pos[p] /\ l_pos[p] - d <= j /\ j <= r_pos[p] + 1 - d
      BY <1>1, <1>2
    <2>2. L[j] = IF j < i - d THEN kid[p][j + d] ELSE IF j = i - d THEN l
                 ELSE IF j = i - d + 1 THEN r ELSE kid[p][j + d - 1]
      BY <1>3, <1>4
    <2>3. /\ j < i - d => j + d \in Positions(p) /\ j + d < i
          /\ j > i - d + 1 => j + d - 1 \in Positions(p) /\ j + d - 1 > i
      BY <2>1 DEF Positions
    <2> QED BY <2>1, <2>2, <2>3
  <1> QED BY <1>2, <1>3, <1>4, <1>5

\* The keys of a page without one of its slots: those before it and those
\* after it.
LEMMA ClosedKeys ==
    ASSUME TypeOK, NEW p \in Live, NEW i \in Slots(p),
           NEW d, d = Closing(p, i), NEW K, K = KeysWithout(p, i)
    PROVE  /\ d \in {0, 1} /\ l_pos[p] + d <= INDEXCOUNT
           /\ 0 <= r_pos[p] - 1 + d /\ r_pos[p] - 1 + d <= INDEXCOUNT
           /\ l_pos[p] + d <= r_pos[p] - 1 + d
           /\ K \in [(l_pos[p] + d)..(r_pos[p] + d - 2) -> Key]
           /\ \A j \in (l_pos[p] + d)..(r_pos[p] + d - 2) :
                 /\ j < i + d => j - d \in Slots(p) /\ j - d < i /\ K[j] = key[p][j - d]
                 /\ j >= i + d => j - d + 1 \in Slots(p) /\ j - d + 1 > i /\ K[j] = key[p][j - d + 1]
  <1>1. /\ l_pos[p] \in Nat /\ r_pos[p] \in Nat /\ l_pos[p] <= r_pos[p] /\ r_pos[p] <= INDEXCOUNT
        /\ INDEXCOUNT \in Nat /\ i \in l_pos[p]..(r_pos[p] - 1)
        /\ \A j \in l_pos[p]..(r_pos[p] - 1) : key[p][j] \in Key
    BY LiveTyped, Sizes DEF Slots, Positions, Key
  <1>2. /\ d \in {0, 1} /\ l_pos[p] + d <= INDEXCOUNT
        /\ 0 <= r_pos[p] - 1 + d /\ r_pos[p] - 1 + d <= INDEXCOUNT
        /\ l_pos[p] + d <= r_pos[p] - 1 + d
    BY <1>1 DEF Closing
  <1>3. K = [j \in (l_pos[p] + d)..(r_pos[p] + d - 2) |->
                IF j < i + d THEN key[p][j - d] ELSE key[p][j - d + 1]]
    BY DEF KeysWithout
  <1>4. \A j \in (l_pos[p] + d)..(r_pos[p] + d - 2) :
                 /\ j < i + d => j - d \in Slots(p) /\ j - d < i /\ K[j] = key[p][j - d]
                 /\ j >= i + d => j - d + 1 \in Slots(p) /\ j - d + 1 > i /\ K[j] = key[p][j - d + 1]
    <2>1. TAKE j \in (l_pos[p] + d)..(r_pos[p] + d - 2)
    <2>2. /\ j \in Int /\ l_pos[p] + d <= j /\ j <= r_pos[p] + d - 2
          /\ K[j] = IF j < i + d THEN key[p][j - d] ELSE key[p][j - d + 1]
      BY <1>1, <1>2, <1>3
    <2>3. CASE j < i + d
      BY <1>1, <1>2, <2>2, <2>3 DEF Slots
    <2>4. CASE j >= i + d
      BY <1>1, <1>2, <2>2, <2>4 DEF Slots
    <2> QED BY <1>1, <1>2, <2>2, <2>3, <2>4
  <1>5. \A j \in (l_pos[p] + d)..(r_pos[p] + d - 2) : K[j] \in Key
    BY <1>1, <1>2, <1>4 DEF Slots
  <1>6. K \in [(l_pos[p] + d)..(r_pos[p] + d - 2) -> Key]
    BY <1>3, <1>5
  <1> QED BY <1>2, <1>4, <1>6

\* They stay in order.
LEMMA ClosedInOrder ==
    ASSUME TypeOK, NEW p \in Live, NEW i \in Slots(p),
           NEW d, d = Closing(p, i), NEW K, K = KeysWithout(p, i),
           \A m, n \in Slots(p) : m < n => key[p][m] < key[p][n]
    PROVE  \A m, n \in (l_pos[p] + d)..(r_pos[p] + d - 2) : m < n => K[m] < K[n]
  <1>1. /\ l_pos[p] \in Nat /\ r_pos[p] \in Nat /\ i \in l_pos[p]..(r_pos[p] - 1)
        /\ \A j \in Slots(p) : key[p][j] \in Nat
    BY LiveTyped DEF Slots, Positions, Key
  <1>2. /\ d \in {0, 1}
        /\ \A j \in (l_pos[p] + d)..(r_pos[p] + d - 2) :
                 /\ j < i + d => j - d \in Slots(p) /\ j - d < i /\ K[j] = key[p][j - d]
                 /\ j >= i + d => j - d + 1 \in Slots(p) /\ j - d + 1 > i /\ K[j] = key[p][j - d + 1]
    BY ClosedKeys
  <1>3. SUFFICES ASSUME NEW m \in (l_pos[p] + d)..(r_pos[p] + d - 2),
                        NEW n \in (l_pos[p] + d)..(r_pos[p] + d - 2), m < n
                 PROVE  K[m] < K[n]
    OBVIOUS
  <1>4. m \in Int /\ n \in Int /\ d \in Int /\ i \in Int
    BY <1>1, <1>2, <1>3
  <1>5. CASE n < i + d
    BY <1>1, <1>2, <1>3, <1>4, <1>5
  <1>6. CASE n >= i + d /\ m < i + d
    BY <1>1, <1>2, <1>3, <1>4, <1>6
  <1>7. CASE n >= i + d /\ m >= i + d
    BY <1>1, <1>2, <1>3, <1>4, <1>7
  <1> QED BY <1>4, <1>5, <1>6, <1>7

\* The links of a page without one of its slots and the link to its right.
LEMMA ClosedKids ==
    ASSUME TypeOK, NEW p \in Live, NEW i \in Slots(p),
           NEW d, d = Closing(p, i), NEW L, L = KidsWithout(p, i)
    PROVE  /\ DOMAIN L = (l_pos[p] + d)..(r_pos[p] - 1 + d)
           /\ L \in [(l_pos[p] + d)..(r_pos[p] - 1 + d) -> 0..max]
           /\ \A j \in (l_pos[p] + d)..(r_pos[p] - 1 + d) :
                 /\ j <= i + d => j - d \in Positions(p) /\ j - d <= i /\ L[j] = kid[p][j - d]
                 /\ j > i + d => /\ j - d + 1 \in Positions(p) /\ j - d + 1 > i + 1
                                 /\ L[j] = kid[p][j - d + 1]
  <1>1. /\ l_pos[p] \in Nat /\ r_pos[p] \in Nat /\ l_pos[p] <= r_pos[p] /\ r_pos[p] <= INDEXCOUNT
        /\ INDEXCOUNT \in Nat /\ i \in l_pos[p]..(r_pos[p] - 1)
        /\ \A j \in l_pos[p]..r_pos[p] : kid[p][j] \in 0..max
    BY LiveTyped, Sizes DEF Slots, Positions, Key
  <1>2. d \in {0, 1}
    BY <1>1 DEF Closing
  <1>3. L = [j \in (l_pos[p] + d)..(r_pos[p] + d - 1) |->
                IF j <= i + d THEN kid[p][j - d] ELSE kid[p][j - d + 1]]
    BY DEF KidsWithout
  <1>4. r_pos[p] + d - 1 = r_pos[p] - 1 + d
    BY <1>1, <1>2
  <1>5. \A j \in (l_pos[p] + d)..(r_pos[p] - 1 + d) :
                 /\ j <= i + d => j - d \in Positions(p) /\ j - d <= i /\ L[j] = kid[p][j - d]
                 /\ j > i + d => /\ j - d + 1 \in Positions(p) /\ j - d + 1 > i + 1
                                 /\ L[j] = kid[p][j - d + 1]
    BY <1>1, <1>2, <1>3, <1>4 DEF Positions
  <1>6. \A j \in (l_pos[p] + d)..(r_pos[p] - 1 + d) : L[j] \in 0..max
    BY <1>1, <1>2, <1>5 DEF Positions
  <1> QED BY <1>3, <1>4, <1>5, <1>6

-------------------------------------------------------------------------------
(* A leaf with a key more or less.                                         *)

\* A page is a leaf if and only if it is on level 0.
LEMMA LeafLevel ==
    ASSUME NEW lo, NEW hi, NEW lv, TypeOK, Good(lo, hi, lv), NEW p \in Live, p \notin Fresh
    PROVE  /\ lv[p] \in Nat
           /\ Leaf(p) => lv[p] = 0
           /\ ~Leaf(p) => lv[p] > 0
  <1>1. l_pos[p] \in Positions(p)
    BY LiveTyped DEF Positions
  <1>2. lv[p] \in Nat
    BY DEF Good, GhostType
  <1>3. /\ lv[p] = 0 => kid[p][l_pos[p]] = 0
        /\ lv[p] > 0 => kid[p][l_pos[p]] \in Live
    BY <1>1 DEF Good, Down
  <1> QED BY <1>2, <1>3, LiveIsPage DEF Leaf

\* A leaf gets other keys that are in order and within its bounds: nothing
\* else of the index depends on them.
LEMMA LeafChanged ==
    ASSUME NEW lo, NEW hi, NEW lv, TypeOK, FreeOK, Good(lo, hi, lv),
           job.do = "find_key", NEW p \in Live, lv[p] = 0,
           NEW l \in 0..INDEXCOUNT, NEW r \in 0..INDEXCOUNT, l <= r,
           NEW K \in [l..(r - 1) -> Key], NEW L \in [l..r -> {0}],
           \A j \in l..(r - 1) : lo[p] < K[j] /\ K[j] < hi[p],
           \A m, n \in l..(r - 1) : m < n => K[m] < K[n],
           l_pos' = [l_pos EXCEPT ![p] = l], r_pos' = [r_pos EXCEPT ![p] = r],
           key' = [key EXCEPT ![p] = K], kid' = [kid EXCEPT ![p] = L],
           UNCHANGED <<links, pages>>, dirty' = dirty \cup {p},
           answer' \in {<<>>} \cup (Key \X BOOLEAN),
           Fresh' = {}, job'.do \in {"idle", "split", "shrink"},
           r - l = INDEXCOUNT => job'.do = "split" /\ job'.page = p,
           p # root => r - l >= INDEXMINR \/ (job'.do = "shrink" /\ job'.page = p),
           Job(lo, hi, lv)'
    PROVE  TypeOK' /\ FreeOK' /\ Good(lo, hi, lv)'
  <1>1. /\ parent_index' = parent_index /\ parent_pos' = parent_pos
        /\ root' = root /\ max' = max /\ free' = free /\ Live' = Live
    BY DEF links, pages, Live, Free
  <1>2. p \in Page /\ Live \subseteq Page
    BY LiveIsPage
  <1>3. \A x \in Page : /\ l_pos'[x] = IF x = p THEN l ELSE l_pos[x]
                        /\ r_pos'[x] = IF x = p THEN r ELSE r_pos[x]
                        /\ key'[x] = IF x = p THEN K ELSE key[x]
                        /\ kid'[x] = IF x = p THEN L ELSE kid[x]
    BY <1>2 DEF TypeOK
  <1>4. p \in Live /\ p \notin Fresh /\ Fresh = {} /\ Half = {} /\ Half' = {}
    BY DEF Fresh, Half
  <1>5. TypeOK'
    <2>1. /\ DOMAIN key' = Page /\ DOMAIN kid' = Page
          /\ l_pos' \in [Page -> 0..INDEXCOUNT] /\ r_pos' \in [Page -> 0..INDEXCOUNT]
      BY DEF TypeOK
    <2>2. ASSUME NEW x \in Page
          PROVE  /\ l_pos'[x] <= r_pos'[x]
                 /\ key'[x] \in [l_pos'[x]..(r_pos'[x] - 1) -> Key]
                 /\ kid'[x] \in [l_pos'[x]..r_pos'[x] -> 0..max]
      <3>1. CASE x # p
        BY <1>3, <3>1 DEF TypeOK
      <3>2. CASE x = p
        <4>1. 0 \in 0..max
          BY DEF TypeOK, Page
        <4>2. L \in [l..r -> 0..max]
          BY <4>1
        <4> QED BY <1>3, <3>2, <4>2
      <3> QED BY <3>1, <3>2
    <2>3. dirty' \subseteq Page
      BY <1>2 DEF TypeOK
    <2> QED BY <1>1, <2>1, <2>2, <2>3 DEF TypeOK
  <1>6. FreeOK'
    BY <1>1 DEF FreeOK
  <1>7. GhostType(lo, hi, lv)'
    BY <1>1 DEF Good, GhostType
  <1>8. Keys(lo, hi)'
    <2>1. ASSUME NEW x \in Live
          PROVE  /\ lo[x] < hi[x]
                 /\ \A i \in Slots(x)' : lo[x] < key'[x][i] /\ key'[x][i] < hi[x]
                 /\ \A i, j \in Slots(x)' : i < j => key'[x][i] < key'[x][j]
      <3>1. CASE x = p
        BY <1>2, <1>3, <3>1 DEF Slots, Good, Keys
      <3>2. CASE x # p
        BY <1>2, <1>3, <3>2 DEF Slots, Good, Keys
      <3> QED BY <3>1, <3>2
    <2> QED BY <1>1, <2>1 DEF Keys
  <1>9. Down(lo, hi, lv)'
    <2>1. ASSUME NEW x \in Live, NEW i \in Positions(x)'
          PROVE  /\ lv[x] = 0 => kid'[x][i] = 0
                 /\ lv[x] > 0 => /\ kid'[x][i] \in Live /\ lv[kid'[x][i]] = lv[x] - 1
                                 /\ parent_index[kid'[x][i]] = x /\ parent_pos[kid'[x][i]] = i
                                 /\ lo[kid'[x][i]] = LoAt(lo, x, i)'
                                 /\ hi[kid'[x][i]] = HiAt(hi, x, i)'
      <3>1. CASE x = p
        BY <1>2, <1>3, <3>1 DEF Positions
      <3>2. CASE x # p
        <4>1. /\ l_pos'[x] = l_pos[x] /\ r_pos'[x] = r_pos[x]
              /\ key'[x] = key[x] /\ kid'[x] = kid[x]
          BY <1>2, <1>3, <3>2
        <4>2. i \in Positions(x) /\ LoAt(lo, x, i)' = LoAt(lo, x, i) /\ HiAt(hi, x, i)' = HiAt(hi, x, i)
          BY <4>1 DEF Positions, LoAt, HiAt
        <4>3. x \in Live \ Fresh
          BY <1>4
        <4>4. /\ lv[x] = 0 => kid[x][i] = 0
              /\ lv[x] > 0 => /\ kid[x][i] \in Live /\ lv[kid[x][i]] = lv[x] - 1
                              /\ parent_index[kid[x][i]] = x /\ parent_pos[kid[x][i]] = i
                              /\ lo[kid[x][i]] = LoAt(lo, x, i)
                              /\ hi[kid[x][i]] = HiAt(hi, x, i)
          BY <1>4, <4>2, <4>3 DEF Good, Down
        <4> QED BY <4>1, <4>2, <4>4
      <3> QED BY <3>1, <3>2
    <2> QED BY <1>1, <1>4, <2>1 DEF Down
  <1>10. Up'
    <2>1. ASSUME NEW x \in Live
          PROVE  parent_index[x] # 0 => /\ parent_index[x] \in Live /\ parent_pos[x] \in Positions(parent_index[x])'
                                        /\ kid'[parent_index[x]][parent_pos[x]] = x
      <3>1. SUFFICES ASSUME parent_index[x] # 0
                     PROVE  /\ parent_index[x] \in Live /\ parent_pos[x] \in Positions(parent_index[x])'
                            /\ kid'[parent_index[x]][parent_pos[x]] = x
        OBVIOUS
      <3>2. PICK y \in Live : /\ y = parent_index[x] /\ parent_pos[x] \in Positions(y)
                              /\ kid[y][parent_pos[x]] = x
        BY <3>1 DEF Good, Up
      <3>3. y # p
        BY <3>2, <1>4, LiveIsPage DEF Good, Down
      <3>4. Positions(y)' = Positions(y) /\ kid'[y] = kid[y]
        BY <1>2, <1>3, <3>3 DEF Positions
      <3> QED BY <1>1, <3>2, <3>4
    <2>2. \A x \in Live : parent_index[x] = 0 => parent_pos[x] = 0 /\ x = root
      BY DEF Good, Up
    <2> QED BY <1>1, <2>1, <2>2 DEF Up
  <1>11. RootOK(lo, hi, lv)'
    BY <1>1 DEF Good, RootOK
  <1>12. Size(lv)'
    <2>1. ASSUME NEW x \in Live
          PROVE  /\ size(x)' = INDEXCOUNT => job'.do = "split" /\ x = job'.page
                 /\ x # root => size(x)' >= INDEXMINR \/ (job'.do = "shrink" /\ x = job'.page)
                 /\ lv[x] > 0 => size(x)' > 0 \/ (job'.do = "shrink" /\ x = job'.page)
      <3>1. CASE x = p
        BY <1>2, <1>3, <3>1 DEF size
      <3>2. CASE x # p
        BY <1>2, <1>3, <1>4, <3>2 DEF size, Good, Size
      <3> QED BY <3>1, <3>2
    <2> QED BY <1>1, <2>1 DEF Size
  <1>13. Apart(lo, hi, lv)'
    <2>1. ASSUME NEW x \in Live, NEW y \in Live, x # y, lv[x] > lv[y]
          PROVE  \A i \in Slots(x)' : Outside(key'[x][i], lo, hi, y)
      <3>1. x # p
        BY <2>1 DEF Good, GhostType
      <3> QED BY <1>2, <1>3, <2>1, <3>1 DEF Slots, Good, Apart
    <2> QED BY <1>1, <2>1 DEF Good, Apart, Outside
  <1> QED BY <1>5, <1>6, <1>7, <1>8, <1>9, <1>10, <1>11, <1>12, <1>13 DEF Good

\* InsertInitNode keeps the invariant.
LEMMA InsertInitNodeKeeps ==
    ASSUME NEW lo, NEW hi, NEW lv, TypeOK, FreeOK, Good(lo, hi, lv), InsertInitNode
    PROVE  TypeOK' /\ FreeOK' /\ Good(lo, hi, lv)'
  <1>1. PICK op \in {"put", "del"}, k \in Key, p \in Live :
              /\ job = [do |-> "find_key", op |-> op, key |-> k, page |-> p]
              /\ lo[p] < k /\ k < hi[p]
    BY SearchJob DEF InsertInitNode, Good
  <1>2. job.do = "find_key" /\ job.key = k /\ job.page = p /\ p = root /\ size(p) = 0
    BY <1>1 DEF InsertInitNode
  <1>3. PICK l : l = INDEXMINR
    OBVIOUS
  <1>4. PICK K : K = [i \in {l} |-> k]
    OBVIOUS
  <1>5. PICK L : L = [i \in {l, l + 1} |-> 0]
    OBVIOUS
  <1>6. /\ l_pos' = [l_pos EXCEPT ![p] = l] /\ r_pos' = [r_pos EXCEPT ![p] = l + 1]
        /\ key' = [key EXCEPT ![p] = K] /\ kid' = [kid EXCEPT ![p] = L]
        /\ UNCHANGED <<links, pages>> /\ dirty' = dirty \cup {p}
        /\ answer' = <<k, FALSE>> /\ job' = Idle
    BY <1>2, <1>3, <1>4, <1>5 DEF InsertInitNode
  <1>7. l \in 0..INDEXCOUNT /\ l + 1 \in 0..INDEXCOUNT /\ l <= l + 1 /\ l + 1 - l = 1 /\ l >= 1
        /\ INDEXCOUNT > 1 /\ l..(l + 1 - 1) = {l} /\ l..(l + 1) = {l, l + 1}
    BY <1>3, Sizes
  <1>8. K \in [l..(l + 1 - 1) -> Key] /\ L \in [l..(l + 1) -> {0}]
    BY <1>4, <1>5, <1>7
  <1>9. Fresh = {} /\ Fresh' = {} /\ Job(lo, hi, lv)' /\ job'.do = "idle"
    BY <1>2, <1>6 DEF Fresh, Job, Idle
  <1>10. lv[p] = 0
    BY <1>2, <1>9 DEF Good, Size, GhostType
  <1>11. \A j \in l..(l + 1 - 1) : lo[p] < K[j] /\ K[j] < hi[p]
    BY <1>1, <1>4, <1>7
  <1>12. \A m, n \in l..(l + 1 - 1) : m < n => K[m] < K[n]
    BY <1>7
  <1>13. answer' \in {<<>>} \cup (Key \X BOOLEAN)
    BY <1>6
  <1>14. \E r : r = l + 1
    OBVIOUS
  <1>15. PICK r : r = l + 1
    OBVIOUS
  <1>16. p = root /\ r \in 0..INDEXCOUNT /\ r - l # INDEXCOUNT /\ job'.do \in {"idle", "split", "shrink"}
    BY <1>2, <1>7, <1>9, <1>15
  <1>17. /\ l \in 0..INDEXCOUNT /\ l <= r /\ K \in [l..(r - 1) -> Key] /\ L \in [l..r -> {0}]
         /\ \A j \in l..(r - 1) : lo[p] < K[j] /\ K[j] < hi[p]
         /\ \A m, n \in l..(r - 1) : m < n => K[m] < K[n]
         /\ r_pos' = [r_pos EXCEPT ![p] = r]
    BY <1>6, <1>7, <1>8, <1>11, <1>12, <1>15
  <1> QED BY <1>2, <1>6, <1>9, <1>10, <1>13, <1>16, <1>17, LeafChanged

\* What the search for k in a page says of the keys of the page.
LEMMA Searched ==
    ASSUME NEW lo, NEW hi, NEW lv, TypeOK, Good(lo, hi, lv), NEW p \in Live, NEW k \in Key,
           NEW i \in l_pos[p]..r_pos[p], EndsAt(p, k, i), ~Found(p, k, i)
    PROVE  /\ \A j \in Slots(p) : j < i => key[p][j] < k
           /\ \A j \in Slots(p) : j >= i => k < key[p][j]
  <1>1. \A j \in Slots(p) : key[p][j] \in Nat /\ j \in Int
    BY LiveTyped DEF Slots
  <1>2. \A j \in Slots(p) : j < i => key[p][j] < k
    BY LiveTyped DEF Slots, EndsAt
  <1>3. \A j \in Slots(p) : j >= i => key[p][j] >= k
    BY LiveTyped DEF Slots, EndsAt
  <1>4. ASSUME NEW j \in Slots(p), j >= i
        PROVE  key[p][j] # k
    <2>1. CASE j = i
      BY <2>1, LiveTyped DEF Found, Slots
    <2>2. CASE j > i
      <3>1. i \in Slots(p)
        BY <2>2, LiveTyped DEF Slots
      <3>2. key[p][i] < key[p][j] /\ key[p][i] >= k
        BY <2>2, <3>1, <1>1, <1>3 DEF Good, Keys
      <3> QED BY <3>1, <3>2, <1>1 DEF Key
    <2> QED BY <2>1, <2>2, <1>1, <1>4
  <1> QED BY <1>1, <1>2, <1>3, <1>4 DEF Key

\* InsertLeaf keeps the invariant.
LEMMA InsertLeafKeeps ==
    ASSUME NEW lo, NEW hi, NEW lv, TypeOK, FreeOK, Good(lo, hi, lv), InsertLeaf
    PROVE  TypeOK' /\ FreeOK' /\ Good(lo, hi, lv)'
  <1>1. PICK op \in {"put", "del"}, k \in Key, p \in Live :
              /\ job = [do |-> "find_key", op |-> op, key |-> k, page |-> p]
              /\ lo[p] < k /\ k < hi[p]
    BY SearchJob DEF InsertLeaf, Good
  <1>2. job.do = "find_key" /\ job.key = k /\ job.page = p
    BY <1>1
  <1>3. PICK i \in l_pos[p]..r_pos[p] :
              /\ EndsAt(p, k, i) /\ ~Found(p, k, i) /\ Leaf(p) /\ size(p) > 0
              /\ l_pos' = [l_pos EXCEPT ![p] = @ - Gap(p, i)]
              /\ r_pos' = [r_pos EXCEPT ![p] = @ + 1 - Gap(p, i)]
              /\ key' = [key EXCEPT ![p] = KeysWith(p, i, k)]
              /\ kid' = [kid EXCEPT ![p] = KidsWith(p, i, 0, 0)]
    BY <1>2 DEF InsertLeaf
  <1>4. /\ job' = IF size(p) + 1 = INDEXCOUNT
                  THEN [do |-> "split", page |-> p, parent |-> parent_index[p]] ELSE Idle
        /\ dirty' = dirty \cup {p} /\ answer' = <<k, FALSE>> /\ UNCHANGED <<links, pages>>
    BY <1>2 DEF InsertLeaf, SplitIfFull
  <1>5. PICK d : d = Gap(p, i)
    OBVIOUS
  <1>6. PICK K : K = KeysWith(p, i, k)
    OBVIOUS
  <1>7. PICK L : L = KidsWith(p, i, 0, 0)
    OBVIOUS
  <1>8. /\ Fresh = {} /\ i \in Positions(p) /\ lv[p] = 0
        /\ l_pos[p] \in Nat /\ r_pos[p] \in Nat /\ l_pos[p] <= r_pos[p] /\ r_pos[p] <= INDEXCOUNT
        /\ INDEXCOUNT \in Nat /\ p \in Page
    <2>1. Fresh = {} /\ i \in Positions(p)
      BY <1>2, <1>3 DEF Fresh, Positions
    <2>2. lv[p] = 0
      BY <1>3, <2>1, LeafLevel
    <2> QED BY <2>1, <2>2, LiveTyped, Sizes
  <1>9. size(p) < INDEXCOUNT /\ size(p) \in Nat
    BY <1>2, <1>8 DEF Good, Size, size
  <1>10. PICK l : l = l_pos[p] - d
    OBVIOUS
  <1>11. PICK r : r = r_pos[p] + 1 - d
    OBVIOUS
  <1>12. /\ d \in {0, 1} /\ 0 <= l /\ r <= INDEXCOUNT /\ r - 1 = r_pos[p] - d
         /\ K \in [l..(r - 1) -> Key]
    <2>1. /\ d \in {0, 1} /\ 0 <= l_pos[p] - d /\ r_pos[p] + 1 - d <= INDEXCOUNT
          /\ K \in [(l_pos[p] - d)..(r_pos[p] - d) -> Key]
      BY <1>5, <1>6, <1>8, <1>9, InsertedKeys
    <2>2. r - 1 = r_pos[p] - d
      BY <1>8, <1>11, <2>1
    <2> QED BY <1>10, <1>11, <2>1, <2>2
  <1>13. /\ \A j \in Slots(p) : j < i => key[p][j] < k
         /\ \A j \in Slots(p) : j >= i => k < key[p][j]
    BY <1>3, Searched
  <1>14. \A m, n \in l..(r - 1) : m < n => K[m] < K[n]
    <2>1. \A m, n \in Slots(p) : m < n => key[p][m] < key[p][n]
      BY DEF Good, Keys
    <2>2. \A m, n \in (l_pos[p] - d)..(r_pos[p] - d) : m < n => K[m] < K[n]
      BY <1>5, <1>6, <1>8, <1>9, <1>13, <2>1, InsertedInOrder
    <2> QED BY <1>10, <1>12, <2>2
  <1>15. \A j \in l..(r - 1) : lo[p] < K[j] /\ K[j] < hi[p]
    <2>1. \A j \in l..(r - 1) :
                 /\ j < i - d => j + d \in Slots(p) /\ j + d < i /\ K[j] = key[p][j + d]
                 /\ j = i - d => K[j] = k
                 /\ j > i - d => /\ j + d - 1 \in Slots(p) /\ j + d - 1 >= i
                                 /\ K[j] = key[p][j + d - 1]
      <3>1. \A j \in (l_pos[p] - d)..(r_pos[p] - d) :
                 /\ j < i - d => j + d \in Slots(p) /\ j + d < i /\ K[j] = key[p][j + d]
                 /\ j = i - d => K[j] = k
                 /\ j > i - d => /\ j + d - 1 \in Slots(p) /\ j + d - 1 >= i
                                 /\ K[j] = key[p][j + d - 1]
        BY <1>5, <1>6, <1>8, <1>9, InsertedKeys
      <3> QED BY <3>1, <1>10, <1>12
    <2>2. \A j \in Slots(p) : lo[p] < key[p][j] /\ key[p][j] < hi[p]
      BY DEF Good, Keys
    <2>3. \A j \in l..(r - 1) : j < i - d \/ j = i - d \/ j > i - d
      BY <1>8, <1>12, <1>10 DEF Positions
    <2> QED BY <1>1, <2>1, <2>2, <2>3
  <1>16. L \in [l..r -> {0}]
    <2>1. /\ L = [j \in l..r |-> L[j]]
          /\ \A j \in l..r :
                 /\ j < i - d => j + d \in Positions(p) /\ L[j] = kid[p][j + d]
                 /\ j = i - d => L[j] = 0
                 /\ j = i - d + 1 => L[j] = 0
                 /\ j > i - d + 1 => /\ j + d - 1 \in Positions(p)
                                     /\ L[j] = kid[p][j + d - 1]
      BY <1>5, <1>7, <1>8, <1>9, <1>10, <1>11, InsertedKids
    <2>2. \A j \in Positions(p) : kid[p][j] = 0
      BY <1>8 DEF Good, Down
    <2>3. \A j \in l..r : j < i - d \/ j = i - d \/ j = i - d + 1 \/ j > i - d + 1
      BY <1>8, <1>12, <1>10, <1>11 DEF Positions
    <2>4. \A j \in l..r : L[j] \in {0}
      BY <2>1, <2>2, <2>3
    <2> QED BY <2>1, <2>4
  <1>17. /\ l_pos' = [l_pos EXCEPT ![p] = l] /\ r_pos' = [r_pos EXCEPT ![p] = r]
         /\ key' = [key EXCEPT ![p] = K] /\ kid' = [kid EXCEPT ![p] = L]
    BY <1>3, <1>5, <1>6, <1>7, <1>8, <1>10, <1>11 DEF TypeOK
  <1>18. l \in 0..INDEXCOUNT /\ r \in 0..INDEXCOUNT /\ l <= r /\ r - l = size(p) + 1
    BY <1>8, <1>10, <1>11, <1>12 DEF size
  <1>19. answer' \in {<<>>} \cup (Key \X BOOLEAN)
    BY <1>4
  <1>20. p # root => r - l >= INDEXMINR
    BY <1>2, <1>8, <1>9, <1>18, Sizes DEF Good, Size
  <1>21. Live' = Live /\ parent_index' = parent_index
    BY <1>4 DEF links, pages, Live, Free
  <1>22. CASE size(p) + 1 = INDEXCOUNT
    <2>1. job' = [do |-> "split", page |-> p, parent |-> parent_index[p]]
      BY <1>4, <1>22
    <2>2. parent_index[p] \in Live \cup {0}
      BY DEF Good, Up
    <2>3. size(p)' = INDEXCOUNT /\ p \in dirty'
      BY <1>4, <1>8, <1>17, <1>18, <1>22 DEF size, TypeOK
    <2>4. Job(lo, hi, lv)'
      <3>1. /\ p \in Live' /\ parent_index[p] \in Live' \cup {0} /\ parent_index[p] = parent_index'[p]
        BY <1>21, <2>2
      <3>2. PICK q \in Live' \cup {0} : q = parent_index'[p] /\ job' = [do |-> "split", page |-> p, parent |-> q]
        BY <2>1, <3>1
      <3> QED BY <2>3, <3>1, <3>2 DEF Job
    <2>5. Fresh' = {} /\ job'.do = "split" /\ job'.page = p
      BY <2>1, <1>21 DEF Fresh
    <2> QED BY <1>2, <1>4, <1>8, <1>12, <1>14, <1>15, <1>16, <1>17, <1>18, <1>19, <1>20, <2>4,
         <2>5,
               LeafChanged
  <1>23. CASE size(p) + 1 # INDEXCOUNT
    <2>1. job' = Idle /\ job'.do = "idle"
      BY <1>4, <1>23 DEF Idle
    <2>2. Job(lo, hi, lv)' /\ Fresh' = {}
      BY <2>1 DEF Job, Fresh, Idle
    <2> QED BY <1>2, <1>4, <1>8, <1>12, <1>14, <1>15, <1>16, <1>17, <1>18, <1>19, <1>20,
         <1>23, <2>1, <2>2,
               LeafChanged
  <1> QED BY <1>22, <1>23

\* RemoveLeaf keeps the invariant.
LEMMA RemoveLeafKeeps ==
    ASSUME NEW lo, NEW hi, NEW lv, TypeOK, FreeOK, Good(lo, hi, lv), RemoveLeaf
    PROVE  TypeOK' /\ FreeOK' /\ Good(lo, hi, lv)'
  <1>1. PICK op \in {"put", "del"}, k \in Key, p \in Live :
              /\ job = [do |-> "find_key", op |-> op, key |-> k, page |-> p]
              /\ lo[p] < k /\ k < hi[p]
    BY SearchJob DEF RemoveLeaf, Good
  <1>2. job.do = "find_key" /\ job.key = k /\ job.page = p
    BY <1>1
  <1>3. PICK i \in l_pos[p]..r_pos[p] :
              /\ EndsAt(p, k, i) /\ Found(p, k, i) /\ Leaf(p)
              /\ l_pos' = [l_pos EXCEPT ![p] = @ + Closing(p, i)]
              /\ r_pos' = [r_pos EXCEPT ![p] = @ - 1 + Closing(p, i)]
              /\ key' = [key EXCEPT ![p] = KeysWithout(p, i)]
              /\ kid' = [kid EXCEPT ![p] = KidsWithout(p, i)]
    BY <1>2 DEF RemoveLeaf
  <1>4. /\ job' = IF size(p) - 1 < INDEXMINR /\ parent_index[p] # 0
                  THEN [do |-> "shrink", page |-> p] ELSE Idle
        /\ dirty' = dirty \cup {p} /\ answer' = <<k, TRUE>> /\ UNCHANGED <<links, pages>>
    BY <1>2 DEF RemoveLeaf, ShrinkIfSmall
  <1>5. PICK d : d = Closing(p, i)
    OBVIOUS
  <1>6. PICK K : K = KeysWithout(p, i)
    OBVIOUS
  <1>7. PICK L : L = KidsWithout(p, i)
    OBVIOUS
  <1>8. /\ Fresh = {} /\ i \in Slots(p) /\ lv[p] = 0
        /\ l_pos[p] \in Nat /\ r_pos[p] \in Nat /\ l_pos[p] <= r_pos[p] /\ r_pos[p] <= INDEXCOUNT
        /\ INDEXCOUNT \in Nat /\ p \in Page
    <2>1. Fresh = {}
      BY <1>2 DEF Fresh
    <2>2. lv[p] = 0
      BY <1>3, <2>1, LeafLevel
    <2>3. i \in Slots(p)
      BY <1>3, LiveTyped DEF Slots, Found
    <2> QED BY <2>1, <2>2, <2>3, LiveTyped, Sizes
  <1>9. size(p) < INDEXCOUNT /\ size(p) \in Nat /\ size(p) > 0
    BY <1>2, <1>8 DEF Good, Size, size, Slots
  <1>10. PICK l : l = l_pos[p] + d
    OBVIOUS
  <1>11. PICK r : r = r_pos[p] - 1 + d
    OBVIOUS
  <1>12. /\ d \in {0, 1} /\ l <= INDEXCOUNT /\ 0 <= r /\ r <= INDEXCOUNT /\ l <= r
         /\ K \in [l..(r - 1) -> Key]
         /\ \A j \in l..(r - 1) :
                 /\ j < i + d => j - d \in Slots(p) /\ K[j] = key[p][j - d]
                 /\ j >= i + d => j - d + 1 \in Slots(p) /\ K[j] = key[p][j - d + 1]
    <2>1. /\ d \in {0, 1} /\ l_pos[p] + d <= INDEXCOUNT
          /\ 0 <= r_pos[p] - 1 + d /\ r_pos[p] - 1 + d <= INDEXCOUNT
          /\ l_pos[p] + d <= r_pos[p] - 1 + d
          /\ K \in [(l_pos[p] + d)..(r_pos[p] + d - 2) -> Key]
          /\ \A j \in (l_pos[p] + d)..(r_pos[p] + d - 2) :
                 /\ j < i + d => j - d \in Slots(p) /\ j - d < i /\ K[j] = key[p][j - d]
                 /\ j >= i + d => j - d + 1 \in Slots(p) /\ j - d + 1 > i /\ K[j] = key[p][j - d + 1]
      BY <1>5, <1>6, <1>8, ClosedKeys, SMTT(30)
    <2>2. r - 1 = r_pos[p] + d - 2
      BY <1>8, <1>11, <2>1
    <2> QED BY <1>10, <1>11, <2>1, <2>2
  <1>13. \A m, n \in l..(r - 1) : m < n => K[m] < K[n]
    <2>1. \A m, n \in Slots(p) : m < n => key[p][m] < key[p][n]
      BY DEF Good, Keys
    <2>2. \A m, n \in (l_pos[p] + d)..(r_pos[p] + d - 2) : m < n => K[m] < K[n]
      BY <1>5, <1>6, <1>8, <2>1, ClosedInOrder
    <2>3. r - 1 = r_pos[p] + d - 2
      BY <1>8, <1>11, <1>12
    <2> QED BY <1>10, <1>11, <2>2, <2>3
  <1>14. \A j \in l..(r - 1) : lo[p] < K[j] /\ K[j] < hi[p]
    <2>1. \A j \in Slots(p) : lo[p] < key[p][j] /\ key[p][j] < hi[p]
      BY DEF Good, Keys
    <2>2. \A j \in l..(r - 1) : j < i + d \/ j >= i + d
      BY <1>8, <1>12, <1>10 DEF Slots
    <2> QED BY <1>12, <2>1, <2>2
  <1>15. L \in [l..r -> {0}]
    <2>1. /\ L \in [l..r -> 0..max]
          /\ \A j \in l..r :
                 /\ j <= i + d => j - d \in Positions(p) /\ L[j] = kid[p][j - d]
                 /\ j > i + d => j - d + 1 \in Positions(p) /\ L[j] = kid[p][j - d + 1]
      BY <1>5, <1>7, <1>8, <1>10, <1>11, ClosedKids
    <2>2. \A j \in Positions(p) : kid[p][j] = 0
      BY <1>8 DEF Good, Down
    <2>3. \A j \in l..r : j <= i + d \/ j > i + d
      BY <1>8, <1>12, <1>10, <1>11 DEF Slots
    <2>4. \A j \in l..r : L[j] \in {0}
      BY <2>1, <2>2, <2>3
    <2> QED BY <2>1, <2>4
  <1>16. /\ l_pos' = [l_pos EXCEPT ![p] = l] /\ r_pos' = [r_pos EXCEPT ![p] = r]
         /\ key' = [key EXCEPT ![p] = K] /\ kid' = [kid EXCEPT ![p] = L]
    BY <1>3, <1>5, <1>6, <1>7, <1>8, <1>10, <1>11 DEF TypeOK
  <1>17. l \in 0..INDEXCOUNT /\ r \in 0..INDEXCOUNT /\ r - l = size(p) - 1 /\ r - l # INDEXCOUNT
    <2>1. size(p) = r_pos[p] - l_pos[p]
      BY DEF size
    <2>2. d \in 0..1 /\ l \in Int /\ r \in Int /\ 0 <= l /\ 0 <= r /\ l <= INDEXCOUNT /\ r <= INDEXCOUNT
      BY <1>8, <1>10, <1>11, <1>12
    <2>3. r - l = size(p) - 1
      BY <1>8, <1>10, <1>11, <2>1, <2>2
    <2>4. r - l # INDEXCOUNT
      BY <1>8, <1>9, <2>3
    <2> QED BY <1>8, <2>2, <2>3, <2>4
  <1>18. answer' \in {<<>>} \cup (Key \X BOOLEAN)
    BY <1>4
  <1>19. Live' = Live /\ parent_index' = parent_index
    BY <1>4 DEF links, pages, Live, Free
  <1>20. CASE size(p) - 1 < INDEXMINR /\ parent_index[p] # 0
    <2>1. job' = [do |-> "shrink", page |-> p]
      BY <1>4, <1>20
    <2>2. size(p) - 1 = INDEXMINR - 1
      BY <1>2, <1>8, <1>9, <1>20, Sizes DEF Good, Size, RootOK
    <2>3. size(p)' = INDEXMINR - 1 /\ p \in dirty' /\ parent_index'[p] # 0
      BY <1>4, <1>8, <1>16, <1>17, <1>19, <1>20, <2>2 DEF size, TypeOK
    <2>4. Job(lo, hi, lv)'
      BY <1>19, <2>1, <2>3 DEF Job
    <2>5. Fresh' = {} /\ job'.do = "shrink" /\ job'.page = p
      BY <2>1, <1>19 DEF Fresh
    <2> QED BY <1>2, <1>4, <1>8, <1>12, <1>13, <1>14, <1>15, <1>16, <1>17, <1>18, <2>4, <2>5,
               LeafChanged
  <1>21. CASE ~(size(p) - 1 < INDEXMINR /\ parent_index[p] # 0)
    <2>1. job' = Idle /\ job'.do = "idle"
      BY <1>4, <1>21 DEF Idle
    <2>2. Job(lo, hi, lv)' /\ Fresh' = {}
      BY <2>1 DEF Job, Fresh, Idle
    <2>3. p # root => parent_index[p] # 0
      BY <1>2 DEF Good, Up
    <2>4. p # root => r - l >= INDEXMINR
      BY <1>9, <1>17, <1>21, <2>3, Sizes
    <2> QED BY <1>2, <1>4, <1>8, <1>12, <1>13, <1>14, <1>15, <1>16, <1>17, <1>18, <2>1, <2>2,
         <2>4,
               LeafChanged
  <1> QED BY <1>20, <1>21

-------------------------------------------------------------------------------
(* A key in the middle of the tree is replaced by the one before it.       *)

\* Key k gives way to key v.
Renamed(n, k, v) == IF n = k THEN v ELSE n

\* No bound or key above the leaves lies between the bounds of leaf p, so that
\* renaming the upper one keeps their order.
LEMMA RenamedOrder ==
    ASSUME NEW a \in Int, NEW b \in Int, NEW u \in Int, NEW v \in Int, NEW k \in Int,
           u < v, v < k, a <= u \/ k <= a, b <= u \/ k <= b
    PROVE  /\ a < b => Renamed(a, k, v) < Renamed(b, k, v)
           /\ a <= b => Renamed(a, k, v) <= Renamed(b, k, v)
  BY DEF Renamed

\* No bound of any page and no key above the leaves lies within the bounds of
\* a leaf, and each of the two bounds is that of one leaf only.
LEMMA NothingBetween ==
    ASSUME NEW lo, NEW hi, NEW lv, TypeOK, Good(lo, hi, lv), NEW p \in Live, lv[p] = 0
    PROVE  /\ \A x \in Live : lo[x] <= lo[p] \/ hi[p] <= lo[x]
           /\ \A x \in Live : hi[x] <= lo[p] \/ hi[p] <= hi[x]
           /\ \A x \in Live : \A j \in Slots(x) :
                 lv[x] > 0 => key[x][j] <= lo[p] \/ hi[p] <= key[x][j]
           /\ \A x \in Live : lv[x] = 0 /\ hi[x] = hi[p] => x = p
           /\ \A x \in Live : lv[x] = 0 /\ lo[x] = lo[p] => x = p
  <1>1. \A x \in Live : lo[x] \in Int /\ hi[x] \in Int /\ lv[x] \in Nat /\ lo[x] < hi[x]
    BY KeyAssumption DEF Good, GhostType, Keys
  <1>2. \A x \in Live : lv[x] = 0 /\ x # p => hi[x] <= lo[p] \/ hi[p] <= lo[x]
    BY DEF Good, Apart
  <1>3. \A x \in Live : lv[x] > 0 => /\ lo[x] <= lo[p] \/ hi[p] <= lo[x]
                                     /\ hi[x] <= lo[p] \/ hi[p] <= hi[x]
    BY DEF Good, Apart, Outside
  <1>4. \A x \in Live : \A j \in Slots(x) :
                 lv[x] > 0 => key[x][j] <= lo[p] \/ hi[p] <= key[x][j]
    BY DEF Good, Apart, Outside
  <1>5. \A x \in Live : x = p => /\ lo[x] <= lo[p] /\ hi[p] <= hi[x]
    BY <1>1
  <1>6. \A x \in Live : lv[x] = 0 /\ x # p =>
                 /\ lo[x] <= lo[p] \/ hi[p] <= lo[x]
                 /\ hi[x] <= lo[p] \/ hi[p] <= hi[x]
                 /\ hi[x] # hi[p] /\ lo[x] # lo[p]
    BY <1>1, <1>2
  <1>7. \A x \in Live : lv[x] = 0 \/ lv[x] > 0
    BY <1>1
  <1> QED BY <1>3, <1>4, <1>5, <1>6, <1>7

\* A key of an inner page is in no other slot of an inner page.
LEMMA KeyOnce ==
    ASSUME NEW lo, NEW hi, NEW lv, TypeOK, Good(lo, hi, lv),
           NEW x \in Live, NEW y \in Live, NEW i \in Slots(x), NEW j \in Slots(y),
           key[x][i] = key[y][j]
    PROVE  x = y /\ i = j
  <1>1. /\ lo[x] < key[x][i] /\ key[x][i] < hi[x] /\ lo[y] < key[y][j] /\ key[y][j] < hi[y]
        /\ \A m, n \in Slots(x) : m < n => key[x][m] < key[x][n]
    BY DEF Good, Keys
  <1>2. /\ lo[x] \in Int /\ hi[x] \in Int /\ lo[y] \in Int /\ hi[y] \in Int
        /\ lv[x] \in Nat /\ lv[y] \in Nat
        /\ key[x][i] \in Int /\ key[y][j] \in Int /\ i \in Int /\ j \in Int
    BY LiveTyped, KeyAssumption DEF Good, GhostType, Slots
  <1>3. x = y
    <2>1. SUFFICES ASSUME x # y PROVE FALSE
      OBVIOUS
    <2>2. CASE lv[x] = lv[y]
      BY <1>1, <1>2, <2>1, <2>2 DEF Good, Apart
    <2>3. CASE lv[x] > lv[y]
      <3>1. Outside(key[x][i], lo, hi, y)
        BY <2>1, <2>3 DEF Good, Apart
      <3> QED BY <1>1, <1>2, <3>1 DEF Outside
    <2>4. CASE lv[y] > lv[x]
      <3>1. Outside(key[y][j], lo, hi, x)
        BY <2>1, <2>4 DEF Good, Apart
      <3> QED BY <1>1, <1>2, <3>1 DEF Outside
    <2> QED BY <1>2, <2>2, <2>3, <2>4
  <1>4. i = j
    BY <1>1, <1>2, <1>3
  <1> QED BY <1>3, <1>4

\* Where the last key of leaf p goes, and what becomes of the leaf.
LEMMA LastLeafKey ==
    ASSUME NEW lo, NEW hi, NEW lv, TypeOK, Good(lo, hi, lv), NEW p \in Live,
           lv[p] = 0, size(p) > 0, Fresh = {}
    PROVE  \E i, d, K, L, l, r :
              /\ i = r_pos[p] - 1 /\ i \in Slots(p)
              /\ d = Closing(p, i) /\ K = KeysWithout(p, i) /\ L = KidsWithout(p, i)
              /\ l = l_pos[p] + d /\ r = r_pos[p] - 1 + d
              /\ l \in 0..INDEXCOUNT /\ r \in 0..INDEXCOUNT /\ l <= r /\ r - l = size(p) - 1
              /\ K \in [l..(r - 1) -> Key] /\ L \in [l..r -> {0}]
              /\ \A j \in l..(r - 1) : lo[p] < K[j] /\ K[j] < key[p][i]
              /\ \A m, n \in l..(r - 1) : m < n => K[m] < K[n]
  <1>1. PICK i : i = r_pos[p] - 1
    OBVIOUS
  <1>2. PICK d : d = Closing(p, i)
    OBVIOUS
  <1>3. PICK K, L : K = KeysWithout(p, i) /\ L = KidsWithout(p, i)
    OBVIOUS
  <1>4. PICK l, r : l = l_pos[p] + d /\ r = r_pos[p] - 1 + d
    OBVIOUS
  <1>5. i \in Slots(p)
    BY <1>1, LiveTyped DEF Slots, size
  <1>6. /\ l_pos[p] \in Nat /\ r_pos[p] \in Nat /\ l_pos[p] <= r_pos[p] /\ r_pos[p] <= INDEXCOUNT
        /\ INDEXCOUNT \in Nat
         /\ i \in Int /\ i = r_pos[p] - 1
    BY <1>1, LiveTyped, Sizes DEF Slots
  <1>7. /\ d \in {0, 1} /\ l_pos[p] + d <= INDEXCOUNT
        /\ 0 <= r_pos[p] - 1 + d /\ r_pos[p] - 1 + d <= INDEXCOUNT
        /\ l_pos[p] + d <= r_pos[p] - 1 + d
        /\ K \in [(l_pos[p] + d)..(r_pos[p] + d - 2) -> Key]
        /\ \A j \in (l_pos[p] + d)..(r_pos[p] + d - 2) :
                 /\ j < i + d => j - d \in Slots(p) /\ j - d < i /\ K[j] = key[p][j - d]
                 /\ j >= i + d => j - d + 1 \in Slots(p) /\ j - d + 1 > i /\ K[j] = key[p][j - d + 1]
    BY <1>2, <1>3, <1>5, ClosedKeys
  <1>8. r - 1 = r_pos[p] + d - 2
    BY <1>6, <1>7, <1>4
  <1>9. l \in 0..INDEXCOUNT /\ r \in 0..INDEXCOUNT /\ l <= r /\ r - l = size(p) - 1
    <2>1. d \in Nat /\ l \in Nat /\ r \in Nat
      BY <1>6, <1>7, <1>4
    <2>2. l <= INDEXCOUNT /\ r <= INDEXCOUNT /\ l <= r
      BY <1>6, <1>7, <1>4, <2>1
    <2>3. r - l = r_pos[p] - l_pos[p] - 1
      BY <1>6, <1>4, <2>1
    <2> QED BY <1>6, <2>1, <2>2, <2>3 DEF size
  <1>10. K \in [l..(r - 1) -> Key]
    BY <1>7, <1>8, <1>4
  <1>11. \A m, n \in Slots(p) : m < n => key[p][m] < key[p][n]
    BY DEF Good, Keys
  <1>12. \A m, n \in (l_pos[p] + d)..(r_pos[p] + d - 2) : m < n => K[m] < K[n]
    BY <1>11, <1>2, <1>3, <1>5, ClosedInOrder
  <1>13. \A m, n \in l..(r - 1) : m < n => K[m] < K[n]
    BY <1>8, <1>12, <1>4
  <1>14. \A j \in l..(r - 1) : lo[p] < K[j] /\ K[j] < key[p][i]
    <2>1. TAKE j \in l..(r - 1)
    <2>2. j \in Int /\ j < i + d
      BY <1>6, <1>7, <1>8, <1>1, <1>4
    <2>3. j - d \in Slots(p) /\ j - d < i /\ K[j] = key[p][j - d]
      BY <1>7, <1>8, <1>4, <2>2
    <2> QED BY <1>11, <1>5, <2>3 DEF Good, Keys
  <1>15. L \in [l..r -> {0}]
    <2>1. /\ L \in [l..r -> 0..max]
          /\ \A j \in l..r :
                 /\ j <= i + d => j - d \in Positions(p) /\ L[j] = kid[p][j - d]
                 /\ j > i + d => j - d + 1 \in Positions(p) /\ L[j] = kid[p][j - d + 1]
      <3>1. /\ L \in [(l_pos[p] + d)..(r_pos[p] - 1 + d) -> 0..max]
            /\ \A j \in (l_pos[p] + d)..(r_pos[p] - 1 + d) :
                 /\ j <= i + d => j - d \in Positions(p) /\ L[j] = kid[p][j - d]
                 /\ j > i + d => j - d + 1 \in Positions(p) /\ L[j] = kid[p][j - d + 1]
        BY <1>2, <1>3, <1>5, ClosedKids
      <3> QED BY <1>4, <3>1
    <2>2. \A j \in Positions(p) : kid[p][j] = 0
      BY DEF Good, Down
    <2>3. \A j \in l..r : j <= i + d \/ j > i + d
      BY <1>6, <1>7, <1>9
    <2>4. \A j \in l..r : L[j] \in {0}
      BY <2>1, <2>2, <2>3
    <2> QED BY <2>1, <2>4
  <1> QED BY <1>9, <1>10, <1>13, <1>14, <1>15, <1>1, <1>2, <1>3, <1>4, <1>5

\* RemoveInternal keeps the invariant: the last key of a leaf takes the place
\* of its upper bound, wherever that occurs.
LEMMA RemoveInternalKeeps ==
    ASSUME NEW lo, NEW hi, NEW lv, TypeOK, FreeOK, Good(lo, hi, lv), RemoveInternal
    PROVE  TypeOK' /\ FreeOK' /\ \E lo2, hi2 : Good(lo2, hi2, lv)'
  <1>1. PICK g \in Live, p \in Live, h \in 0..INDEXCOUNT, k \in Key :
              /\ job = [do |-> "remove_internal", page |-> g, pos |-> h, key |-> k, leaf |-> p]
              /\ h \in Slots(g) /\ key[g][h] = k
              /\ lv[p] < lv[g] /\ hi[p] = k
              /\ g \in dirty
    BY DescentJob DEF RemoveInternal, Good
  <1>2. /\ job.do = "remove_internal" /\ job.page = g /\ job.pos = h /\ job.key = k /\ job.leaf = p
    BY <1>1
  <1>3. Leaf(p) /\ Fresh = {}
    BY <1>2 DEF RemoveInternal, Fresh
  <1>4. lv[p] = 0 /\ p # g /\ lv[g] > 0 /\ p # root
    <2>1. lv[p] = 0
      BY <1>3, LeafLevel
    <2>2. lv[g] \in Nat /\ lv[root] \in Nat /\ lv[g] <= lv[root]
      BY DEF Good, GhostType, RootOK
    <2> QED BY <1>1, <2>1, <2>2
  <1>5. /\ p \in Page /\ g \in Page /\ Live \subseteq Page
        /\ l_pos[p] \in Nat /\ r_pos[p] \in Nat /\ l_pos[p] <= r_pos[p] /\ r_pos[p] <= INDEXCOUNT
        /\ INDEXCOUNT \in Nat
    BY LiveTyped, LiveIsPage, Sizes
  <1>6. size(p) \in Nat /\ size(p) >= INDEXMINR /\ size(p) < INDEXCOUNT /\ size(p) > 0
    <2>1. size(p) >= INDEXMINR /\ size(p) # INDEXCOUNT
      BY <1>2, <1>4, <1>3 DEF Good, Size
    <2> QED BY <1>5, <2>1, Sizes DEF size
  <1>7. PICK i, d, K, L, l, r :
              /\ i = r_pos[p] - 1 /\ i \in Slots(p)
              /\ d = Closing(p, i) /\ K = KeysWithout(p, i) /\ L = KidsWithout(p, i)
              /\ l = l_pos[p] + d /\ r = r_pos[p] - 1 + d
              /\ l \in 0..INDEXCOUNT /\ r \in 0..INDEXCOUNT /\ l <= r /\ r - l = size(p) - 1
              /\ K \in [l..(r - 1) -> Key] /\ L \in [l..r -> {0}]
              /\ \A j \in l..(r - 1) : lo[p] < K[j] /\ K[j] < key[p][i]
              /\ \A m, n \in l..(r - 1) : m < n => K[m] < K[n]
    BY <1>4, <1>6, <1>3, LastLeafKey
  <1>8. PICK v : v = key[p][i]
    OBVIOUS
  <1>9. PICK lo2 : lo2 = [x \in Page |-> Renamed(lo[x], k, v)]
    OBVIOUS
  <1>10. PICK hi2 : hi2 = [x \in Page |-> Renamed(hi[x], k, v)]
    OBVIOUS
  <1>11. /\ Leaf(p)
         /\ l_pos' = [l_pos EXCEPT ![p] = @ + d] /\ r_pos' = [r_pos EXCEPT ![p] = @ - 1 + d]
         /\ key' = [key EXCEPT ![g] = [@ EXCEPT ![h] = v], ![p] = K]
         /\ kid' = [kid EXCEPT ![p] = L]
         /\ UNCHANGED <<links, pages>> /\ dirty' = dirty \cup {p} /\ answer' = <<k, TRUE>>
         /\ job' = IF size(p) - 1 < INDEXMINR /\ parent_index[p] # 0
                   THEN [do |-> "shrink", page |-> p] ELSE Idle
    BY <1>2, <1>7, <1>8 DEF RemoveInternal, ShrinkIfSmall
  <1>12. Fresh = {} /\ Half = {} /\ Half' = {} /\ Fresh' = {}
    BY <1>2, <1>11 DEF Fresh, Half, Idle
  <1>13. /\ l \in 0..INDEXCOUNT /\ r \in 0..INDEXCOUNT /\ l <= r /\ r - l = size(p) - 1
         /\ K \in [l..(r - 1) -> Key] /\ L \in [l..r -> {0}]
         /\ \A j \in l..(r - 1) : lo[p] < K[j] /\ K[j] < v
         /\ \A m, n \in l..(r - 1) : m < n => K[m] < K[n]
    BY <1>7, <1>8
  <1>14. lo[p] \in Int /\ v \in Int /\ k \in Int /\ v \in Key /\ lo[p] < v /\ v < k
         /\ k \in 1..MaxKey /\ MaxKey \in Nat /\ lo[p] >= 0
    <2>1. i \in Slots(p) /\ v = key[p][i]
      BY <1>7, <1>8
    <2>2. v \in 1..MaxKey /\ lo[p] < v /\ v < hi[p]
      BY <2>1, LiveTyped DEF Good, Keys
    <2>3. lo[p] \in 0..(MaxKey + 1) /\ k \in 1..MaxKey /\ hi[p] = k /\ MaxKey \in Nat
      BY <1>1, KeyAssumption DEF Good, GhostType, Key
    <2> QED BY <2>2, <2>3 DEF Key
  <1>15. /\ \A x \in Page : /\ l_pos'[x] = IF x = p THEN l ELSE l_pos[x]
                            /\ r_pos'[x] = IF x = p THEN r ELSE r_pos[x]
                            /\ kid'[x] = IF x = p THEN L ELSE kid[x]
                            /\ x \notin {p, g} => key'[x] = key[x]
         /\ key'[p] = K /\ key'[g] = [key[g] EXCEPT ![h] = v]
         /\ DOMAIN key' = Page /\ DOMAIN kid' = Page
         /\ l_pos' \in [Page -> 0..INDEXCOUNT] /\ r_pos' \in [Page -> 0..INDEXCOUNT]
    BY <1>7, <1>11, <1>4, <1>5, <1>13 DEF TypeOK
  <1>16. /\ parent_index' = parent_index /\ parent_pos' = parent_pos
         /\ root' = root /\ max' = max /\ free' = free /\ Live' = Live
    BY <1>11 DEF links, pages, Live, Free
  <1>17. /\ key[g] \in [Slots(g) -> Key] /\ l_pos'[g] = l_pos[g] /\ r_pos'[g] = r_pos[g]
    BY <1>4, <1>5, <1>15 DEF Slots, TypeOK
  <1>18. \A x \in Live \ {p} : /\ Slots(x)' = Slots(x) /\ Positions(x)' = Positions(x)
                               /\ size(x)' = size(x) /\ kid'[x] = kid[x]
    BY <1>5, <1>15 DEF Slots, Positions, size
  <1>19. \A x \in Live \ {p} : \A j \in Slots(x) :
            key'[x][j] = IF x = g /\ j = h THEN v ELSE key[x][j]
    BY <1>5, <1>15, <1>17
  <1>20. \A x \in Live : \A j \in Slots(x) : lv[x] > 0 => key'[x][j] = Renamed(key[x][j], k, v)
    <2>1. ASSUME NEW x \in Live, NEW j \in Slots(x), lv[x] > 0
          PROVE  key'[x][j] = Renamed(key[x][j], k, v)
      <3>1. key[x][j] = k => x = g /\ j = h
        BY <1>1, KeyOnce
      <3>2. x # p
        BY <1>4, <2>1
      <3>3. key'[x][j] = IF x = g /\ j = h THEN v ELSE key[x][j]
        BY <1>19, <3>2
      <3>4. x = g /\ j = h => key[x][j] = k
        BY <1>1
      <3> QED BY <3>1, <3>3, <3>4 DEF Renamed
    <2> QED BY <2>1
  <1>21. TypeOK'
    <2>1. \A x \in Page \ {p} : key'[x] \in [l_pos'[x]..(r_pos'[x] - 1) -> Key]
      <3>1. key'[g] \in [Slots(g) -> Key]
        BY <1>14, <1>15, <1>17
      <3>2. \A x \in Page \ {p, g} : key'[x] \in [l_pos'[x]..(r_pos'[x] - 1) -> Key]
        BY <1>15 DEF TypeOK
      <3> QED BY <1>15, <1>17, <3>1, <3>2 DEF Slots
    <2>2. ASSUME NEW x \in Page
          PROVE  /\ l_pos'[x] <= r_pos'[x] /\ kid'[x] \in [l_pos'[x]..r_pos'[x] -> 0..max]
                 /\ key'[x] \in [l_pos'[x]..(r_pos'[x] - 1) -> Key]
      <3>1. CASE x # p
        BY <1>15, <2>1, <3>1 DEF TypeOK
      <3>2. CASE x = p
        <4>1. 0 \in 0..max
          BY DEF TypeOK, Page
        <4>2. L \in [l..r -> 0..max]
          BY <4>1, <1>13
        <4> QED BY <1>13, <1>15, <3>2, <4>2
      <3> QED BY <3>1, <3>2
    <2>3. dirty' \subseteq Page /\ answer' \in Key \X BOOLEAN
      BY <1>11, <1>5 DEF TypeOK
    <2> QED BY <1>15, <1>16, <2>2, <2>3 DEF TypeOK
  <1>22. FreeOK'
    BY <1>16 DEF FreeOK
  <1>23. \A x \in Live : /\ lo2[x] = Renamed(lo[x], k, v) /\ hi2[x] = Renamed(hi[x], k, v)
                         /\ lo[x] \in Int /\ hi[x] \in Int /\ lo[x] < hi[x]
                         /\ lo[x] <= lo[p] \/ k <= lo[x]
                         /\ hi[x] <= lo[p] \/ k <= hi[x]
                         /\ lv[x] \in Nat
    BY <1>1, <1>9, <1>10, <1>4, <1>5, NothingBetween, KeyAssumption DEF Good, GhostType, Keys
  <1>24. \A x \in Live : \A j \in Slots(x) : lv[x] > 0 => /\ key[x][j] <= lo[p] \/ k <= key[x][j]
                                                          /\ key[x][j] \in Int
    BY <1>1, <1>4, NothingBetween, LiveTyped
  <1>25. \A a, b \in Int :
            (a <= lo[p] \/ k <= a) /\ (b <= lo[p] \/ k <= b) =>
               /\ a < b => Renamed(a, k, v) < Renamed(b, k, v)
               /\ a <= b => Renamed(a, k, v) <= Renamed(b, k, v)
    BY <1>14 DEF Renamed
  <1>26. GhostType(lo2, hi2, lv)'
    BY <1>14, <1>16, <1>23 DEF Good, GhostType, Renamed
  <1>27. Keys(lo2, hi2)'
    <2>1. ASSUME NEW x \in Live
          PROVE  /\ lo2[x] < hi2[x]
                 /\ \A j \in Slots(x)' : lo2[x] < key'[x][j] /\ key'[x][j] < hi2[x]
                 /\ \A m, n \in Slots(x)' : m < n => key'[x][m] < key'[x][n]
      <3>1. lo2[x] < hi2[x]
        BY <1>23, <1>25
      <3>2. CASE x = p
        <4>1. lo2[p] = lo[p] /\ hi2[p] = v /\ Slots(p)' = l..(r - 1) /\ key'[p] = K
          BY <1>1, <1>5, <1>14, <1>15, <1>23 DEF Renamed, Slots
        <4> QED BY <1>13, <3>1, <3>2, <4>1
      <3>3. CASE x # p /\ lv[x] > 0
        <4>1. ASSUME NEW j \in Slots(x)
              PROVE  lo2[x] < key'[x][j] /\ key'[x][j] < hi2[x]
          <5>1. lo[x] < key[x][j] /\ key[x][j] < hi[x]
            BY DEF Good, Keys
          <5> QED BY <1>20, <1>23, <1>24, <1>25, <3>3, <5>1
        <4>2. ASSUME NEW m \in Slots(x), NEW n \in Slots(x), m < n
              PROVE  key'[x][m] < key'[x][n]
          <5>1. key[x][m] < key[x][n]
            BY <4>2 DEF Good, Keys
          <5> QED BY <1>20, <1>24, <1>25, <3>3, <5>1
        <4> QED BY <1>18, <3>1, <3>3, <4>1, <4>2
      <3>4. CASE x # p /\ lv[x] = 0
        <4>1. x # g /\ hi[x] # k
          BY <1>1, <1>4, <3>4, NothingBetween
        <4>2. Slots(x)' = Slots(x) /\ key'[x] = key[x]
          BY <1>5, <1>15, <1>18, <3>4, <4>1
        <4>3. hi2[x] = hi[x] /\ lo2[x] <= lo[x]
          BY <1>14, <1>23, <4>1 DEF Renamed
        <4>4. lo2[x] \in Int
          BY <1>14, <1>23 DEF Renamed
        <4>5. \A j \in Slots(x) : /\ lo[x] < key[x][j] /\ key[x][j] < hi[x] /\ key[x][j] \in Int
          BY LiveTyped DEF Good, Keys
        <4>6. \A m, n \in Slots(x) : m < n => key[x][m] < key[x][n]
          BY DEF Good, Keys
        <4>7. \A j \in Slots(x) : lo2[x] < key[x][j]
          BY <1>23, <4>3, <4>4, <4>5
        <4> QED BY <3>1, <4>2, <4>3, <4>5, <4>6, <4>7
      <3> QED BY <1>23, <3>2, <3>3, <3>4
    <2> QED BY <1>16, <2>1 DEF Keys
  <1>28. Down(lo2, hi2, lv)'
    <2>1. ASSUME NEW x \in Live, NEW i0 \in Positions(x)'
          PROVE  /\ lv[x] = 0 => kid'[x][i0] = 0
                 /\ lv[x] > 0 => /\ kid'[x][i0] \in Live /\ lv[kid'[x][i0]] = lv[x] - 1
                                 /\ parent_index[kid'[x][i0]] = x /\ parent_pos[kid'[x][i0]] = i0
                                 /\ lo2[kid'[x][i0]] = LoAt(lo2, x, i0)'
                                 /\ hi2[kid'[x][i0]] = HiAt(hi2, x, i0)'
      <3>1. CASE x = p
        BY <1>4, <1>5, <1>13, <1>15, <3>1 DEF Positions
      <3>2. CASE x # p /\ lv[x] = 0
        BY <1>12, <1>18, <3>2 DEF Good, Down
      <3>3. CASE x # p /\ lv[x] > 0
        <4>1. i0 \in Positions(x) /\ kid'[x] = kid[x]
          BY <1>18, <3>3
        <4>2. PICK c \in Live : c = kid[x][i0]
          BY <1>12, <3>3, <4>1 DEF Good, Down
        <4>3. /\ lv[c] = lv[x] - 1 /\ parent_index[c] = x /\ parent_pos[c] = i0
              /\ lo[c] = LoAt(lo, x, i0) /\ hi[c] = HiAt(hi, x, i0)
          BY <1>12, <3>3, <4>1, <4>2 DEF Good, Down
        <4>4. l_pos'[x] = l_pos[x] /\ r_pos'[x] = r_pos[x] /\ i0 \in Int
              /\ l_pos[x] \in Int /\ r_pos[x] \in Int /\ l_pos[x] <= i0 /\ i0 <= r_pos[x]
          BY <1>5, <1>15, <3>3, <4>1, LiveTyped DEF Positions
        <4>5. lo2[c] = LoAt(lo2, x, i0)'
          <5>1. CASE i0 = l_pos[x]
            BY <1>23, <4>3, <4>4, <5>1 DEF LoAt
          <5>2. CASE i0 # l_pos[x]
            <6>1. i0 - 1 \in Slots(x)
              BY <4>4, <5>2 DEF Slots
            <6> QED BY <1>20, <1>23, <3>3, <4>3, <4>4, <5>2, <6>1 DEF LoAt
          <5> QED BY <5>1, <5>2
        <4>6. hi2[c] = HiAt(hi2, x, i0)'
          <5>1. CASE i0 = r_pos[x]
            BY <1>23, <4>3, <4>4, <5>1 DEF HiAt
          <5>2. CASE i0 # r_pos[x]
            <6>1. i0 \in Slots(x)
              BY <4>4, <5>2 DEF Slots
            <6> QED BY <1>20, <1>23, <3>3, <4>3, <4>4, <5>2, <6>1 DEF HiAt
          <5> QED BY <5>1, <5>2
        <4> QED BY <3>3, <4>1, <4>2, <4>3, <4>5, <4>6
      <3> QED BY <1>23, <3>1, <3>2, <3>3
    <2> QED BY <1>12, <1>16, <2>1 DEF Down
  <1>29. Up'
    <2>1. ASSUME NEW x \in Live
          PROVE  parent_index[x] # 0 => /\ parent_index[x] \in Live /\ parent_pos[x] \in Positions(parent_index[x])'
                                        /\ kid'[parent_index[x]][parent_pos[x]] = x
      <3>1. SUFFICES ASSUME parent_index[x] # 0
                     PROVE  /\ parent_index[x] \in Live /\ parent_pos[x] \in Positions(parent_index[x])'
                            /\ kid'[parent_index[x]][parent_pos[x]] = x
        OBVIOUS
      <3>2. PICK y \in Live : /\ y = parent_index[x] /\ parent_pos[x] \in Positions(y)
                              /\ kid[y][parent_pos[x]] = x
        BY <3>1 DEF Good, Up
      <3>3. y # p
        BY <3>2, <1>12, <1>4, LiveIsPage DEF Good, Down
      <3>4. Positions(y)' = Positions(y) /\ kid'[y] = kid[y]
        BY <1>18, <3>3
      <3> QED BY <1>16, <3>2, <3>4
    <2>2. \A x \in Live : parent_index[x] = 0 => parent_pos[x] = 0 /\ x = root
      BY <1>2 DEF Good, Up
    <2> QED BY <1>12, <1>16, <2>1, <2>2 DEF Up
  <1>30. RootOK(lo2, hi2, lv)'
    BY <1>14, <1>16, <1>23 DEF Good, RootOK, Renamed
  <1>31. parent_index[p] # 0
    BY <1>2, <1>4 DEF Good, Up
  <1>32. size(p)' = size(p) - 1
    BY <1>5, <1>13, <1>15 DEF size
  <1>33. Size(lv)'
    <2>1. ASSUME NEW x \in Live
          PROVE  /\ size(x)' = INDEXCOUNT => job'.do = "split" /\ x = job'.page
                 /\ x # root => size(x)' >= INDEXMINR \/ (job'.do = "shrink" /\ x = job'.page)
                 /\ lv[x] > 0 => size(x)' > 0 \/ (job'.do = "shrink" /\ x = job'.page)
      <3>1. CASE x = p
        BY <1>11, <1>4, <1>5, <1>6, <1>31, <1>32, <3>1, Sizes
      <3>2. CASE x # p
        BY <1>2, <1>12, <1>18, <3>2 DEF Good, Size
      <3> QED BY <3>1, <3>2
    <2> QED BY <1>16, <2>1 DEF Size
  <1>34. Apart(lo2, hi2, lv)'
    <2>1. ASSUME NEW x \in Live, NEW y \in Live, x # y, lv[x] = lv[y]
          PROVE  hi2[x] <= lo2[y] \/ hi2[y] <= lo2[x]
      <3>1. hi[x] <= lo[y] \/ hi[y] <= lo[x]
        BY <2>1 DEF Good, Apart
      <3> QED BY <1>23, <1>25, <3>1
    <2>2. ASSUME NEW x \in Live, NEW y \in Live, x # y, lv[x] > lv[y]
          PROVE  /\ Outside(lo2[x], lo2, hi2, y) /\ Outside(hi2[x], lo2, hi2, y)
                 /\ \A j \in Slots(x)' : Outside(key'[x][j], lo2, hi2, y)
      <3>1. /\ lo[x] <= lo[y] \/ hi[y] <= lo[x]
            /\ hi[x] <= lo[y] \/ hi[y] <= hi[x]
            /\ \A j \in Slots(x) : key[x][j] <= lo[y] \/ hi[y] <= key[x][j]
        BY <2>2 DEF Good, Apart, Outside
      <3>2. lv[x] > 0 /\ x # p
        BY <1>4, <1>23, <2>2
      <3>3. /\ lo2[x] <= lo2[y] \/ hi2[y] <= lo2[x]
            /\ hi2[x] <= lo2[y] \/ hi2[y] <= hi2[x]
        BY <1>23, <1>25, <3>1
      <3>4. ASSUME NEW j \in Slots(x)
            PROVE  key'[x][j] <= lo2[y] \/ hi2[y] <= key'[x][j]
        BY <1>20, <1>23, <1>24, <1>25, <3>1, <3>2
      <3> QED BY <1>18, <3>2, <3>3, <3>4 DEF Outside
    <2>3. \A x, y \in Live : x # y =>
             /\ lv[x] = lv[y] => hi2[x] <= lo2[y] \/ hi2[y] <= lo2[x]
             /\ lv[x] > lv[y] => /\ Outside(lo2[x], lo2, hi2, y) /\ Outside(hi2[x], lo2, hi2, y)
                                 /\ \A j \in Slots(x)' : Outside(key'[x][j], lo2, hi2, y)
      BY <2>1, <2>2
    <2> QED BY <1>16, <2>3 DEF Apart, Outside
  <1>35. Job(lo2, hi2, lv)'
    <2>1. CASE job' = Idle
      BY <2>1 DEF Job
    <2>2. CASE job' # Idle
      <3>1. job' = [do |-> "shrink", page |-> p] /\ size(p)' = INDEXMINR - 1
        BY <1>11, <1>6, <1>32, <2>2, Sizes
      <3>2. p \in dirty' /\ parent_index'[p] # 0 /\ p \in Live'
        BY <1>11, <1>16, <1>31
      <3> QED BY <3>1, <3>2 DEF Job
    <2> QED BY <2>1, <2>2
  <1>36. Good(lo2, hi2, lv)'
    BY <1>26, <1>27, <1>28, <1>29, <1>30, <1>33, <1>34, <1>35 DEF Good
  <1> QED BY <1>21, <1>22, <1>36

-------------------------------------------------------------------------------
(* A new page.                                                             *)

\* The page that Alloc returns is new to the index.
LEMMA Allocated ==
    ASSUME TypeOK, FreeOK, Alloc, NEW n, n = NewPage
    PROVE  /\ n \in Page /\ n \notin Live /\ n # 0
           /\ Live' = Live \cup {n}
           /\ max' \in Page /\ max <= max' /\ free' \in Seq(1..max')
           /\ FreeOK'
  <1>1. max \in Nat /\ max \in Page /\ free \in Seq(1..max) /\ n \in Page /\ n # 0
    BY PageAssumption DEF TypeOK, Page, Alloc
  <1>2. CASE free = <<>>
    <2>1. n = max + 1 /\ max' = max + 1 /\ free' = <<>>
      BY <1>2 DEF NewPage, Alloc
    <2>2. DOMAIN free = {} /\ DOMAIN free' = {}
      BY <1>2, <2>1
    <2>3. Free = {} /\ Free' = {}
      BY <2>2 DEF Free
    <2>4. Live = 1..max /\ Live' = 1..(max + 1)
      BY <2>1, <2>3 DEF Live
    <2>5. free' \in Seq(1..max')
      BY <2>1
    <2> QED BY <1>1, <2>1, <2>2, <2>4, <2>5 DEF FreeOK
  <1>3. CASE free # <<>>
    <2>1. n = free[1] /\ max' = max /\ free' = Tail(free) /\ Len(free) \in Nat /\ Len(free) > 0
      BY <1>1, <1>3 DEF NewPage, Alloc
    <2>2. /\ free' \in Seq(1..max) /\ DOMAIN free = 1..Len(free) /\ DOMAIN free' = 1..(Len(free) - 1)
          /\ \A i \in DOMAIN free' : free'[i] = free[i + 1] /\ i + 1 \in DOMAIN free /\ i # 0
          /\ 1 \in DOMAIN free
      BY <1>1, <1>3, <2>1
    <2>3. \A i, j \in DOMAIN free : free[i] = free[j] => i = j
      BY DEF FreeOK
    <2>4. FreeOK'
      <3>1. ASSUME NEW i \in DOMAIN free', NEW j \in DOMAIN free', free'[i] = free'[j]
            PROVE  i = j
        <4>1. i + 1 = j + 1 /\ i \in Int /\ j \in Int
          BY <2>1, <2>2, <2>3, <3>1
        <4> QED BY <4>1
      <3> QED BY <3>1 DEF FreeOK
    <2>5. ASSUME NEW x
          PROVE  x \in Free' <=> x \in Free /\ x # n
      <3>1. ASSUME x \in Free' PROVE x \in Free /\ x # n
        <4>1. PICK i \in DOMAIN free' : x = free'[i]
          BY <3>1 DEF Free
        <4>2. x = free[i + 1] /\ i + 1 \in DOMAIN free /\ i + 1 # 1
          BY <2>1, <2>2, <4>1
        <4> QED BY <2>1, <2>2, <2>3, <4>2 DEF Free
      <3>2. ASSUME x \in Free, x # n PROVE x \in Free'
        <4>1. PICK i \in DOMAIN free : x = free[i]
          BY <3>2 DEF Free
        <4>2. i # 1 /\ i - 1 \in DOMAIN free' /\ i - 1 + 1 = i
          BY <2>1, <2>2, <3>2, <4>1
        <4>3. free'[i - 1] = x
          BY <2>2, <4>1, <4>2
        <4> QED BY <4>2, <4>3 DEF Free
      <3> QED BY <3>1, <3>2
    <2>6. n \in Free /\ n \in 1..max
      BY <1>1, <2>1, <2>2 DEF Free
    <2> QED BY <1>1, <2>1, <2>2, <2>4, <2>5, <2>6 DEF Live
  <1> QED BY <1>2, <1>3

\* What an invariant state is when a page is to be split.
LEMMA SplitJob ==
    ASSUME NEW lo, NEW hi, NEW lv, Job(lo, hi, lv), job.do = "split"
    PROVE  \E p \in Live, q \in Live \cup {0} :
          /\ job = [do |-> "split", page |-> p, parent |-> q]
          /\ p \in dirty
          /\ size(p) = INDEXCOUNT
          /\ \/ q = parent_index[p]
             \/ /\ q = root /\ q # p /\ parent_index[p] = 0
                /\ Blank(q) /\ lv[q] = lv[p] + 1 /\ lo[p] = 0 /\ hi[p] = MaxKey + 1
                /\ q \in dirty
  BY DEF Job, Idle

\* AllocRootIndexPage keeps the invariant: the new root is a level above the
\* old one and has its bounds.
LEMMA AllocRootKeeps ==
    ASSUME NEW lo, NEW hi, NEW lv, TypeOK, FreeOK, Good(lo, hi, lv), AllocRootIndexPage
    PROVE  TypeOK' /\ FreeOK' /\ \E lo2, hi2, lv2 : Good(lo2, hi2, lv2)'
  <1>1. PICK p \in Live, q \in Live \cup {0} :
          /\ job = [do |-> "split", page |-> p, parent |-> q]
          /\ p \in dirty
          /\ size(p) = INDEXCOUNT
          /\ \/ q = parent_index[p]
             \/ /\ q = root /\ q # p /\ parent_index[p] = 0
                /\ Blank(q) /\ lv[q] = lv[p] + 1 /\ lo[p] = 0 /\ hi[p] = MaxKey + 1
                /\ q \in dirty
    BY SplitJob DEF AllocRootIndexPage, Good
  <1>2. job.do = "split" /\ job.page = p /\ job.parent = 0 /\ q = 0 /\ parent_index[p] = 0 /\ root \in Live
    BY <1>1, LiveIsPage DEF AllocRootIndexPage, Good, RootOK
  <1>3. PICK n : n = NewPage
    OBVIOUS
  <1>4. /\ n \in Page /\ n \notin Live /\ n # 0 /\ Live' = Live \cup {n}
        /\ max' \in Page /\ max <= max' /\ free' \in Seq(1..max') /\ FreeOK'
    BY <1>3, Allocated DEF AllocRootIndexPage
  <1>5. /\ l_pos' = [l_pos EXCEPT ![n] = 0] /\ r_pos' = [r_pos EXCEPT ![n] = 0]
        /\ key' = [key EXCEPT ![n] = <<>>] /\ kid' = [kid EXCEPT ![n] = [i \in {0} |-> 0]]
        /\ parent_index' = [parent_index EXCEPT ![n] = 0] /\ parent_pos' = [parent_pos EXCEPT ![n] = 0]
        /\ root' = n /\ dirty' = dirty \cup {n} /\ job' = [job EXCEPT !.parent = n] /\ answer' = answer
    BY <1>3 DEF AllocRootIndexPage
  <1>6. p \in Page /\ Live \subseteq Page /\ p # n /\ 0 \notin Live /\ p = root
    BY <1>2, <1>4, LiveIsPage DEF Good, Up
  <1>7. job' = [do |-> "split", page |-> p, parent |-> n]
    BY <1>1, <1>5
  <1>8. \A x \in Page \ {n} : /\ l_pos'[x] = l_pos[x] /\ r_pos'[x] = r_pos[x] /\ key'[x] = key[x]
                              /\ kid'[x] = kid[x] /\ parent_index'[x] = parent_index[x]
                              /\ parent_pos'[x] = parent_pos[x]
    BY <1>5 DEF TypeOK
  <1>9. /\ l_pos'[n] = 0 /\ r_pos'[n] = 0 /\ key'[n] = <<>> /\ kid'[n] = [i \in {0} |-> 0]
        /\ parent_index'[n] = 0 /\ parent_pos'[n] = 0
    BY <1>4, <1>5 DEF TypeOK
  <1>10. /\ Fresh = {} /\ Fresh' = {n} /\ Half = {} /\ Half' = {}
    BY <1>2, <1>4, <1>6, <1>7, <1>8 DEF Fresh, Half
  <1>11. TypeOK'
    <2>1. /\ DOMAIN key' = Page /\ DOMAIN kid' = Page
          /\ l_pos' \in [Page -> 0..INDEXCOUNT] /\ r_pos' \in [Page -> 0..INDEXCOUNT]
          /\ parent_pos' \in [Page -> 0..INDEXCOUNT] /\ parent_index' \in [Page -> 0..max']
          /\ root' \in Page /\ dirty' \subseteq Page /\ answer' \in {<<>>} \cup (Key \X BOOLEAN)
      <3>1. 0 \in 0..INDEXCOUNT /\ 0 \in 0..max' /\ 0..max \subseteq 0..max'
        <4>1. max \in Nat /\ max' \in Nat
          BY <1>4, PageAssumption DEF TypeOK, Page
        <4> QED BY <1>4, <4>1, Sizes
      <3>2. parent_index' \in [Page -> 0..max']
        BY <1>5, <3>1 DEF TypeOK
      <3> QED BY <1>4, <1>5, <3>1, <3>2 DEF TypeOK
    <2>2. ASSUME NEW x \in Page
          PROVE  /\ l_pos'[x] <= r_pos'[x]
                 /\ key'[x] \in [l_pos'[x]..(r_pos'[x] - 1) -> Key]
                 /\ kid'[x] \in [l_pos'[x]..r_pos'[x] -> 0..max']
      <3>1. 0..max \subseteq 0..max' /\ 0 \in 0..max'
        <4>1. max \in Nat /\ max' \in Nat
          BY <1>4, PageAssumption DEF TypeOK, Page
        <4> QED BY <1>4, <4>1
      <3>2. CASE x # n
        <4>1. kid[x] \in [l_pos[x]..r_pos[x] -> 0..max']
          BY <3>1 DEF TypeOK
        <4> QED BY <1>8, <3>2, <4>1 DEF TypeOK
      <3>3. CASE x = n
        <4>1. 0..(0 - 1) = {} /\ 0..0 = {0}
          OBVIOUS
        <4>2. <<>> \in [{} -> Key] /\ [i \in {0} |-> 0] \in [{0} -> 0..max']
          BY <3>1
        <4>3. key'[n] \in [l_pos'[n]..(r_pos'[n] - 1) -> Key] /\ kid'[n] \in [l_pos'[n]..r_pos'[n] -> 0..max']
          BY <1>9, <4>1, <4>2
        <4>4. l_pos'[n] <= r_pos'[n]
          BY <1>9
        <4> QED BY <3>3, <4>3, <4>4
      <3> QED BY <3>2, <3>3
    <2> QED BY <1>4, <2>1, <2>2 DEF TypeOK
  <1>12. PICK lo2 : lo2 = [x \in Page |-> IF x = n THEN 0 ELSE lo[x]]
    OBVIOUS
  <1>13. PICK hi2 : hi2 = [x \in Page |-> IF x = n THEN MaxKey + 1 ELSE hi[x]]
    OBVIOUS
  <1>14. PICK lv2 : lv2 = [x \in Page |-> IF x = n THEN lv[p] + 1 ELSE lv[x]]
    OBVIOUS
  <1>15. /\ \A x \in Live : lo2[x] = lo[x] /\ hi2[x] = hi[x] /\ lv2[x] = lv[x]
         /\ lo2[n] = 0 /\ hi2[n] = MaxKey + 1 /\ lv2[n] = lv[p] + 1
    BY <1>4, <1>6, <1>12, <1>13, <1>14
  <1>16. /\ \A x \in Live : lo[x] \in 0..(MaxKey + 1) /\ hi[x] \in 0..(MaxKey + 1) /\ lv[x] \in Nat
         /\ MaxKey \in Nat
    BY KeyAssumption DEF Good, GhostType
  <1>17. \A x \in Live : /\ x \in Page \ {n} /\ Slots(x)' = Slots(x) /\ Positions(x)' = Positions(x)
                         /\ size(x)' = size(x)
    BY <1>4, <1>6, <1>8 DEF Slots, Positions, size
  <1>18. Slots(n)' = {} /\ Positions(n)' = {0} /\ size(n)' = 0
    BY <1>9 DEF Slots, Positions, size
  <1>19. GhostType(lo2, hi2, lv2)'
    BY <1>4, <1>6, <1>15, <1>16 DEF GhostType
  <1>20. Keys(lo2, hi2)'
    <2>1. \A x \in Live : /\ lo2[x] < hi2[x]
                          /\ \A i \in Slots(x)' : lo2[x] < key'[x][i] /\ key'[x][i] < hi2[x]
                          /\ \A i, j \in Slots(x)' : i < j => key'[x][i] < key'[x][j]
      BY <1>8, <1>15, <1>17 DEF Good, Keys
    <2>2. lo2[n] < hi2[n]
      BY <1>15, <1>16
    <2> QED BY <1>4, <1>18, <2>1, <2>2 DEF Keys
  <1>21. Down(lo2, hi2, lv2)'
    <2>1. ASSUME NEW x \in Live, NEW i \in Positions(x)'
          PROVE  /\ lv2[x] = 0 => kid'[x][i] = 0
                 /\ lv2[x] > 0 => /\ kid'[x][i] \in Live' /\ lv2[kid'[x][i]] = lv2[x] - 1
                                  /\ parent_index'[kid'[x][i]] = x /\ parent_pos'[kid'[x][i]] = i
                                  /\ lo2[kid'[x][i]] = LoAt(lo2, x, i)'
                                  /\ hi2[kid'[x][i]] = HiAt(hi2, x, i)'
      <3>1. /\ x \in Page \ {n} /\ i \in Positions(x) /\ kid'[x] = kid[x] /\ lv2[x] = lv[x]
            /\ LoAt(lo2, x, i)' = LoAt(lo, x, i) /\ HiAt(hi2, x, i)' = HiAt(hi, x, i)
        BY <1>8, <1>15, <1>17 DEF LoAt, HiAt
      <3>2. CASE lv[x] = 0
        BY <1>10, <1>16, <3>1, <3>2 DEF Good, Down
      <3>3. CASE lv[x] > 0
        <4>1. PICK c \in Live : c = kid[x][i]
          BY <1>10, <3>1, <3>3 DEF Good, Down
        <4>2. /\ lv[c] = lv[x] - 1 /\ parent_index[c] = x /\ parent_pos[c] = i
              /\ lo[c] = LoAt(lo, x, i) /\ hi[c] = HiAt(hi, x, i)
          BY <1>10, <3>1, <3>3, <4>1 DEF Good, Down
        <4> QED BY <1>4, <1>8, <1>15, <1>17, <3>1, <3>3, <4>1, <4>2
      <3> QED BY <1>16, <3>2, <3>3
    <2> QED BY <1>4, <1>10, <2>1 DEF Down
  <1>22. Up'
    <2>1. ASSUME NEW x \in Live
          PROVE  /\ parent_index'[x] # 0 => /\ parent_index'[x] \in Live' \ Fresh'
                                            /\ parent_pos'[x] \in Positions(parent_index[x])'
                                            /\ kid'[parent_index'[x]][parent_pos'[x]] = x
                 /\ parent_index'[x] = 0 => parent_pos'[x] = 0 /\ x = p
      <3>1. parent_index'[x] = parent_index[x] /\ parent_pos'[x] = parent_pos[x]
        BY <1>8, <1>17
      <3>2. CASE parent_index[x] # 0
        <4>1. PICK y \in Live : /\ y = parent_index[x] /\ parent_pos[x] \in Positions(y)
                                /\ kid[y][parent_pos[x]] = x
          BY <3>2 DEF Good, Up
        <4> QED BY <1>4, <1>8, <1>10, <1>17, <3>1, <3>2, <4>1
      <3>3. CASE parent_index[x] = 0
        BY <1>2, <1>6, <3>1, <3>3 DEF Good, Up
      <3> QED BY <3>2, <3>3
    <2> QED BY <1>4, <1>5, <1>7, <1>9, <2>1 DEF Up
  <1>23. RootOK(lo2, hi2, lv2)'
    <2>1. \A x \in Live : lv[x] <= lv[p]
      BY <1>6 DEF Good, RootOK
    <2>2. \A x \in Live : lv2[x] <= lv2[n]
      BY <1>15, <1>16, <2>1
    <2> QED BY <1>4, <1>5, <1>9, <1>15, <1>16, <2>2 DEF RootOK
  <1>24. Size(lv2)'
    <2>1. ASSUME NEW x \in Live
          PROVE  /\ size(x)' = INDEXCOUNT => x = p
                 /\ size(x)' >= INDEXMINR /\ size(x)' > 0
      <3>1. CASE x = p
        BY <1>1, <1>17, <3>1, Sizes
      <3>2. CASE x # p
        <4>1. size(x) \in Int
          BY LiveTyped DEF size
        <4> QED BY <1>2, <1>6, <1>10, <1>17, <3>2, <4>1, Sizes DEF Good, Size
      <3> QED BY <3>1, <3>2
    <2> QED BY <1>4, <1>7, <1>10, <2>1 DEF Size
  <1>25. Apart(lo2, hi2, lv2)'
    <2>1. \A x, y \in Live : x # y =>
             /\ lv2[x] = lv2[y] => hi2[x] <= lo2[y] \/ hi2[y] <= lo2[x]
             /\ lv2[x] > lv2[y] =>
                   /\ Outside(lo2[x], lo2, hi2, y) /\ Outside(hi2[x], lo2, hi2, y)
                   /\ \A i \in Slots(x)' : Outside(key'[x][i], lo2, hi2, y)
      BY <1>8, <1>15, <1>17 DEF Good, Apart, Outside
    <2>2. \A y \in Live : /\ Outside(lo2[n], lo2, hi2, y) /\ Outside(hi2[n], lo2, hi2, y)
                          /\ lv2[y] < lv2[n]
      <3>1. \A y \in Live : lv[y] <= lv[p]
        BY <1>6 DEF Good, RootOK
      <3> QED BY <1>15, <1>16, <3>1 DEF Outside
    <2>3. \A y \in Live' : lv2[y] \in Int
      BY <1>4, <1>15, <1>16
    <2>4. \A x, y \in Live' : x # y =>
             /\ lv2[x] = lv2[y] => hi2[x] <= lo2[y] \/ hi2[y] <= lo2[x]
             /\ lv2[x] > lv2[y] =>
                   /\ Outside(lo2[x], lo2, hi2, y) /\ Outside(hi2[x], lo2, hi2, y)
                   /\ \A i \in Slots(x)' : Outside(key'[x][i], lo2, hi2, y)
      BY <1>4, <1>18, <2>1, <2>2, <2>3
    <2> QED BY <2>4 DEF Apart, Outside
  <1>26. Job(lo2, hi2, lv2)'
    <2>1. /\ p \in Live' /\ n \in Live' \cup {0} /\ p \in dirty' /\ n \in dirty' /\ size(p)' = INDEXCOUNT
          /\ n = root' /\ n # p /\ parent_index'[p] = 0 /\ Blank(n)'
          /\ lv2[n] = lv2[p] + 1 /\ lo2[p] = 0 /\ hi2[p] = MaxKey + 1
      <3>1. lo[p] = 0 /\ hi[p] = MaxKey + 1
        BY <1>6 DEF Good, RootOK
      <3> QED BY <1>1, <1>2, <1>4, <1>5, <1>6, <1>8, <1>9, <1>15, <1>17, <3>1 DEF Blank
    <2> QED BY <1>7, <2>1 DEF Job
  <1> QED BY <1>4, <1>11, <1>19, <1>20, <1>21, <1>22, <1>23, <1>24, <1>25, <1>26 DEF Good

-------------------------------------------------------------------------------
(* A page is split.                                                        *)

\* The children at some positions of a page, told by what they say of
\* themselves.
LEMMA KidsAre ==
    ASSUME NEW lo, NEW hi, NEW lv, TypeOK, Good(lo, hi, lv), NEW p \in Live, p \notin Fresh,
           NEW S, S \subseteq Positions(p)
    PROVE  /\ Kids(p, S) \subseteq Live
           /\ \A x \in Live : x \in Kids(p, S) <=> parent_index[x] = p /\ parent_pos[x] \in S
           /\ \A x \in Kids(p, S) : PosOf(p, x) = parent_pos[x]
  <1>1. \A i \in Positions(p) : kid[p][i] # 0 => /\ kid[p][i] \in Live
                                                 /\ parent_index[kid[p][i]] = p /\ parent_pos[kid[p][i]] = i
    <2>1. lv[p] = 0 \/ lv[p] > 0
      BY DEF Good, GhostType
    <2> QED BY <2>1 DEF Good, Down
  <1>2. \A x \in Live : parent_index[x] = p => kid[p][parent_pos[x]] = x /\ x # 0 /\ parent_pos[x] \in Positions(p)
    BY LiveIsPage DEF Good, Up
  <1>3. Kids(p, S) \subseteq Live
    BY <1>1 DEF Kids
  <1>4. \A x \in Live : x \in Kids(p, S) <=> parent_index[x] = p /\ parent_pos[x] \in S
    BY <1>1, <1>2 DEF Kids
  <1>5. ASSUME NEW x \in Kids(p, S)
        PROVE  PosOf(p, x) = parent_pos[x]
    <2>1. x \in Live /\ parent_index[x] = p
      BY <1>3, <1>4, <1>5
    <2>2. parent_pos[x] \in l_pos[p]..r_pos[p] /\ kid[p][parent_pos[x]] = x /\ x # 0
      BY <1>2, <2>1 DEF Positions
    <2>3. \A i \in l_pos[p]..r_pos[p] : kid[p][i] = x => i = parent_pos[x]
      BY <1>1, <2>2 DEF Positions
    <2> QED BY <2>2, <2>3 DEF PosOf
  <1> QED BY <1>3, <1>4, <1>5

\* The arrays of the two halves of a full page.
HalvesAre(p, M, R, KP, LP, KS, LS) ==
    /\ l_pos[p] = 0 /\ r_pos[p] = INDEXCOUNT /\ M \in Nat /\ R \in Nat /\ M + R + 1 = INDEXCOUNT
    /\ 1 <= R /\ R <= M /\ M \in Slots(p)
    /\ KP \in [0..(M - 1) -> Key] /\ LP \in [0..M -> 0..max]
    /\ KS \in [0..(R - 1) -> Key] /\ LS \in [0..R -> 0..max]
    /\ \A j \in 0..(M - 1) : j \in Slots(p) /\ KP[j] = key[p][j]
    /\ \A j \in 0..M : j \in Positions(p) /\ LP[j] = kid[p][j]
    /\ \A j \in 0..(R - 1) : j + M + 1 \in Slots(p) /\ KS[j] = key[p][j + M + 1]
    /\ \A j \in 0..R : j + M + 1 \in Positions(p) /\ LS[j] = kid[p][j + M + 1]

\* A full page has its slots at 0 to INDEXCOUNT, and Split cuts them as
\* HalvesAre says.
LEMMA Halves ==
    ASSUME TypeOK, NEW p \in Live, size(p) = INDEXCOUNT
    PROVE  \E KP, LP, KS, LS :
              /\ KP = Moved(key[p], l_pos[p]..(INDEXMINL - 1), 0)
              /\ LP = Moved(kid[p], l_pos[p]..INDEXMINL, 0)
              /\ KS = Moved(key[p], ((INDEXMINL + 1)..INDEXCOUNT) \ {INDEXCOUNT}, -(INDEXMINL + 1))
              /\ LS = Moved(kid[p], (INDEXMINL + 1)..INDEXCOUNT, -(INDEXMINL + 1))
              /\ HalvesAre(p, INDEXMINL, INDEXMINR, KP, LP, KS, LS)
  <1> DEFINE M == INDEXMINL
  <1> DEFINE R == INDEXMINR
  <1> DEFINE KP == Moved(key[p], l_pos[p]..(M - 1), 0)
  <1> DEFINE LP == Moved(kid[p], l_pos[p]..M, 0)
  <1> DEFINE KS == Moved(key[p], ((M + 1)..INDEXCOUNT) \ {INDEXCOUNT}, -(M + 1))
  <1> DEFINE LS == Moved(kid[p], (M + 1)..INDEXCOUNT, -(M + 1))
  <1>1. /\ M \in Nat /\ R \in Nat /\ M + R + 1 = INDEXCOUNT /\ 1 <= R /\ R <= M /\ INDEXCOUNT \in Nat
    BY Sizes
  <1>2. l_pos[p] = 0 /\ r_pos[p] = INDEXCOUNT
    BY LiveTyped, Sizes DEF size
  <1>3. /\ \A j \in 0..(INDEXCOUNT - 1) : j \in Slots(p) /\ key[p][j] \in Key
        /\ \A j \in 0..INDEXCOUNT : j \in Positions(p) /\ kid[p][j] \in 0..max
    BY <1>2, LiveTyped DEF Slots, Positions, Key
  <1>4. /\ \A j \in 0..(M - 1) : j + 0 = j /\ j - 0 = j /\ j \in 0..(INDEXCOUNT - 1)
        /\ \A j \in 0..M : j + 0 = j /\ j - 0 = j /\ j \in 0..INDEXCOUNT
        /\ M \in 0..(INDEXCOUNT - 1)
    BY <1>1
  <1>5. /\ {i + 0 : i \in 0..(M - 1)} = 0..(M - 1) /\ {i + 0 : i \in 0..M} = 0..M
    BY <1>4
  <1>6. KP = [j \in 0..(M - 1) |-> key[p][j]] /\ LP = [j \in 0..M |-> kid[p][j]]
    BY <1>2, <1>4, <1>5 DEF Moved
  <1>7. {i + (-(M + 1)) : i \in ((M + 1)..INDEXCOUNT) \ {INDEXCOUNT}} = 0..(R - 1)
    <2>1. ASSUME NEW i \in ((M + 1)..INDEXCOUNT) \ {INDEXCOUNT}
          PROVE  i + (-(M + 1)) \in 0..(R - 1)
      BY <1>1
    <2>2. ASSUME NEW j \in 0..(R - 1)
          PROVE  j + M + 1 \in ((M + 1)..INDEXCOUNT) \ {INDEXCOUNT} /\ (j + M + 1) + (-(M + 1)) = j
      BY <1>1
    <2> QED BY <2>1, <2>2
  <1>8. {i + (-(M + 1)) : i \in (M + 1)..INDEXCOUNT} = 0..R
    <2>1. ASSUME NEW i \in (M + 1)..INDEXCOUNT
          PROVE  i + (-(M + 1)) \in 0..R
      BY <1>1
    <2>2. ASSUME NEW j \in 0..R
          PROVE  j + M + 1 \in (M + 1)..INDEXCOUNT /\ (j + M + 1) + (-(M + 1)) = j
      BY <1>1
    <2> QED BY <2>1, <2>2
  <1>9. /\ KS = [j \in 0..(R - 1) |-> key[p][j - (-(M + 1))]]
        /\ LS = [j \in 0..R |-> kid[p][j - (-(M + 1))]]
    BY <1>7, <1>8 DEF Moved
  <1>10. /\ \A j \in 0..(R - 1) : j - (-(M + 1)) = j + M + 1 /\ j + M + 1 \in 0..(INDEXCOUNT - 1)
         /\ \A j \in 0..R : j - (-(M + 1)) = j + M + 1 /\ j + M + 1 \in 0..INDEXCOUNT
    BY <1>1
  <1>11. KP \in [0..(M - 1) -> Key] /\ LP \in [0..M -> 0..max]
    BY <1>3, <1>4, <1>6
  <1>12. /\ \A j \in 0..(M - 1) : j \in Slots(p) /\ KP[j] = key[p][j]
         /\ \A j \in 0..M : j \in Positions(p) /\ LP[j] = kid[p][j]
    BY <1>3, <1>4, <1>6
  <1>13. /\ \A j \in 0..(R - 1) : j + M + 1 \in Slots(p) /\ KS[j] = key[p][j + M + 1] /\ KS[j] \in Key
         /\ \A j \in 0..R : j + M + 1 \in Positions(p) /\ LS[j] = kid[p][j + M + 1] /\ LS[j] \in 0..max
    <2>1. ASSUME NEW j \in 0..(R - 1)
          PROVE  j + M + 1 \in Slots(p) /\ KS[j] = key[p][j + M + 1] /\ KS[j] \in Key
      <3>1. KS[j] = key[p][j - (-(M + 1))]
        BY <1>9
      <3>2. j - (-(M + 1)) = j + M + 1 /\ j + M + 1 \in 0..(INDEXCOUNT - 1)
        BY <1>10
      <3>3. KS[j] = key[p][j + M + 1]
        BY <3>1, <3>2
      <3> QED BY <1>3, <3>2, <3>3
    <2>2. ASSUME NEW j \in 0..R
          PROVE  j + M + 1 \in Positions(p) /\ LS[j] = kid[p][j + M + 1] /\ LS[j] \in 0..max
      <3>1. LS[j] = kid[p][j - (-(M + 1))]
        BY <1>9
      <3>2. j - (-(M + 1)) = j + M + 1 /\ j + M + 1 \in 0..INDEXCOUNT
        BY <1>10
      <3>3. LS[j] = kid[p][j + M + 1]
        BY <3>1, <3>2
      <3> QED BY <1>3, <3>2, <3>3
    <2> QED BY <2>1, <2>2
  <1>14. KS \in [0..(R - 1) -> Key] /\ LS \in [0..R -> 0..max]
    BY <1>9, <1>13
  <1>15. HalvesAre(p, M, R, KP, LP, KS, LS)
    BY <1>1, <1>2, <1>3, <1>4, <1>11, <1>12, <1>13, <1>14 DEF HalvesAre
  <1> QED BY <1>15

\* The page above the one that is to be split.
LEMMA AboveSplit ==
    ASSUME NEW lo, NEW hi, NEW lv, TypeOK, Good(lo, hi, lv), NEW p \in Live, NEW q \in Live,
           job = [do |-> "split", page |-> p, parent |-> q],
           \/ q = parent_index[p]
           \/ /\ q = root /\ q # p /\ parent_index[p] = 0
              /\ Blank(q) /\ lv[q] = lv[p] + 1 /\ lo[p] = 0 /\ hi[p] = MaxKey + 1
              /\ q \in dirty
    PROVE  /\ lv[q] = lv[p] + 1 /\ q # p /\ p # root
           /\ parent_pos[p] \in Positions(q)
           /\ \/ /\ q = parent_index[p] /\ Fresh = {}
                 /\ hi[p] = HiAt(hi, q, parent_pos[p])
                 /\ size(q) < INDEXCOUNT /\ size(q) > 0
              \/ /\ q # parent_index[p] /\ Fresh = {q} /\ q = root /\ parent_index[p] = 0
                 /\ Blank(q) /\ lo[p] = 0 /\ hi[p] = MaxKey + 1
  <1>1. job.do = "split" /\ job.page = p /\ job.parent = q /\ q # 0 /\ p \notin Half
    BY LiveIsPage DEF Half
  <1>2. CASE q = parent_index[p]
    <2>1. Fresh = {}
      BY <1>1, <1>2 DEF Fresh
    <2>2. /\ parent_pos[p] \in Positions(q) /\ kid[q][parent_pos[p]] = p /\ p # 0
      BY <1>1, <1>2, LiveIsPage DEF Good, Up
    <2>3. lv[q] > 0
      BY <2>1, <2>2 DEF Good, Down, GhostType
    <2>4. lv[p] = lv[q] - 1 /\ hi[p] = HiAt(hi, q, parent_pos[p])
      BY <1>1, <2>1, <2>2, <2>3 DEF Good, Down
    <2>5. lv[q] = lv[p] + 1 /\ q # p
      BY <2>4 DEF Good, GhostType
    <2>6. size(q) < INDEXCOUNT /\ size(q) > 0
      <3>1. l_pos[q] \in Nat /\ r_pos[q] \in Nat /\ l_pos[q] <= r_pos[q] /\ r_pos[q] <= INDEXCOUNT /\ INDEXCOUNT \in Nat
        BY LiveTyped, Sizes
      <3>2. size(q) # INDEXCOUNT /\ size(q) > 0
        BY <1>1, <2>1, <2>3, <2>5 DEF Good, Size
      <3> QED BY <3>1, <3>2 DEF size
    <2>7. p # root
      BY <1>1, <1>2 DEF Good, RootOK
    <2> QED BY <1>2, <2>1, <2>2, <2>4, <2>5, <2>6, <2>7
  <1>3. CASE q # parent_index[p]
    <2>1. Fresh = {q}
      BY <1>1, <1>3 DEF Fresh
    <2>2. parent_pos[p] = 0
      BY <1>3 DEF Good, Up
    <2>3. parent_pos[p] \in Positions(q)
      BY <1>3, <2>2 DEF Positions, Blank
    <2> QED BY <1>3, <2>1, <2>3
  <1> QED BY <1>2, <1>3

\* Split keeps the invariant: the key that goes up becomes the bound between
\* the halves.
LEMMA SplitKeeps ==
    ASSUME NEW lo, NEW hi, NEW lv, TypeOK, FreeOK, Good(lo, hi, lv), Split
    PROVE  TypeOK' /\ FreeOK' /\ \E lo2, hi2, lv2 : Good(lo2, hi2, lv2)'
  <1>1. PICK p \in Live, q \in Live \cup {0} :
          /\ job = [do |-> "split", page |-> p, parent |-> q]
          /\ p \in dirty
          /\ size(p) = INDEXCOUNT
          /\ \/ q = parent_index[p]
             \/ /\ q = root /\ q # p /\ parent_index[p] = 0
                /\ Blank(q) /\ lv[q] = lv[p] + 1 /\ lo[p] = 0 /\ hi[p] = MaxKey + 1
                /\ q \in dirty
    BY SplitJob DEF Split, Good
  <1>2. job.do = "split" /\ job.page = p /\ job.parent = q /\ q # 0 /\ q \in Live
    BY <1>1 DEF Split
  <1>3. /\ lv[q] = lv[p] + 1 /\ q # p /\ p # root
        /\ parent_pos[p] \in Positions(q)
        /\ \/ /\ q = parent_index[p] /\ Fresh = {}
              /\ hi[p] = HiAt(hi, q, parent_pos[p])
              /\ size(q) < INDEXCOUNT /\ size(q) > 0
           \/ /\ q # parent_index[p] /\ Fresh = {q} /\ q = root /\ parent_index[p] = 0
              /\ Blank(q) /\ lo[p] = 0 /\ hi[p] = MaxKey + 1
    BY <1>1, <1>2, AboveSplit
  <1>4. PICK n : n = NewPage
    OBVIOUS
  <1>5. /\ n \in Page /\ n \notin Live /\ n # 0 /\ Live' = Live \cup {n}
        /\ max' \in Page /\ max <= max' /\ free' \in Seq(1..max') /\ FreeOK'
    BY <1>4, Allocated DEF Split
  <1>6. PICK M : M = INDEXMINL
    OBVIOUS
  <1>7. PICK R : R = INDEXMINR
    OBVIOUS
  <1>8. PICK KP, LP, KS, LS :
              /\ KP = Moved(key[p], l_pos[p]..(INDEXMINL - 1), 0)
              /\ LP = Moved(kid[p], l_pos[p]..INDEXMINL, 0)
              /\ KS = Moved(key[p], ((INDEXMINL + 1)..INDEXCOUNT) \ {INDEXCOUNT}, -(INDEXMINL + 1))
              /\ LS = Moved(kid[p], (INDEXMINL + 1)..INDEXCOUNT, -(INDEXMINL + 1))
              /\ HalvesAre(p, INDEXMINL, INDEXMINR, KP, LP, KS, LS)
    BY <1>1, Halves
  <1>9. PICK A : A = (INDEXMINL + 1)..INDEXCOUNT
    OBVIOUS
  <1>10. PICK C : C = Kids(p, A)
    OBVIOUS
  <1>11. PICK mid : mid = key[p][M]
    OBVIOUS
  <1>12. /\ l_pos[p] = 0 /\ r_pos[p] = INDEXCOUNT /\ M \in Nat /\ R \in Nat /\ M + R + 1 = INDEXCOUNT
         /\ 1 <= R /\ R <= M /\ M \in Slots(p)
         /\ KP \in [0..(M - 1) -> Key] /\ LP \in [0..M -> 0..max]
         /\ KS \in [0..(R - 1) -> Key] /\ LS \in [0..R -> 0..max]
         /\ \A j \in 0..(M - 1) : j \in Slots(p) /\ KP[j] = key[p][j]
         /\ \A j \in 0..M : j \in Positions(p) /\ LP[j] = kid[p][j]
         /\ \A j \in 0..(R - 1) : j + M + 1 \in Slots(p) /\ KS[j] = key[p][j + M + 1]
         /\ \A j \in 0..R : j + M + 1 \in Positions(p) /\ LS[j] = kid[p][j + M + 1]
    BY <1>6, <1>7, <1>8 DEF HalvesAre
  <1>13. /\ M \in Int /\ R \in Int /\ 0 <= M /\ M + R + 1 = INDEXCOUNT /\ INDEXCOUNT \in Int /\ 1 <= R /\ R <= M
    BY <1>12, Sizes
  <1>14. p \in Page /\ q \in Page /\ Live \subseteq Page /\ p # n /\ q # n /\ 0 \notin Live /\ p \notin Fresh
         /\ root \in Live /\ root # n
    BY <1>2, <1>3, <1>5, LiveIsPage DEF Good, RootOK
  <1>15. /\ C \subseteq Live
         /\ \A x \in Live : x \in C <=> parent_index[x] = p /\ parent_pos[x] \in (M + 1)..INDEXCOUNT
         /\ \A x \in C : PosOf(p, x) = parent_pos[x]
    <2>1. A \subseteq Positions(p)
      BY <1>6, <1>9, <1>12 DEF Positions
    <2>2. /\ C \subseteq Live
          /\ \A x \in Live : x \in C <=> parent_index[x] = p /\ parent_pos[x] \in A
          /\ \A x \in C : PosOf(p, x) = parent_pos[x]
      BY <1>10, <1>14, <2>1, KidsAre
    <2> QED BY <1>6, <1>9, <2>2
  <1>16. /\ l_pos' = [l_pos EXCEPT ![n] = 0]
         /\ r_pos' = [r_pos EXCEPT ![n] = R, ![p] = M]
         /\ key' = [key EXCEPT ![n] = KS, ![p] = KP]
         /\ kid' = [kid EXCEPT ![n] = LS, ![p] = LP]
         /\ parent_index' = [x \in Page |->
                 IF x = n THEN 0 ELSE IF x \in C THEN n ELSE parent_index[x]]
         /\ parent_pos' = [x \in Page |->
                 IF x = n THEN 0 ELSE IF x \in C THEN PosOf(p, x) - (M + 1) ELSE parent_pos[x]]
         /\ dirty' = dirty \cup {q, n} \cup C
         /\ job' = [do |-> "insert_internal", page |-> q, pos |-> parent_pos[p],
                      key |-> mid, l_child |-> p, r_child |-> n]
         /\ root' = root /\ answer' = answer
    <2>1. /\ key' = [key EXCEPT ![n] = KS, ![p] = Moved(@, l_pos[p]..(INDEXMINL - 1), 0)]
          /\ kid' = [kid EXCEPT ![n] = LS, ![p] = Moved(@, l_pos[p]..INDEXMINL, 0)]
          /\ l_pos' = [l_pos EXCEPT ![n] = 0]
          /\ r_pos' = [r_pos EXCEPT ![n] = INDEXMINR, ![p] = INDEXMINL]
      BY <1>2, <1>4, <1>8 DEF Split
    <2>2. key' = [key EXCEPT ![n] = KS, ![p] = KP] /\ kid' = [kid EXCEPT ![n] = LS, ![p] = LP]
      BY <1>8, <1>14, <2>1 DEF TypeOK
    <2>3. /\ parent_index' = [x \in Page |->
                 IF x = n THEN 0 ELSE IF x \in C THEN n ELSE parent_index[x]]
         /\ parent_pos' = [x \in Page |->
                 IF x = n THEN 0 ELSE IF x \in C THEN PosOf(p, x) - (INDEXMINL + 1) ELSE parent_pos[x]]
         /\ dirty' = dirty \cup {q, n} \cup C
         /\ job' = [do |-> "insert_internal", page |-> q, pos |-> parent_pos[p],
                      key |-> key[p][INDEXMINL], l_child |-> p, r_child |-> n]
         /\ root' = root /\ answer' = answer
      BY <1>2, <1>4, <1>9, <1>10 DEF Split
    <2> QED BY <1>6, <1>7, <1>11, <2>1, <2>2, <2>3
  <1>17. /\ \A x \in Page \ {n, p} : /\ l_pos'[x] = l_pos[x] /\ r_pos'[x] = r_pos[x]
                                    /\ key'[x] = key[x] /\ kid'[x] = kid[x]
         /\ l_pos'[p] = 0 /\ r_pos'[p] = M /\ key'[p] = KP /\ kid'[p] = LP
         /\ l_pos'[n] = 0 /\ r_pos'[n] = R /\ key'[n] = KS /\ kid'[n] = LS
         /\ DOMAIN key' = Page /\ DOMAIN kid' = Page
         /\ l_pos' \in [Page -> 0..INDEXCOUNT] /\ r_pos' \in [Page -> 0..INDEXCOUNT]
    <2>1. 0 \in 0..INDEXCOUNT /\ R \in 0..INDEXCOUNT /\ M \in 0..INDEXCOUNT
      BY <1>12
    <2> QED BY <1>5, <1>12, <1>14, <1>16, <2>1 DEF TypeOK
  <1>18. /\ \A x \in Live \ C : parent_index'[x] = parent_index[x] /\ parent_pos'[x] = parent_pos[x]
         /\ \A x \in C : parent_index'[x] = n /\ parent_pos'[x] = parent_pos[x] - (M + 1)
         /\ parent_index'[n] = 0 /\ parent_pos'[n] = 0
         /\ p \notin C /\ root \notin C
    <2>1. p \notin C /\ root \notin C
      BY <1>3, <1>14, <1>15 DEF Good, RootOK
    <2> QED BY <1>5, <1>14, <1>15, <1>16, <2>1
  <1>19. /\ \A x \in Live \ {p} : /\ Slots(x)' = Slots(x) /\ Positions(x)' = Positions(x)
                                 /\ size(x)' = size(x)
         /\ Slots(p)' = 0..(M - 1) /\ Positions(p)' = 0..M /\ size(p)' = M
         /\ Slots(n)' = 0..(R - 1) /\ Positions(n)' = 0..R /\ size(n)' = R
    <2>1. \A x \in Live \ {p} : l_pos'[x] = l_pos[x] /\ r_pos'[x] = r_pos[x]
      BY <1>5, <1>14, <1>17
    <2>2. M - 0 = M /\ R - 0 = R
      BY <1>12
    <2> QED BY <1>17, <2>1, <2>2 DEF Slots, Positions, size
  <1>20. /\ Fresh' = Fresh /\ n \notin Fresh /\ p \notin Fresh
         /\ Half = {} /\ Half' = {p}
    <2>1. parent_index'[p] = parent_index[p]
      BY <1>18
    <2> QED BY <1>2, <1>3, <1>14, <1>16, <2>1 DEF Fresh, Half
  <1>21. /\ max \in Nat /\ max' \in Nat /\ 0..max \subseteq 0..max' /\ n \in 1..max' /\ MaxKey \in Nat
    <2>1. max \in Nat /\ max' \in Nat
      BY <1>5, PageAssumption DEF TypeOK, Page
    <2>2. n \in 1..max'
      BY <1>5 DEF Live
    <2> QED BY <1>5, <2>1, <2>2, KeyAssumption
  <1>22. TypeOK'
    <2>1. ASSUME NEW x \in Page
          PROVE  /\ l_pos'[x] <= r_pos'[x]
                 /\ key'[x] \in [l_pos'[x]..(r_pos'[x] - 1) -> Key]
                 /\ kid'[x] \in [l_pos'[x]..r_pos'[x] -> 0..max']
      <3>1. CASE x \notin {n, p}
        <4>1. kid[x] \in [l_pos[x]..r_pos[x] -> 0..max']
          BY <1>21 DEF TypeOK
        <4> QED BY <1>17, <3>1, <4>1 DEF TypeOK
      <3>2. CASE x = p
        <4>1. LP \in [0..M -> 0..max'] /\ 0 <= M
          BY <1>12, <1>21
        <4> QED BY <1>12, <1>17, <3>2, <4>1
      <3>3. CASE x = n
        <4>1. LS \in [0..R -> 0..max'] /\ 0 <= R
          BY <1>12, <1>21
        <4> QED BY <1>12, <1>17, <3>3, <4>1
      <3> QED BY <3>1, <3>2, <3>3
    <2>2. parent_index' \in [Page -> 0..max']
      <3>1. \A x \in Page : parent_index[x] \in 0..max'
        BY <1>21 DEF TypeOK
      <3>2. n \in 0..max' /\ 0 \in 0..max'
        BY <1>21
      <3> QED BY <1>16, <3>1, <3>2
    <2>3. parent_pos' \in [Page -> 0..INDEXCOUNT]
      <3>1. \A x \in Page : parent_pos[x] \in 0..INDEXCOUNT
        BY DEF TypeOK
      <3>2. \A x \in C : PosOf(p, x) - (M + 1) \in 0..INDEXCOUNT
        <4>1. SUFFICES ASSUME NEW x \in C PROVE PosOf(p, x) - (M + 1) \in 0..INDEXCOUNT
          OBVIOUS
        <4>2. PosOf(p, x) = parent_pos[x] /\ parent_pos[x] \in (M + 1)..INDEXCOUNT
          BY <1>15, <4>1
        <4>3. PICK u \in Int : u = parent_pos[x]
          BY <1>13, <4>2
        <4>4. u - (M + 1) \in 0..INDEXCOUNT
          BY <1>13, <4>2, <4>3
        <4> QED BY <4>2, <4>3, <4>4
      <3>3. 0 \in 0..INDEXCOUNT
        BY <1>12
      <3> QED BY <1>16, <3>1, <3>2, <3>3
    <2>4. dirty' \subseteq Page /\ answer' \in {<<>>} \cup (Key \X BOOLEAN) /\ root' \in Page
      BY <1>5, <1>14, <1>15, <1>16 DEF TypeOK
    <2> QED BY <1>5, <1>17, <2>1, <2>2, <2>3, <2>4 DEF TypeOK
  <1>23. PICK lo2 : lo2 = [x \in Page |-> IF x = n THEN mid ELSE lo[x]]
    OBVIOUS
  <1>24. PICK hi2 : hi2 = [x \in Page |-> IF x = n THEN hi[p] ELSE IF x = p THEN mid ELSE hi[x]]
    OBVIOUS
  <1>25. PICK lv2 : lv2 = [x \in Page |-> IF x = n THEN lv[p] ELSE lv[x]]
    OBVIOUS
  <1>26. /\ \A x \in Live : lo2[x] = lo[x] /\ lv2[x] = lv[x] /\ (x # p => hi2[x] = hi[x])
         /\ hi2[p] = mid /\ lo2[n] = mid /\ hi2[n] = hi[p] /\ lv2[n] = lv[p]
    BY <1>5, <1>14, <1>23, <1>24, <1>25
  <1>27. /\ \A x \in Live : /\ lo[x] \in Int /\ hi[x] \in Int /\ lv[x] \in Nat /\ lo[x] < hi[x]
                            /\ lo[x] \in 0..(MaxKey + 1) /\ hi[x] \in 0..(MaxKey + 1)
         /\ mid \in Key /\ mid \in Int /\ lo[p] < mid /\ mid < hi[p]
         /\ \A j \in Slots(p) : key[p][j] \in Int /\ lo[p] < key[p][j] /\ key[p][j] < hi[p]
         /\ \A i, j \in Slots(p) : i < j => key[p][i] < key[p][j]
    <2>1. \A x \in Live : /\ lo[x] \in 0..(MaxKey + 1) /\ hi[x] \in 0..(MaxKey + 1)
                          /\ lv[x] \in Nat /\ lo[x] < hi[x]
      BY DEF Good, GhostType, Keys
    <2>2. /\ \A j \in Slots(p) : key[p][j] \in 1..MaxKey /\ lo[p] < key[p][j] /\ key[p][j] < hi[p]
          /\ \A i, j \in Slots(p) : i < j => key[p][i] < key[p][j]
      BY LiveTyped DEF Good, Keys
    <2>3. mid \in 1..MaxKey /\ lo[p] < mid /\ mid < hi[p]
      BY <1>11, <1>12, <2>2
    <2> QED BY <1>21, <2>1, <2>2, <2>3 DEF Key
  <1>28. GhostType(lo2, hi2, lv2)'
    <2>1. mid \in 0..(MaxKey + 1)
      BY <1>21, <1>27 DEF Key
    <2>2. \A x \in Live' : lo2[x] \in 0..(MaxKey + 1) /\ hi2[x] \in 0..(MaxKey + 1) /\ lv2[x] \in Nat
      BY <1>5, <1>26, <1>27, <2>1
    <2> QED BY <2>2 DEF GhostType
  <1>29. Keys(lo2, hi2)'
    <2>1. \A x \in Live \ {p} : /\ lo2[x] < hi2[x]
                                /\ \A i \in Slots(x)' : lo2[x] < key'[x][i] /\ key'[x][i] < hi2[x]
                                /\ \A i, j \in Slots(x)' : i < j => key'[x][i] < key'[x][j]
      BY <1>5, <1>14, <1>17, <1>19, <1>26 DEF Good, Keys
    <2>2. /\ lo2[p] < hi2[p]
          /\ \A i \in Slots(p)' : lo2[p] < key'[p][i] /\ key'[p][i] < hi2[p]
          /\ \A i, j \in Slots(p)' : i < j => key'[p][i] < key'[p][j]
      <3>1. \A i \in 0..(M - 1) : i < M /\ i \in Slots(p) /\ key'[p][i] = key[p][i]
        BY <1>12, <1>17
      <3>2. \A i \in 0..(M - 1) : lo[p] < key[p][i] /\ key[p][i] < mid
        BY <1>11, <1>12, <1>27, <3>1
      <3>3. lo2[p] = lo[p] /\ hi2[p] = mid
        BY <1>26
      <3>4. \A i, j \in 0..(M - 1) : i < j => key[p][i] < key[p][j]
        BY <1>27, <3>1
      <3>5. /\ \A i \in 0..(M - 1) : lo2[p] < key'[p][i] /\ key'[p][i] < hi2[p]
            /\ \A i, j \in 0..(M - 1) : i < j => key'[p][i] < key'[p][j]
        BY <3>1, <3>2, <3>3, <3>4
      <3> QED BY <1>19, <1>27, <3>3, <3>5
    <2>3. /\ lo2[n] < hi2[n]
          /\ \A i \in Slots(n)' : lo2[n] < key'[n][i] /\ key'[n][i] < hi2[n]
          /\ \A i, j \in Slots(n)' : i < j => key'[n][i] < key'[n][j]
      <3>1. ASSUME NEW i \in 0..(R - 1)
            PROVE  /\ i \in Int /\ M < i + M + 1 /\ i + M + 1 \in Slots(p) /\ key'[n][i] = key[p][i + M + 1]
                   /\ lo2[n] < key'[n][i] /\ key'[n][i] < hi2[n]
        <4>1. i \in Int /\ M < i + M + 1 /\ i + M + 1 \in Slots(p)
          <5>1. i \in Int /\ M < i + M + 1
            BY <1>13
          <5>2. i + M + 1 \in Slots(p)
            BY <1>12
          <5> QED BY <5>1, <5>2
        <4>2. key'[n][i] = key[p][i + M + 1]
          BY <1>12, <1>17
        <4>3. mid < key[p][i + M + 1] /\ key[p][i + M + 1] < hi[p]
          BY <1>11, <1>12, <1>27, <4>1
        <4> QED BY <1>26, <4>1, <4>2, <4>3
      <3>2. ASSUME NEW i \in 0..(R - 1), NEW j \in 0..(R - 1), i < j
            PROVE  key'[n][i] < key'[n][j]
        <4>1. i + M + 1 < j + M + 1
          BY <1>12, <3>1, <3>2, SMTT(30)
        <4> QED BY <1>27, <3>1, <4>1
      <3> QED BY <1>19, <1>26, <1>27, <3>1, <3>2
    <2>4. \A x \in Live' : x = n \/ x = p \/ x \in Live \ {p}
      BY <1>5
    <2> QED BY <2>1, <2>2, <2>3, <2>4 DEF Keys
  <1>30. Down(lo2, hi2, lv2)'
    <2>1. ASSUME NEW x \in Live \ Fresh, x # p, NEW i \in Positions(x)'
          PROVE  /\ lv2[x] = 0 => kid'[x][i] = 0
                 /\ lv2[x] > 0 => /\ kid'[x][i] \in Live' /\ lv2[kid'[x][i]] = lv2[x] - 1
                                  /\ parent_index'[kid'[x][i]] = x /\ parent_pos'[kid'[x][i]] = i
                                  /\ lo2[kid'[x][i]] = LoAt(lo2, x, i)'
                                  /\ kid'[x][i] # p => hi2[kid'[x][i]] = HiAt(hi2, x, i)'
      <3>1. /\ x \in Page \ {n, p} /\ i \in Positions(x) /\ kid'[x] = kid[x] /\ lv2[x] = lv[x]
            /\ LoAt(lo2, x, i)' = LoAt(lo, x, i) /\ HiAt(hi2, x, i)' = HiAt(hi, x, i)
        BY <1>5, <1>14, <1>17, <1>19, <1>26, <2>1 DEF LoAt, HiAt
      <3>2. CASE lv[x] = 0
        BY <2>1, <3>1, <3>2 DEF Good, Down
      <3>3. CASE lv[x] > 0
        <4>1. PICK c \in Live : c = kid[x][i]
          BY <2>1, <3>1, <3>3 DEF Good, Down
        <4>2. /\ lv[c] = lv[x] - 1 /\ parent_index[c] = x /\ parent_pos[c] = i
              /\ lo[c] = LoAt(lo, x, i) /\ hi[c] = HiAt(hi, x, i)
          BY <1>20, <2>1, <3>1, <3>3, <4>1 DEF Good, Down
        <4>3. c \notin C
          BY <1>15, <2>1, <4>2
        <4> QED BY <1>5, <1>18, <1>26, <3>1, <3>3, <4>1, <4>2, <4>3
      <3> QED BY <1>27, <3>2, <3>3
    <2>2. ASSUME NEW i \in 0..M
          PROVE  /\ lv2[p] = 0 => kid'[p][i] = 0
                 /\ lv2[p] > 0 => /\ kid'[p][i] \in Live' /\ lv2[kid'[p][i]] = lv2[p] - 1
                                  /\ parent_index'[kid'[p][i]] = p /\ parent_pos'[kid'[p][i]] = i
                                  /\ lo2[kid'[p][i]] = LoAt(lo2, p, i)'
                                  /\ kid'[p][i] # p => hi2[kid'[p][i]] = HiAt(hi2, p, i)'
      <3>1. i \in Positions(p) /\ kid'[p][i] = kid[p][i] /\ lv2[p] = lv[p] /\ i \in Int /\ i <= M /\ 0 <= i
        BY <1>12, <1>17, <1>26
      <3>2. CASE lv[p] = 0
        BY <1>14, <3>1, <3>2 DEF Good, Down
      <3>3. CASE lv[p] > 0
        <4>1. PICK c \in Live : c = kid[p][i]
          BY <1>14, <3>1, <3>3 DEF Good, Down
        <4>2. /\ lv[c] = lv[p] - 1 /\ parent_index[c] = p /\ parent_pos[c] = i
              /\ lo[c] = LoAt(lo, p, i) /\ hi[c] = HiAt(hi, p, i)
          BY <1>14, <1>20, <3>1, <3>3, <4>1 DEF Good, Down
        <4>3. c \notin C /\ c # p
          <5>1. parent_pos[c] \notin (M + 1)..INDEXCOUNT
            BY <1>13, <3>1, <4>2
          <5> QED BY <1>15, <1>27, <4>2, <5>1
        <4>4. LoAt(lo2, p, i)' = LoAt(lo, p, i)
          <5>1. CASE i = 0
            BY <1>12, <1>17, <1>26, <5>1 DEF LoAt
          <5>2. CASE i # 0
            <6>1. i - 1 \in 0..(M - 1)
              BY <1>12, <3>1, <5>2
            <6>2. key'[p][i - 1] = key[p][i - 1]
              BY <1>12, <1>17, <6>1
            <6> QED BY <1>12, <1>17, <5>2, <6>2 DEF LoAt
          <5> QED BY <5>1, <5>2
        <4>5. HiAt(hi2, p, i)' = HiAt(hi, p, i)
          <5>1. CASE i = M
            BY <1>11, <1>12, <1>17, <1>26, <5>1 DEF HiAt
          <5>2. CASE i # M
            <6>1. i \in 0..(M - 1) /\ i # INDEXCOUNT
              BY <1>12, <3>1, <5>2
            <6>2. key'[p][i] = key[p][i]
              BY <1>12, <1>17, <6>1
            <6> QED BY <1>12, <1>17, <5>2, <6>1, <6>2 DEF HiAt
          <5> QED BY <5>1, <5>2
        <4> QED BY <1>5, <1>18, <1>26, <3>1, <3>3, <4>1, <4>2, <4>3, <4>4, <4>5
      <3> QED BY <1>27, <3>1, <3>2, <3>3
    <2>3. ASSUME NEW i \in 0..R
          PROVE  /\ lv2[n] = 0 => kid'[n][i] = 0
                 /\ lv2[n] > 0 => /\ kid'[n][i] \in Live' /\ lv2[kid'[n][i]] = lv2[n] - 1
                                  /\ parent_index'[kid'[n][i]] = n /\ parent_pos'[kid'[n][i]] = i
                                  /\ lo2[kid'[n][i]] = LoAt(lo2, n, i)'
                                  /\ kid'[n][i] # p => hi2[kid'[n][i]] = HiAt(hi2, n, i)'
      <3>1. PICK u \in Int : u = i + M + 1 /\ u - (M + 1) = i /\ u \in (M + 1)..INDEXCOUNT
        BY <1>13
      <3>2. u \in Positions(p) /\ kid'[n][i] = kid[p][u] /\ lv2[n] = lv[p] /\ i \in Int /\ i <= R /\ 0 <= i
        <4>1. u \in Positions(p) /\ LS[i] = kid[p][u]
          BY <1>12, <3>1
        <4> QED BY <1>17, <1>26, <1>13, <4>1
      <3>3. CASE lv[p] = 0
        BY <1>14, <3>2, <3>3 DEF Good, Down
      <3>4. CASE lv[p] > 0
        <4>1. PICK c \in Live : c = kid[p][u]
          BY <1>14, <3>2, <3>4 DEF Good, Down
        <4>2. /\ lv[c] = lv[p] - 1 /\ parent_index[c] = p /\ parent_pos[c] = u
              /\ lo[c] = LoAt(lo, p, u) /\ hi[c] = HiAt(hi, p, u)
          BY <1>14, <1>20, <3>2, <3>4, <4>1 DEF Good, Down
        <4>3. c \in C /\ c # p
          BY <1>15, <1>27, <3>1, <4>2
        <4>4. LoAt(lo2, n, i)' = LoAt(lo, p, u)
          <5>1. CASE i = 0
            <6>1. u - 1 = M /\ u # 0
              BY <1>13, <3>1, <5>1
            <6> QED BY <1>11, <1>12, <1>17, <1>26, <5>1, <6>1 DEF LoAt
          <5>2. CASE i # 0
            <6>1. i - 1 \in 0..(R - 1) /\ (i - 1) + M + 1 = u - 1 /\ u # 0
              BY <1>13, <3>1, <3>2, <5>2
            <6>2. key'[n][i - 1] = key[p][u - 1]
              <7>1. PICK w \in Int : w = i - 1 /\ w \in 0..(R - 1) /\ w + M + 1 = u - 1
                BY <6>1
              <7>2. KS[w] = key[p][w + M + 1]
                BY <1>12, <7>1
              <7> QED BY <1>17, <7>1, <7>2
            <6> QED BY <1>12, <1>17, <5>2, <6>1, <6>2 DEF LoAt
          <5> QED BY <5>1, <5>2
        <4>5. HiAt(hi2, n, i)' = HiAt(hi, p, u)
          <5>1. CASE i = R
            <6>1. u = INDEXCOUNT
              BY <1>12, <3>1, <5>1
            <6> QED BY <1>12, <1>17, <1>26, <5>1, <6>1 DEF HiAt
          <5>2. CASE i # R
            <6>1. i \in 0..(R - 1) /\ u # INDEXCOUNT
              BY <1>13, <3>1, <3>2, <5>2
            <6>2. key'[n][i] = key[p][u]
              BY <1>12, <1>17, <3>1, <6>1
            <6> QED BY <1>12, <1>17, <5>2, <6>1, <6>2 DEF HiAt
          <5> QED BY <5>1, <5>2
        <4>6. parent_pos'[c] = i /\ parent_index'[c] = n
          BY <1>18, <3>1, <4>2, <4>3
        <4> QED BY <1>5, <1>26, <3>2, <3>4, <4>1, <4>2, <4>3, <4>4, <4>5, <4>6
      <3> QED BY <1>27, <3>2, <3>3, <3>4
    <2>4. \A x \in Live' \ Fresh' : x = n \/ x = p \/ (x \in Live \ Fresh /\ x # p)
      BY <1>5, <1>20
    <2>5. ASSUME NEW x \in Live', x \notin Fresh', NEW i \in Positions(x)'
          PROVE  /\ lv2[x] = 0 => kid'[x][i] = 0
                 /\ lv2[x] > 0 => /\ kid'[x][i] \in Live' /\ lv2[kid'[x][i]] = lv2[x] - 1
                                  /\ parent_index'[kid'[x][i]] = x /\ parent_pos'[kid'[x][i]] = i
                                  /\ lo2[kid'[x][i]] = LoAt(lo2, x, i)'
                                  /\ kid'[x][i] # p => hi2[kid'[x][i]] = HiAt(hi2, x, i)'
      <3>1. CASE x = n
        BY <1>19, <2>3, <2>5, <3>1
      <3>2. CASE x = p
        BY <1>19, <2>2, <2>5, <3>2
      <3>3. CASE x \in Live \ Fresh /\ x # p
        BY <2>1, <2>5, <3>3
      <3> QED BY <2>4, <2>5, <3>1, <3>2, <3>3
    <2> QED BY <1>20, <2>5 DEF Down
  <1>31. Up'
    <2>1. ASSUME NEW x \in Live
          PROVE  /\ parent_index'[x] # 0 => /\ parent_index'[x] \in Live' \ Fresh'
                                            /\ parent_pos'[x] \in Positions(parent_index[x])'
                                            /\ kid'[parent_index'[x]][parent_pos'[x]] = x
                 /\ parent_index'[x] = 0 => parent_pos'[x] = 0 /\ (x = root \/ (x = p /\ root = q))
      <3>1. CASE x \in C
        <4>1. parent_index[x] = p /\ parent_pos[x] \in (M + 1)..INDEXCOUNT /\ kid[p][parent_pos[x]] = x
          BY <1>14, <1>15, <3>1 DEF Good, Up
        <4>2. PICK i \in 0..R : i = parent_pos[x] - (M + 1) /\ i + M + 1 = parent_pos[x]
          <5>1. PICK w \in Int : w = parent_pos[x] /\ M + 1 <= w /\ w <= INDEXCOUNT
            BY <1>13, <4>1
          <5>2. w - (M + 1) \in 0..R /\ (w - (M + 1)) + M + 1 = w
            BY <1>13, <5>1
          <5> QED BY <5>1, <5>2
        <4>3. kid'[n][i] = x
          <5>1. LS[i] = kid[p][parent_pos[x]]
            BY <1>12, <4>2
          <5> QED BY <1>17, <4>1, <5>1
        <4>4. n \in Live' \ Fresh'
          BY <1>3, <1>5, <1>14, <1>20
        <4>5. parent_index'[x] = n /\ parent_pos'[x] = i /\ i \in Positions(n)'
          BY <1>18, <1>19, <3>1, <4>2
        <4> QED BY <1>5, <4>3, <4>4, <4>5
      <3>2. CASE x \notin C /\ parent_index[x] = p
        <4>1. parent_pos[x] \in Positions(p) /\ kid[p][parent_pos[x]] = x
          BY <1>14, <3>2 DEF Good, Up
        <4>2. parent_pos[x] \in 0..M
          <5>1. parent_pos[x] \in 0..INDEXCOUNT /\ parent_pos[x] \notin (M + 1)..INDEXCOUNT
            BY <1>12, <1>15, <3>2, <4>1 DEF Positions
          <5> QED BY <1>12, <5>1
        <4>3. kid'[p][parent_pos[x]] = x
          BY <1>12, <1>17, <4>1, <4>2
        <4>4. parent_index'[x] = p /\ parent_pos'[x] = parent_pos[x] /\ parent_pos[x] \in Positions(p)'
          BY <1>18, <1>19, <3>2, <4>2
        <4> QED BY <1>5, <1>14, <1>20, <4>3, <4>4
      <3>3. CASE x \notin C /\ parent_index[x] # p /\ parent_index[x] # 0
        <4>1. PICK y \in Live : /\ y = parent_index[x] /\ parent_pos[x] \in Positions(y) /\ y \notin Fresh
                                /\ kid[y][parent_pos[x]] = x /\ y # p
          BY <3>3 DEF Good, Up
        <4>2. Positions(y)' = Positions(y) /\ kid'[y] = kid[y]
          BY <1>5, <1>14, <1>17, <1>19, <4>1
        <4>3. parent_index'[x] = y /\ parent_pos'[x] = parent_pos[x]
          BY <1>18, <3>3, <4>1
        <4> QED BY <1>5, <1>14, <1>20, <4>1, <4>2, <4>3
      <3>4. CASE x \notin C /\ parent_index[x] = 0
        <4>1. parent_pos[x] = 0 /\ (x = root \/ (x = p /\ root = q))
          BY <1>2, <3>4 DEF Good, Up
        <4> QED BY <1>18, <3>4, <4>1
      <3> QED BY <3>1, <3>2, <3>3, <3>4
    <2>2. job'.do = "insert_internal" /\ job'.l_child = p /\ job'.r_child = n /\ job'.page = q /\ root' = root
      BY <1>16
    <2> QED BY <1>5, <1>18, <2>1, <2>2 DEF Up
  <1>32. RootOK(lo2, hi2, lv2)'
    <2>1. root \in Live /\ root # p /\ lo[root] = 0 /\ hi[root] = MaxKey + 1 /\ \A x \in Live : lv[x] <= lv[root]
      BY <1>3 DEF Good, RootOK
    <2>2. \A x \in Live' : lv2[x] <= lv2[root]
      BY <1>5, <1>26, <2>1
    <2>3. parent_index'[root] = 0
      BY <1>18, <2>1 DEF Good, RootOK
    <2> QED BY <1>5, <1>16, <1>26, <2>1, <2>2, <2>3 DEF RootOK
  <1>33. Size(lv2)'
    <2>1. ASSUME NEW x \in Live \ Fresh, x # p
          PROVE  /\ size(x)' # INDEXCOUNT
                 /\ x # root => size(x)' >= INDEXMINR
                 /\ lv2[x] > 0 => size(x)' > 0
      BY <1>2, <1>19, <1>26, <2>1 DEF Good, Size
    <2>2. /\ size(p)' # INDEXCOUNT /\ size(p)' >= INDEXMINR /\ size(p)' > 0
          /\ size(n)' # INDEXCOUNT /\ size(n)' >= INDEXMINR /\ size(n)' > 0
      BY <1>7, <1>19, <1>13
    <2>3. \A x \in Live' \ Fresh' : x = n \/ x = p \/ (x \in Live \ Fresh /\ x # p)
      BY <1>5, <1>20
    <2> QED BY <1>16, <2>1, <2>2, <2>3 DEF Size
  <1>34. Apart(lo2, hi2, lv2)'
    <2>1. ASSUME NEW x \in Live, NEW y \in Live, x # y, lv[x] = lv[y]
          PROVE  /\ hi[x] <= lo[y] \/ hi[y] <= lo[x]
                 /\ hi2[x] <= lo2[y] \/ hi2[y] <= lo2[x]
      <3>1. hi[x] <= lo[y] \/ hi[y] <= lo[x]
        BY <2>1 DEF Good, Apart
      <3>2. hi2[x] \in Int /\ hi2[y] \in Int /\ hi2[x] <= hi[x] /\ hi2[y] <= hi[y] /\ lo2[x] = lo[x] /\ lo2[y] = lo[y]
        BY <1>26, <1>27
      <3> QED BY <1>27, <3>1, <3>2
    <2>2. ASSUME NEW y \in Live, lv2[n] = lv2[y]
          PROVE  hi2[n] <= lo2[y] \/ hi2[y] <= lo2[n]
      <3>1. CASE y = p
        BY <1>26, <1>27, <3>1
      <3>2. CASE y # p
        <4>1. hi[p] <= lo[y] \/ hi[y] <= lo[p]
          BY <1>26, <2>1, <2>2, <3>2
        <4>2. hi2[n] = hi[p] /\ lo2[y] = lo[y] /\ hi2[y] = hi[y] /\ lo2[n] = mid
          BY <1>26, <3>2
        <4> QED BY <1>27, <4>1, <4>2
      <3> QED BY <3>1, <3>2
    <2>3. ASSUME NEW v \in Int, NEW y \in Live, Outside(v, lo, hi, y)
          PROVE  Outside(v, lo2, hi2, y) /\ (y = p => Outside(v, lo2, hi2, n))
      BY <1>26, <1>27, <2>3 DEF Outside
    <2>4. ASSUME NEW x \in Live, NEW y \in Live, x # y, lv[x] > lv[y]
          PROVE  /\ Outside(lo[x], lo, hi, y) /\ Outside(hi[x], lo, hi, y)
                 /\ \A j \in Slots(x) : Outside(key[x][j], lo, hi, y) /\ key[x][j] \in Int
                 /\ Outside(lo2[x], lo2, hi2, y) /\ Outside(hi2[x], lo2, hi2, y)
                 /\ \A j \in Slots(x)' : Outside(key'[x][j], lo2, hi2, y)
                 /\ y = p => /\ Outside(lo2[x], lo2, hi2, n) /\ Outside(hi2[x], lo2, hi2, n)
                             /\ \A j \in Slots(x)' : Outside(key'[x][j], lo2, hi2, n)
      <3>1. /\ Outside(lo[x], lo, hi, y) /\ Outside(hi[x], lo, hi, y)
            /\ \A j \in Slots(x) : Outside(key[x][j], lo, hi, y) /\ key[x][j] \in Int
        BY <2>4, LiveTyped DEF Good, Apart
      <3>2. CASE x # p
        <4>1. lo2[x] = lo[x] /\ hi2[x] = hi[x] /\ Slots(x)' = Slots(x) /\ key'[x] = key[x]
          BY <1>5, <1>14, <1>17, <1>19, <1>26, <3>2
        <4> QED BY <1>27, <2>3, <3>1, <4>1
      <3>3. CASE x = p
        <4>1. lo2[p] = lo[p] /\ hi2[p] = mid /\ y # p
          BY <1>26, <2>4, <3>3
        <4>2. Outside(mid, lo, hi, y)
          BY <1>11, <1>12, <3>1, <3>3
        <4>3. \A j \in 0..(M - 1) : key'[p][j] = key[p][j] /\ j \in Slots(p)
          BY <1>12, <1>17
        <4> QED BY <1>19, <1>27, <2>3, <3>1, <3>3, <4>1, <4>2, <4>3
      <3> QED BY <3>1, <3>2, <3>3
    <2>5. ASSUME NEW y \in Live, lv2[n] > lv2[y]
          PROVE  /\ Outside(lo2[n], lo2, hi2, y) /\ Outside(hi2[n], lo2, hi2, y)
                 /\ \A j \in Slots(n)' : Outside(key'[n][j], lo2, hi2, y)
      <3>1. y # p /\ lv[p] > lv[y]
        BY <1>26, <1>27, <2>5
      <3>2. /\ Outside(hi[p], lo, hi, y) /\ \A j \in Slots(p) : Outside(key[p][j], lo, hi, y)
        BY <2>4, <3>1
      <3>3. \A j \in 0..(R - 1) : j + M + 1 \in Slots(p) /\ key'[n][j] = key[p][j + M + 1]
        BY <1>12, <1>17
      <3>4. Outside(mid, lo, hi, y)
        BY <1>11, <1>12, <3>2
      <3> QED BY <1>19, <1>26, <1>27, <2>3, <3>2, <3>3, <3>4
    <2>6. ASSUME NEW x \in Live, lv2[x] > lv2[n]
          PROVE  /\ Outside(lo2[x], lo2, hi2, n) /\ Outside(hi2[x], lo2, hi2, n)
                 /\ \A j \in Slots(x)' : Outside(key'[x][j], lo2, hi2, n)
      <3>1. x # p /\ lv[x] > lv[p]
        BY <1>26, <1>27, <2>6
      <3> QED BY <2>4, <3>1
    <2>7. \A x, y \in Live' : x # y =>
             /\ lv2[x] = lv2[y] => hi2[x] <= lo2[y] \/ hi2[y] <= lo2[x]
             /\ lv2[x] > lv2[y] =>
                   /\ Outside(lo2[x], lo2, hi2, y) /\ Outside(hi2[x], lo2, hi2, y)
                   /\ \A i \in Slots(x)' : Outside(key'[x][i], lo2, hi2, y)
      <3>1. TAKE x, y \in Live'
      <3>2. CASE x \in Live /\ y \in Live
        BY <1>26, <2>1, <2>4, <3>2
      <3>3. CASE x = n /\ y \in Live
        BY <1>26, <2>2, <2>5, <3>3
      <3>4. CASE x \in Live /\ y = n
        BY <1>26, <2>2, <2>6, <3>4
      <3> QED BY <1>5, <3>2, <3>3, <3>4
    <2> QED BY <2>7 DEF Apart, Outside
  <1>35. Job(lo2, hi2, lv2)'
    <2>1. PICK i : i = parent_pos[p]
      OBVIOUS
    <2>2. /\ q \in Live' /\ p \in Live' /\ n \in Live' /\ mid \in Key /\ i \in 0..INDEXCOUNT
          /\ job' = [do |-> "insert_internal", page |-> q, pos |-> i, key |-> mid,
                    l_child |-> p, r_child |-> n]
          /\ {q, p, n} \subseteq dirty' /\ p # n /\ n # root'
          /\ lv2[p] = lv2[q] - 1 /\ lv2[n] = lv2[p]
          /\ hi2[p] = mid /\ lo2[n] = mid
          /\ parent_index'[n] = 0 /\ i \in Positions(q)'
      <3>1. i \in 0..INDEXCOUNT
        BY <1>14, <2>1 DEF TypeOK
      <3>2. {q, p, n} \subseteq dirty'
        BY <1>1, <1>16
      <3>3. lv2[p] = lv2[q] - 1
        BY <1>2, <1>3, <1>26, <1>27
      <3>4. i \in Positions(q)'
        BY <1>2, <1>3, <1>19, <2>1
      <3> QED BY <1>2, <1>5, <1>14, <1>16, <1>18, <1>26, <1>27, <2>1, <3>1, <3>2, <3>3, <3>4
    <2>3. ASSUME NEW y \in Live', lv2[y] < lv2[q]
          PROVE  Outside(mid, lo2, hi2, y)
      <3>1. CASE y = n \/ y = p
        BY <1>26, <1>27, <3>1 DEF Outside
      <3>2. CASE y \in Live /\ y # p
        <4>1. lv[y] = lv[p] \/ lv[p] > lv[y]
          BY <1>2, <1>3, <1>26, <1>27, <2>3, <3>2
        <4>2. CASE lv[y] = lv[p]
          <5>1. hi[y] <= lo[p] \/ hi[p] <= lo[y]
            BY <3>2, <4>2 DEF Good, Apart
          <5>2. hi2[y] = hi[y] /\ lo2[y] = lo[y]
            BY <1>26, <3>2
          <5> QED BY <1>27, <3>2, <5>1, <5>2 DEF Outside
        <4>3. CASE lv[p] > lv[y]
          <5>1. Outside(mid, lo, hi, y)
            BY <1>11, <1>12, <3>2, <4>3 DEF Good, Apart
          <5> QED BY <1>26, <3>2, <5>1 DEF Outside
        <4> QED BY <4>1, <4>2, <4>3
      <3> QED BY <1>5, <3>1, <3>2
    <2>4. \/ /\ parent_index'[p] = q /\ parent_pos'[p] = i /\ hi2[n] = HiAt(hi2, q, i)'
             /\ size(q)' < INDEXCOUNT /\ size(q)' > 0
          \/ /\ parent_index'[p] = 0 /\ q = root' /\ Blank(q)' /\ lo2[p] = 0 /\ hi2[n] = MaxKey + 1
      <3>1. CASE q = parent_index[p]
        <4>1. parent_index'[p] = q /\ parent_pos'[p] = i
          BY <1>18, <2>1, <3>1
        <4>2. hi[p] = HiAt(hi, q, i) /\ size(q) < INDEXCOUNT /\ size(q) > 0
          BY <1>3, <2>1, <3>1
        <4>3. HiAt(hi2, q, i)' = HiAt(hi, q, i)
          BY <1>2, <1>3, <1>14, <1>17, <1>26 DEF HiAt
        <4> QED BY <1>2, <1>3, <1>19, <1>26, <4>1, <4>2, <4>3
      <3>2. CASE q # parent_index[p]
        BY <1>2, <1>3, <1>14, <1>16, <1>17, <1>18, <1>26, <3>2 DEF Blank
      <3> QED BY <3>1, <3>2
    <2> QED BY <2>2, <2>3, <2>4 DEF Job, Outside
  <1>36. Good(lo2, hi2, lv2)'
    BY <1>28, <1>29, <1>30, <1>31, <1>32, <1>33, <1>34, <1>35 DEF Good
  <1> QED BY <1>5, <1>22, <1>36

-------------------------------------------------------------------------------
(* The halves of a page enter the one above.                               *)

\* Where a position can be to a new slot.
LEMMA Around ==
    ASSUME NEW j \in Int, NEW i \in Int, NEW d \in Int
    PROVE  j < i - d \/ j = i - d \/ j = i - d + 1 \/ j > i - d + 1
  OBVIOUS

\* The bounds of the links of page p with key k in a new slot are those it
\* had, but for the two links at the slot.
BoundsWith(lo, hi, p, i, k, d, K) ==
    \A j \in (l_pos[p] - d)..(r_pos[p] + 1 - d) : \E newLo, newHi :
        /\ newLo = IF j = l_pos[p] - d THEN lo[p] ELSE K[j - 1]
        /\ newHi = IF j = r_pos[p] + 1 - d THEN hi[p] ELSE K[j]
        /\ j < i - d => newLo = LoAt(lo, p, j + d) /\ newHi = HiAt(hi, p, j + d)
        /\ j = i - d => newLo = LoAt(lo, p, i) /\ newHi = k
        /\ j = i - d + 1 => newLo = k /\ newHi = HiAt(hi, p, i)
        /\ j > i - d + 1 => newLo = LoAt(lo, p, j + d - 1) /\ newHi = HiAt(hi, p, j + d - 1)

\* The bounds of the children of a page with a new key.
LEMMA InsertedBounds ==
    ASSUME TypeOK, NEW p \in Live, NEW i \in Positions(p), NEW k \in Key, size(p) < INDEXCOUNT,
           NEW lo, NEW hi
    PROVE  \E d, K : d = Gap(p, i) /\ K = KeysWith(p, i, k) /\ BoundsWith(lo, hi, p, i, k, d, K)
  <1>1. PICK d : d = Gap(p, i)
    OBVIOUS
  <1>2. PICK K : K = KeysWith(p, i, k)
    OBVIOUS
  <1>3. SUFFICES ASSUME NEW j \in (l_pos[p] - d)..(r_pos[p] + 1 - d),
                        NEW newLo, newLo = IF j = l_pos[p] - d THEN lo[p] ELSE K[j - 1],
                        NEW newHi, newHi = IF j = r_pos[p] + 1 - d THEN hi[p] ELSE K[j]
                 PROVE  /\ j < i - d => newLo = LoAt(lo, p, j + d) /\ newHi = HiAt(hi, p, j + d)
                        /\ j = i - d => newLo = LoAt(lo, p, i) /\ newHi = k
                        /\ j = i - d + 1 => newLo = k /\ newHi = HiAt(hi, p, i)
                        /\ j > i - d + 1 => newLo = LoAt(lo, p, j + d - 1) /\ newHi = HiAt(hi, p, j + d - 1)
    BY <1>1, <1>2 DEF BoundsWith
  <1>4. /\ l_pos[p] \in Int /\ r_pos[p] \in Int /\ i \in Int /\ l_pos[p] <= i /\ i <= r_pos[p]
    BY LiveTyped DEF Positions
  <1>5. /\ d \in {0, 1}
        /\ \A m \in (l_pos[p] - d)..(r_pos[p] - d) :
                 /\ m < i - d => K[m] = key[p][m + d]
                 /\ m = i - d => K[m] = k
                 /\ m > i - d => K[m] = key[p][m + d - 1]
    BY <1>1, <1>2, InsertedKeys
  <1>6. d \in Int /\ j \in Int /\ l_pos[p] - d <= j /\ j <= r_pos[p] + 1 - d
    BY <1>4, <1>5
  <1>7. j # l_pos[p] - d => /\ j - 1 < i - d => K[j - 1] = key[p][j + d - 1]
                            /\ j - 1 = i - d => K[j - 1] = k
                            /\ j - 1 > i - d => K[j - 1] = key[p][j + d - 2]
    <2>1. SUFFICES ASSUME j # l_pos[p] - d
                   PROVE  /\ j - 1 < i - d => K[j - 1] = key[p][j + d - 1]
                          /\ j - 1 = i - d => K[j - 1] = k
                          /\ j - 1 > i - d => K[j - 1] = key[p][j + d - 2]
      OBVIOUS
    <2>2. PICK m \in (l_pos[p] - d)..(r_pos[p] - d) : m = j - 1
      BY <1>4, <1>6, <2>1
    <2>3. m + d = j + d - 1 /\ m + d - 1 = j + d - 2
      BY <1>6, <2>2
    <2> QED BY <1>5, <2>2, <2>3
  <1>8. j # r_pos[p] + 1 - d => /\ j < i - d => K[j] = key[p][j + d]
                                /\ j = i - d => K[j] = k
                                /\ j > i - d => K[j] = key[p][j + d - 1]
    <2>1. j # r_pos[p] + 1 - d => j \in (l_pos[p] - d)..(r_pos[p] - d)
      BY <1>4, <1>6
    <2> QED BY <1>5, <2>1
  <1>9. CASE j < i - d
    <2>1. j # r_pos[p] + 1 - d /\ j + d # r_pos[p] /\ (j = l_pos[p] - d <=> j + d = l_pos[p]) /\ j - 1 < i - d
          /\ j # i - d /\ ~(j > i - d + 1) /\ j # i - d + 1
      BY <1>4, <1>6, <1>9
    <2>2. newHi = HiAt(hi, p, j + d)
      BY <1>3, <1>8, <1>9, <2>1 DEF HiAt
    <2>3. newLo = LoAt(lo, p, j + d)
      <3>1. PICK u \in Int : u = j + d
        BY <1>6
      <3>2. u - 1 = j + d - 1
        BY <1>6, <3>1
      <3>3. newLo = IF u = l_pos[p] THEN lo[p] ELSE key[p][u - 1]
        BY <1>3, <1>7, <2>1, <3>1, <3>2
      <3> QED BY <3>1, <3>3 DEF LoAt
    <2> QED BY <2>1, <2>2, <2>3
  <1>10. CASE j = i - d
    <2>1. j = i - d /\ i - d + d = i
      BY <1>4, <1>6, <1>10
    <2>2. j # r_pos[p] + 1 - d /\ (j = l_pos[p] - d <=> i = l_pos[p]) /\ j - 1 < i - d /\ j + d - 1 = i - 1
          /\ ~(j < i - d) /\ ~(j > i - d + 1) /\ j # i - d + 1
      BY <1>4, <1>6, <1>10
    <2>3. newHi = k
      BY <1>3, <1>8, <1>10, <2>2
    <2>4. newLo = LoAt(lo, p, i)
      BY <1>3, <1>7, <2>2 DEF LoAt
    <2> QED BY <2>2, <2>3, <2>4
  <1>11. CASE j = i - d + 1
    <2>1. j # l_pos[p] - d /\ (j = r_pos[p] + 1 - d <=> i = r_pos[p]) /\ j - 1 = i - d /\ j > i - d
          /\ j + d - 1 = i /\ ~(j < i - d) /\ ~(j > i - d + 1) /\ j # i - d
      BY <1>4, <1>6, <1>11
    <2>2. newHi = HiAt(hi, p, i)
      BY <1>3, <1>8, <2>1 DEF HiAt
    <2>3. newLo = k
      BY <1>3, <1>7, <2>1
    <2> QED BY <2>1, <2>2, <2>3
  <1>12. CASE j > i - d + 1
    <2>1. j # l_pos[p] - d /\ (j = r_pos[p] + 1 - d <=> j + d - 1 = r_pos[p]) /\ j - 1 > i - d /\ j > i - d
          /\ j + d - 1 # l_pos[p] /\ ~(j < i - d) /\ j # i - d + 1 /\ j # i - d /\ j + d - 1 - 1 = j + d - 2
      BY <1>4, <1>6, <1>12
    <2>2. newHi = HiAt(hi, p, j + d - 1)
      BY <1>3, <1>8, <2>1 DEF HiAt
    <2>3. newLo = LoAt(lo, p, j + d - 1)
      <3>1. PICK u \in Int : u = j + d - 1
        BY <1>6
      <3>2. u - 1 = j + d - 2 /\ u # l_pos[p]
        BY <1>6, <2>1, <3>1
      <3>3. newLo = key[p][u - 1]
        BY <1>3, <1>7, <2>1, <3>2
      <3> QED BY <3>1, <3>2, <3>3 DEF LoAt
    <2> QED BY <2>1, <2>2, <2>3
  <1>13. j < i - d \/ j = i - d \/ j = i - d + 1 \/ j > i - d + 1
    BY <1>4, <1>6, Around
  <1> QED BY <1>9, <1>10, <1>11, <1>12, <1>13

\* What an invariant state is when two halves are to enter the parent.
LEMMA EnteringJob ==
    ASSUME NEW lo, NEW hi, NEW lv, Job(lo, hi, lv), job.do = "insert_internal"
    PROVE  \E p, l, r \in Live, k \in Key, i \in 0..INDEXCOUNT :
          /\ job = [do |-> "insert_internal", page |-> p, pos |-> i, key |-> k,
                    l_child |-> l, r_child |-> r]
          /\ {p, l, r} \subseteq dirty
          /\ l # r /\ r # root
          /\ lv[l] = lv[p] - 1 /\ lv[r] = lv[l]
          /\ hi[l] = k /\ lo[r] = k
          /\ parent_index[r] = 0
          /\ i \in Positions(p)
          /\ \A y \in Live : lv[y] < lv[p] => Outside(k, lo, hi, y)
          /\ \/ /\ parent_index[l] = p /\ parent_pos[l] = i /\ hi[r] = HiAt(hi, p, i)
                /\ size(p) < INDEXCOUNT /\ size(p) > 0
             \/ /\ parent_index[l] = 0 /\ p = root /\ Blank(p) /\ lo[l] = 0 /\ hi[r] = MaxKey + 1
  BY DEF Job, Idle

\* What the halves are to the page that they enter.
LEMMA AboveHalves ==
    ASSUME NEW lo, NEW hi, NEW lv, TypeOK, Good(lo, hi, lv),
           NEW g \in Live, NEW a \in Live, NEW b \in Live, NEW k \in Key, NEW i \in Positions(g),
           job = [do |-> "insert_internal", page |-> g, pos |-> i, key |-> k, l_child |-> a, r_child |-> b],
           lv[a] = lv[g] - 1,
           \/ /\ parent_index[a] = g /\ parent_pos[a] = i /\ hi[b] = HiAt(hi, g, i)
              /\ size(g) < INDEXCOUNT /\ size(g) > 0
           \/ /\ parent_index[a] = 0 /\ g = root /\ Blank(g) /\ lo[a] = 0 /\ hi[b] = MaxKey + 1
    PROVE  /\ size(g) < INDEXCOUNT /\ lv[g] > 0 /\ lv[g] \in Nat /\ lv[a] \in Nat
           /\ lo[a] = LoAt(lo, g, i) /\ hi[b] = HiAt(hi, g, i)
           /\ \/ g \notin Fresh /\ Fresh = {} /\ parent_index[a] = g /\ parent_pos[a] = i
                 /\ kid[g][i] = a /\ size(g) > 0
              \/ Fresh = {g} /\ i = 0 /\ l_pos[g] = 0 /\ r_pos[g] = 0 /\ g = root
  <1>1. job.do = "insert_internal" /\ job.page = g /\ job.l_child = a /\ g # 0
    BY LiveIsPage
  <1>2. lv[g] \in Nat /\ lv[a] \in Nat /\ lv[g] > 0
    BY DEF Good, GhostType
  <1>3. CASE parent_index[a] = g
    <2>1. Fresh = {}
      BY <1>1, <1>3 DEF Fresh
    <2>2. parent_pos[a] = i /\ kid[g][i] = a /\ hi[b] = HiAt(hi, g, i) /\ size(g) < INDEXCOUNT /\ size(g) > 0
      BY <1>1, <1>3 DEF Good, Up
    <2>3. lo[a] = LoAt(lo, g, i)
      BY <1>2, <2>1, <2>2 DEF Good, Down
    <2> QED BY <1>2, <1>3, <2>1, <2>2, <2>3
  <1>4. CASE parent_index[a] # g
    <2>1. Fresh = {g} /\ parent_index[a] = 0 /\ g = root /\ Blank(g) /\ lo[a] = 0 /\ hi[b] = MaxKey + 1
      BY <1>1, <1>4 DEF Fresh
    <2>2. l_pos[g] = 0 /\ r_pos[g] = 0 /\ i = 0 /\ size(g) = 0 /\ INDEXCOUNT > 0
      BY <2>1, Sizes DEF Blank, Positions, size
    <2>3. LoAt(lo, g, i) = 0 /\ HiAt(hi, g, i) = MaxKey + 1
      BY <2>1, <2>2 DEF LoAt, HiAt, Good, RootOK
    <2> QED BY <1>2, <2>1, <2>2, <2>3
  <1> QED BY <1>3, <1>4

\* InsertInternal keeps the invariant.
LEMMA InsertInternalKeeps ==
    ASSUME NEW lo, NEW hi, NEW lv, TypeOK, FreeOK, Good(lo, hi, lv), InsertInternal
    PROVE  TypeOK' /\ FreeOK' /\ Good(lo, hi, lv)'
  <1>1. PICK g, a, b \in Live, k \in Key, i \in 0..INDEXCOUNT :
          /\ job = [do |-> "insert_internal", page |-> g, pos |-> i, key |-> k,
                    l_child |-> a, r_child |-> b]
          /\ {g, a, b} \subseteq dirty
          /\ a # b /\ b # root
          /\ lv[a] = lv[g] - 1 /\ lv[b] = lv[a]
          /\ hi[a] = k /\ lo[b] = k
          /\ parent_index[b] = 0
          /\ i \in Positions(g)
          /\ \A y \in Live : lv[y] < lv[g] => Outside(k, lo, hi, y)
          /\ \/ /\ parent_index[a] = g /\ parent_pos[a] = i /\ hi[b] = HiAt(hi, g, i)
                /\ size(g) < INDEXCOUNT /\ size(g) > 0
             \/ /\ parent_index[a] = 0 /\ g = root /\ Blank(g) /\ lo[a] = 0 /\ hi[b] = MaxKey + 1
    BY EnteringJob DEF InsertInternal, Good
  <1>2. /\ job.do = "insert_internal" /\ job.page = g /\ job.pos = i /\ job.key = k
        /\ job.l_child = a /\ job.r_child = b
    BY <1>1
  <1>3. /\ size(g) < INDEXCOUNT /\ lv[g] > 0 /\ lv[g] \in Nat /\ lv[a] \in Nat
        /\ lo[a] = LoAt(lo, g, i) /\ hi[b] = HiAt(hi, g, i)
        /\ \/ g \notin Fresh /\ Fresh = {} /\ parent_index[a] = g /\ parent_pos[a] = i
              /\ kid[g][i] = a /\ size(g) > 0
           \/ Fresh = {g} /\ i = 0 /\ l_pos[g] = 0 /\ r_pos[g] = 0 /\ g = root
    BY <1>1, AboveHalves
  <1>4. PICK d : d = Gap(g, i)
    OBVIOUS
  <1>5. PICK K : K = KeysWith(g, i, k)
    OBVIOUS
  <1>6. PICK L : L = KidsWith(g, i, a, b)
    OBVIOUS
  <1>7. /\ d \in {0, 1} /\ 0 <= l_pos[g] - d /\ r_pos[g] + 1 - d <= INDEXCOUNT
        /\ K \in [(l_pos[g] - d)..(r_pos[g] - d) -> Key]
        /\ \A j \in (l_pos[g] - d)..(r_pos[g] - d) :
              /\ j < i - d => j + d \in Slots(g) /\ j + d < i /\ K[j] = key[g][j + d]
              /\ j = i - d => K[j] = k
              /\ j > i - d => /\ j + d - 1 \in Slots(g) /\ j + d - 1 >= i
                              /\ K[j] = key[g][j + d - 1]
    BY <1>1, <1>3, <1>4, <1>5, InsertedKeys
  <1>8. /\ DOMAIN L = (l_pos[g] - d)..(r_pos[g] + 1 - d)
        /\ L = [j \in (l_pos[g] - d)..(r_pos[g] + 1 - d) |-> L[j]]
        /\ \A j \in (l_pos[g] - d)..(r_pos[g] + 1 - d) :
              /\ j < i - d => j + d \in Positions(g) /\ j + d < i /\ L[j] = kid[g][j + d]
              /\ j = i - d => L[j] = a
              /\ j = i - d + 1 => L[j] = b
              /\ j > i - d + 1 => /\ j + d - 1 \in Positions(g) /\ j + d - 1 > i
                                  /\ L[j] = kid[g][j + d - 1]
    BY <1>1, <1>3, <1>4, <1>6, InsertedKids
  <1>9. PICK C : C = IF d = 0 THEN Kids(g, (i + 1)..r_pos[g]) ELSE Kids(g, l_pos[g]..(i - 1))
    OBVIOUS
  <1>10. /\ g \in Page /\ a \in Page /\ b \in Page /\ Live \subseteq Page /\ 0 \notin Live
         /\ g # a /\ g # b /\ a # b /\ root \in Live /\ root # a /\ root # b /\ parent_index[b] = 0
         /\ parent_index[root] = 0
    <2>1. Live \subseteq Page /\ 0 \notin Live
      BY LiveIsPage
    <2>2. g # a /\ g # b
      BY <1>1, <1>3
    <2>3. root \in Live /\ parent_index[root] = 0
      BY DEF Good, RootOK
    <2>4. root # a
      BY <1>1, <1>3, <2>1, <2>2, <2>3
    <2> QED BY <1>1, <2>1, <2>2, <2>3, <2>4
  <1>11. /\ l_pos[g] \in Int /\ r_pos[g] \in Int /\ i \in Int /\ d \in Int /\ l_pos[g] <= i /\ i <= r_pos[g]
         /\ INDEXCOUNT \in Int /\ r_pos[g] <= INDEXCOUNT /\ 0 <= l_pos[g]
         /\ \A j \in Slots(g) : key[g][j] \in Int
    BY <1>1, <1>7, LiveTyped, Sizes DEF Positions
  <1>12. \A u \in Positions(g) : u # i => g \notin Fresh /\ Fresh = {}
    BY <1>3 DEF Positions
  <1>13. \A x \in Live \ {a, b} : parent_index[x] = g => /\ parent_pos[x] \in Positions(g) /\ parent_pos[x] # i
                                                         /\ kid[g][parent_pos[x]] = x
    BY <1>3, <1>10 DEF Good, Up
  <1>14. /\ C \subseteq Live \ {a, b}
         /\ \A x \in Live \ {a, b} : x \in C <=> /\ parent_index[x] = g
                                                 /\ \/ d = 0 /\ parent_pos[x] > i
                                                    \/ d = 1 /\ parent_pos[x] < i
    <2>1. CASE Fresh = {g}
      <3>1. d = 0 /\ (i + 1)..r_pos[g] = {}
        BY <1>3, <1>4, <1>10, <2>1 DEF Gap
      <3>2. C = {}
        BY <1>9, <3>1 DEF Kids
      <3>3. \A x \in Live : parent_index[x] # g
        BY <1>10, <2>1 DEF Good, Up
      <3> QED BY <3>2, <3>3
    <2>2. CASE g \notin Fresh
      <3>1. PICK S : S = IF d = 0 THEN (i + 1)..r_pos[g] ELSE l_pos[g]..(i - 1)
        OBVIOUS
      <3>2. S \subseteq Positions(g) /\ i \notin S /\ C = Kids(g, S)
        BY <1>9, <1>11, <3>1 DEF Positions
      <3>3. /\ C \subseteq Live
            /\ \A x \in Live : x \in C <=> parent_index[x] = g /\ parent_pos[x] \in S
        BY <2>2, <3>2, KidsAre
      <3>4. a \notin C /\ b \notin C
        BY <1>3, <1>10, <2>2, <3>2, <3>3
      <3>5. \A u \in Positions(g) : u \in S <=> (d = 0 /\ u > i) \/ (d = 1 /\ u < i)
        BY <1>7, <1>11, <3>1 DEF Positions
      <3> QED BY <1>13, <3>3, <3>4, <3>5
    <2> QED BY <1>3, <2>1, <2>2
  <1>15. /\ l_pos' = [l_pos EXCEPT ![g] = l_pos[g] - d]
         /\ r_pos' = [r_pos EXCEPT ![g] = r_pos[g] + 1 - d]
         /\ key' = [key EXCEPT ![g] = K]
         /\ kid' = [kid EXCEPT ![g] = L]
         /\ parent_index' = [parent_index EXCEPT ![a] = g, ![b] = g]
         /\ parent_pos' = [x \in Page |->
                 IF x = a THEN i - d ELSE IF x = b THEN i - d + 1
                 ELSE IF x \in C THEN parent_pos[x] + 1 - 2 * d ELSE parent_pos[x]]
         /\ dirty' = dirty \cup C
         /\ root' = root /\ max' = max /\ free' = free /\ answer' = answer /\ Live' = Live
    BY <1>2, <1>4, <1>5, <1>6, <1>9, <1>10 DEF InsertInternal, TypeOK, pages, Live, Free
  <1>16. job' = IF size(g) + 1 = INDEXCOUNT
                THEN [do |-> "split", page |-> g, parent |-> parent_index[g]] ELSE Idle
    BY <1>2 DEF InsertInternal, SplitIfFull
  <1>17. /\ \A x \in Page \ {g} : /\ l_pos'[x] = l_pos[x] /\ r_pos'[x] = r_pos[x]
                                  /\ key'[x] = key[x] /\ kid'[x] = kid[x]
         /\ l_pos'[g] = l_pos[g] - d /\ r_pos'[g] = r_pos[g] + 1 - d /\ key'[g] = K /\ kid'[g] = L
         /\ DOMAIN key' = Page /\ DOMAIN kid' = Page
    BY <1>10, <1>15 DEF TypeOK
  <1>18. /\ \A x \in Live \ {a, b} : parent_index'[x] = parent_index[x]
         /\ parent_index'[a] = g /\ parent_index'[b] = g
         /\ parent_pos'[a] = i - d /\ parent_pos'[b] = i - d + 1
         /\ parent_index'[g] = parent_index[g]
    BY <1>10, <1>15 DEF TypeOK
  <1>19. \A x \in Live \ {a, b} :
            /\ parent_index[x] # g => parent_pos'[x] = parent_pos[x]
            /\ parent_index[x] = g /\ parent_pos[x] < i => parent_pos'[x] = parent_pos[x] - d
            /\ parent_index[x] = g /\ parent_pos[x] > i => parent_pos'[x] = parent_pos[x] + 1 - d
    <2>1. SUFFICES ASSUME NEW x \in Live \ {a, b}
                   PROVE  /\ parent_index[x] # g => parent_pos'[x] = parent_pos[x]
                          /\ parent_index[x] = g /\ parent_pos[x] < i => parent_pos'[x] = parent_pos[x] - d
                          /\ parent_index[x] = g /\ parent_pos[x] > i => parent_pos'[x] = parent_pos[x] + 1 - d
      OBVIOUS
    <2>2. parent_pos'[x] = IF x \in C THEN parent_pos[x] + 1 - 2 * d ELSE parent_pos[x]
      BY <1>10, <1>15
    <2>3. PICK u \in Int : u = parent_pos[x]
      BY <1>10, SeatTyped
    <2>4. CASE parent_index[x] # g
      BY <1>14, <2>2, <2>4
    <2>5. CASE parent_index[x] = g /\ u < i
      <3>1. x \in C <=> d = 1
        BY <1>11, <1>14, <2>3, <2>5
      <3>2. (d = 1 => u + 1 - 2 * d = u - d) /\ (d = 0 => u = u - d) /\ ~(u > i)
        BY <1>11, <2>3, <2>5
      <3> QED BY <1>7, <2>2, <2>3, <2>5, <3>1, <3>2
    <2>6. CASE parent_index[x] = g /\ u > i
      <3>1. x \in C <=> d = 0
        BY <1>11, <1>14, <2>3, <2>6
      <3>2. (d = 0 => u + 1 - 2 * d = u + 1 - d) /\ (d = 1 => u = u + 1 - d) /\ ~(u < i)
        BY <1>11, <2>3, <2>6
      <3> QED BY <1>7, <2>2, <2>3, <2>6, <3>1, <3>2
    <2> QED BY <1>11, <2>3, <2>4, <2>5, <2>6
  <1>20. /\ \A x \in Live \ {g} : /\ Slots(x)' = Slots(x) /\ Positions(x)' = Positions(x)
                                  /\ size(x)' = size(x)
         /\ Slots(g)' = (l_pos[g] - d)..(r_pos[g] - d)
         /\ Positions(g)' = (l_pos[g] - d)..(r_pos[g] + 1 - d)
         /\ size(g)' = size(g) + 1
    <2>1. /\ r_pos[g] + 1 - d - 1 = r_pos[g] - d
          /\ r_pos[g] + 1 - d - (l_pos[g] - d) = r_pos[g] - l_pos[g] + 1
      BY <1>11
    <2>2. \A x \in Live \ {g} : l_pos'[x] = l_pos[x] /\ r_pos'[x] = r_pos[x]
      BY <1>10, <1>17
    <2>3. PICK u, v \in Int : u = l_pos[g] - d /\ v = r_pos[g] + 1 - d
      BY <1>11
    <2>4. l_pos'[g] = u /\ r_pos'[g] = v /\ v - 1 = r_pos[g] - d /\ v - u = r_pos[g] - l_pos[g] + 1
      BY <1>11, <1>17, <2>3
    <2>5. Slots(g)' = (l_pos[g] - d)..(r_pos[g] - d) /\ Positions(g)' = (l_pos[g] - d)..(r_pos[g] + 1 - d)
      BY <2>4, <2>3 DEF Slots, Positions
    <2>6. size(g)' = size(g) + 1
      BY <2>4 DEF size
    <2>7. \A x \in Live \ {g} : Slots(x)' = Slots(x) /\ Positions(x)' = Positions(x) /\ size(x)' = size(x)
      BY <2>2 DEF Slots, Positions, size
    <2> QED BY <2>5, <2>6, <2>7
  <1>21. Fresh' = {} /\ Half = {a} /\ Half' = {}
    <2>1. job'.do # "insert_internal" /\ (job'.do = "split" => job'.parent = parent_index[g] /\ job'.page = g)
      BY <1>16 DEF Idle
    <2> QED BY <1>2, <1>18, <2>1 DEF Fresh, Half
  <1>22. TypeOK'
    <2>1. /\ l_pos' \in [Page -> 0..INDEXCOUNT] /\ r_pos' \in [Page -> 0..INDEXCOUNT]
      <3>1. l_pos[g] - d \in 0..INDEXCOUNT /\ r_pos[g] + 1 - d \in 0..INDEXCOUNT
        BY <1>7, <1>11
      <3> QED BY <1>15, <3>1 DEF TypeOK
    <2>2. ASSUME NEW x \in Page
          PROVE  /\ l_pos'[x] <= r_pos'[x]
                 /\ key'[x] \in [l_pos'[x]..(r_pos'[x] - 1) -> Key]
                 /\ kid'[x] \in [l_pos'[x]..r_pos'[x] -> 0..max]
      <3>1. CASE x # g
        BY <1>17, <3>1 DEF TypeOK
      <3>2. CASE x = g
        <4>1. l_pos'[g] <= r_pos'[g] /\ r_pos'[g] - 1 = r_pos[g] - d
          BY <1>11, <1>17
        <4>2. key'[g] \in [l_pos'[g]..(r_pos'[g] - 1) -> Key]
          BY <1>7, <1>17, <4>1
        <4>3. ASSUME NEW j \in (l_pos[g] - d)..(r_pos[g] + 1 - d)
              PROVE  L[j] \in 0..max
          <5>1. a \in 0..max /\ b \in 0..max /\ \A u \in Positions(g) : kid[g][u] \in 0..max
            <6>1. \A y \in Live : y \in 1..max
              BY DEF Live
            <6>2. max \in Int
              BY PageAssumption DEF TypeOK, Page
            <6>3. \A u \in Positions(g) : kid[g][u] \in 0..max
              BY LiveTyped
            <6> QED BY <6>1, <6>2, <6>3
          <5>2. j < i - d \/ j = i - d \/ j = i - d + 1 \/ j > i - d + 1
            BY <1>11
          <5> QED BY <1>8, <5>1, <5>2
        <4>4. L \in [(l_pos[g] - d)..(r_pos[g] + 1 - d) -> 0..max]
          BY <1>8, <4>3
        <4> QED BY <1>17, <3>2, <4>1, <4>2, <4>4
      <3> QED BY <3>1, <3>2
    <2>3. parent_index' \in [Page -> 0..max]
      <3>1. g \in 0..max
        BY PageAssumption DEF Live, TypeOK, Page
      <3> QED BY <1>15, <3>1 DEF TypeOK
    <2>4. parent_pos' \in [Page -> 0..INDEXCOUNT]
      <3>1. i - d \in 0..INDEXCOUNT /\ i - d + 1 \in 0..INDEXCOUNT
        BY <1>7, <1>11
      <3>2. \A x \in Page : parent_pos[x] \in 0..INDEXCOUNT
        BY DEF TypeOK
      <3>3. ASSUME NEW x \in C PROVE parent_pos[x] + 1 - 2 * d \in 0..INDEXCOUNT
        <4>1. /\ parent_pos[x] \in l_pos[g]..r_pos[g]
              /\ \/ d = 0 /\ parent_pos[x] > i
                 \/ d = 1 /\ parent_pos[x] < i
          BY <1>13, <1>14, <3>3 DEF Positions
        <4>2. PICK u \in Int : u = parent_pos[x] /\ l_pos[g] <= u /\ u <= r_pos[g]
          BY <1>11, <4>1
        <4> QED BY <1>7, <1>11, <4>1, <4>2
      <3> QED BY <1>15, <3>1, <3>2, <3>3
    <2>5. dirty' \subseteq Page /\ root' \in Page /\ max' \in Page /\ free' \in Seq(1..max')
      BY <1>10, <1>14, <1>15 DEF TypeOK
    <2> QED BY <1>15, <1>17, <2>1, <2>2, <2>3, <2>4, <2>5 DEF TypeOK
  <1>23. FreeOK'
    BY <1>15 DEF FreeOK
  <1>24. GhostType(lo, hi, lv)'
    BY <1>15 DEF Good, GhostType
  <1>25. /\ \A x \in Live : /\ lo[x] \in Int /\ hi[x] \in Int /\ lv[x] \in Nat /\ lo[x] < hi[x]
         /\ k \in Int
         /\ \A j \in Slots(g) : lo[g] < key[g][j] /\ key[g][j] < hi[g]
         /\ \A m, n \in Slots(g) : m < n => key[g][m] < key[g][n]
    BY KeyAssumption DEF Good, GhostType, Keys, Key
  <1>26. /\ lo[g] < k /\ k < hi[g]
         /\ \A j \in Slots(g) : j < i => key[g][j] < k
         /\ \A j \in Slots(g) : j >= i => k < key[g][j]
    <2>1. lo[a] < k /\ k < hi[b]
      BY <1>1, <1>25
    <2>2. \A j \in Slots(g) : j < i => key[g][j] <= LoAt(lo, g, i)
      <3>1. SUFFICES ASSUME NEW j \in Slots(g), j < i PROVE key[g][j] <= LoAt(lo, g, i)
        OBVIOUS
      <3>2. PICK u \in Int : u = i - 1
        BY <1>11
      <3>3. u \in Slots(g) /\ i # l_pos[g] /\ (j = u \/ j < u)
        BY <1>11, <3>1, <3>2 DEF Slots
      <3>4. LoAt(lo, g, i) = key[g][u]
        BY <3>2, <3>3 DEF LoAt
      <3>5. j = u \/ key[g][j] < key[g][u]
        BY <1>25, <3>1, <3>3
      <3>6. key[g][j] \in Int /\ key[g][u] \in Int
        BY <1>11, <3>1, <3>3
      <3> QED BY <3>4, <3>5, <3>6
    <2>3. \A j \in Slots(g) : j >= i => HiAt(hi, g, i) <= key[g][j]
      <3>1. SUFFICES ASSUME NEW j \in Slots(g), j >= i PROVE HiAt(hi, g, i) <= key[g][j]
        OBVIOUS
      <3>2. i \in Slots(g) /\ i # r_pos[g] /\ (j = i \/ i < j)
        BY <1>11, <3>1 DEF Slots
      <3>3. HiAt(hi, g, i) = key[g][i]
        BY <3>2 DEF HiAt
      <3>4. j = i \/ key[g][i] < key[g][j]
        BY <1>25, <3>1, <3>2
      <3>5. key[g][i] \in Int /\ key[g][j] \in Int
        BY <1>11, <3>2
      <3>6. key[g][i] <= key[g][j]
        BY <3>4, <3>5
      <3> QED BY <3>3, <3>6
    <2>4. lo[g] <= LoAt(lo, g, i)
      <3>1. CASE i = l_pos[g]
        BY <1>25, <3>1 DEF LoAt
      <3>2. CASE i # l_pos[g]
        <4>1. PICK u \in Int : u = i - 1
          BY <1>11
        <4>2. u \in Slots(g)
          BY <1>11, <3>2, <4>1 DEF Slots
        <4> QED BY <1>11, <1>25, <3>2, <4>1, <4>2 DEF LoAt
      <3> QED BY <3>1, <3>2
    <2>5. HiAt(hi, g, i) <= hi[g]
      <3>1. CASE i = r_pos[g]
        BY <1>25, <3>1 DEF HiAt
      <3>2. CASE i # r_pos[g]
        <4>1. i \in Slots(g)
          BY <1>11, <3>2 DEF Slots
        <4> QED BY <1>11, <1>25, <3>2, <4>1 DEF HiAt
      <3> QED BY <3>1, <3>2
    <2>6. lo[a] \in Int /\ hi[b] \in Int /\ lo[g] \in Int /\ hi[g] \in Int
      BY <1>25
    <2> QED BY <1>3, <1>11, <1>25, <2>1, <2>2, <2>3, <2>4, <2>5, <2>6
  <1>27. ASSUME NEW j \in (l_pos[g] - d)..(r_pos[g] - d)
         PROVE  K[j] = k \/ \E u \in Slots(g) : K[j] = key[g][u]
    <2>1. j < i - d \/ j = i - d \/ j > i - d
      BY <1>11
    <2> QED BY <1>7, <2>1
  <1>28. Keys(lo, hi)'
    <2>1. ASSUME NEW x \in Live
          PROVE  /\ lo[x] < hi[x]
                 /\ \A j \in Slots(x)' : lo[x] < key'[x][j] /\ key'[x][j] < hi[x]
                 /\ \A m, n \in Slots(x)' : m < n => key'[x][m] < key'[x][n]
      <3>1. CASE x # g
        BY <1>10, <1>17, <1>20, <3>1 DEF Good, Keys
      <3>2. CASE x = g
        <4>1. \A j \in (l_pos[g] - d)..(r_pos[g] - d) : lo[g] < K[j] /\ K[j] < hi[g]
          BY <1>25, <1>26, <1>27
        <4>2. \A m, n \in (l_pos[g] - d)..(r_pos[g] - d) : m < n => K[m] < K[n]
          BY <1>1, <1>3, <1>4, <1>5, <1>25, <1>26, InsertedInOrder
        <4> QED BY <1>17, <1>20, <1>25, <3>2, <4>1, <4>2
      <3> QED BY <3>1, <3>2
    <2> QED BY <1>15, <2>1 DEF Keys
  <1>29. \A j \in (l_pos[g] - d)..(r_pos[g] + 1 - d) : \E newLo, newHi :
               /\ newLo = IF j = l_pos[g] - d THEN lo[g] ELSE K[j - 1]
               /\ newHi = IF j = r_pos[g] + 1 - d THEN hi[g] ELSE K[j]
               /\ j < i - d => newLo = LoAt(lo, g, j + d) /\ newHi = HiAt(hi, g, j + d)
               /\ j = i - d => newLo = LoAt(lo, g, i) /\ newHi = k
               /\ j = i - d + 1 => newLo = k /\ newHi = HiAt(hi, g, i)
               /\ j > i - d + 1 => newLo = LoAt(lo, g, j + d - 1) /\ newHi = HiAt(hi, g, j + d - 1)
    <2>1. PICK d2, K2 : d2 = Gap(g, i) /\ K2 = KeysWith(g, i, k) /\ BoundsWith(lo, hi, g, i, k, d2, K2)
      BY <1>1, <1>3, InsertedBounds
    <2>2. d2 = d /\ K2 = K
      BY <1>4, <1>5, <2>1
    <2>3. BoundsWith(lo, hi, g, i, k, d, K)
      BY <2>1, <2>2
    <2> QED BY <2>3 DEF BoundsWith
  <1>30. ASSUME NEW u \in Positions(g), u # i
         PROVE  \E c \in Live \ {a, b} : /\ c = kid[g][u] /\ lv[c] = lv[g] - 1
                                         /\ parent_index[c] = g /\ parent_pos[c] = u
                                         /\ lo[c] = LoAt(lo, g, u) /\ hi[c] = HiAt(hi, g, u)
    <2>1. g \notin Fresh /\ Fresh = {}
      BY <1>12, <1>30
    <2>2. /\ kid[g][u] \in Live /\ lv[kid[g][u]] = lv[g] - 1
          /\ parent_index[kid[g][u]] = g /\ parent_pos[kid[g][u]] = u
          /\ lo[kid[g][u]] = LoAt(lo, g, u)
          /\ kid[g][u] \notin Half => hi[kid[g][u]] = HiAt(hi, g, u)
      BY <1>3, <1>30, <2>1 DEF Good, Down
    <2>3. kid[g][u] # a /\ kid[g][u] # b
      BY <1>3, <1>10, <1>30, <2>1, <2>2
    <2> QED BY <1>21, <2>2, <2>3
  <1>31. Down(lo, hi, lv)'
    <2>1. ASSUME NEW x \in Live, x # g, NEW j \in Positions(x)'
          PROVE  /\ lv[x] = 0 => kid'[x][j] = 0
                 /\ lv[x] > 0 => /\ kid'[x][j] \in Live /\ lv[kid'[x][j]] = lv[x] - 1
                                 /\ parent_index'[kid'[x][j]] = x /\ parent_pos'[kid'[x][j]] = j
                                 /\ lo[kid'[x][j]] = LoAt(lo, x, j)'
                                 /\ hi[kid'[x][j]] = HiAt(hi, x, j)'
      <3>1. /\ x \in Page \ {g} /\ j \in Positions(x) /\ kid'[x] = kid[x] /\ x \notin Fresh
            /\ LoAt(lo, x, j)' = LoAt(lo, x, j) /\ HiAt(hi, x, j)' = HiAt(hi, x, j)
        BY <1>3, <1>10, <1>17, <1>20, <2>1 DEF LoAt, HiAt
      <3>2. CASE lv[x] = 0
        BY <2>1, <3>1, <3>2 DEF Good, Down
      <3>3. CASE lv[x] > 0
        <4>1. PICK c \in Live : c = kid[x][j]
          BY <2>1, <3>1, <3>3 DEF Good, Down
        <4>2. /\ lv[c] = lv[x] - 1 /\ parent_index[c] = x /\ parent_pos[c] = j
              /\ lo[c] = LoAt(lo, x, j)
          BY <2>1, <3>1, <3>3, <4>1 DEF Good, Down
        <4>3. c # a /\ c # b
          BY <1>3, <1>10, <2>1, <4>2, <1>1
        <4>4. hi[c] = HiAt(hi, x, j)
          BY <1>21, <2>1, <3>1, <3>3, <4>1, <4>3 DEF Good, Down
        <4>5. parent_index'[c] = x /\ parent_pos'[c] = j
          BY <1>18, <1>19, <2>1, <4>2, <4>3
        <4> QED BY <3>1, <3>3, <4>1, <4>2, <4>4, <4>5
      <3> QED BY <1>25, <3>2, <3>3
    <2>2. ASSUME NEW j \in (l_pos[g] - d)..(r_pos[g] + 1 - d)
          PROVE  /\ kid'[g][j] \in Live /\ lv[kid'[g][j]] = lv[g] - 1
                 /\ parent_index'[kid'[g][j]] = g /\ parent_pos'[kid'[g][j]] = j
                 /\ lo[kid'[g][j]] = LoAt(lo, g, j)'
                 /\ hi[kid'[g][j]] = HiAt(hi, g, j)'
      <3>1. PICK newLo, newHi :
               /\ newLo = IF j = l_pos[g] - d THEN lo[g] ELSE K[j - 1]
               /\ newHi = IF j = r_pos[g] + 1 - d THEN hi[g] ELSE K[j]
               /\ j < i - d => newLo = LoAt(lo, g, j + d) /\ newHi = HiAt(hi, g, j + d)
               /\ j = i - d => newLo = LoAt(lo, g, i) /\ newHi = k
               /\ j = i - d + 1 => newLo = k /\ newHi = HiAt(hi, g, i)
               /\ j > i - d + 1 => newLo = LoAt(lo, g, j + d - 1) /\ newHi = HiAt(hi, g, j + d - 1)
        BY <1>29
      <3>2. LoAt(lo, g, j)' = newLo /\ HiAt(hi, g, j)' = newHi
        BY <1>17, <3>1 DEF LoAt, HiAt
      <3>3. j \in Int
        BY <1>11
      <3>4. CASE j < i - d
        <4>1. PICK u \in Int : u = j + d
          BY <1>11, <3>3
        <4>2. u \in Positions(g) /\ u < i /\ kid'[g][j] = kid[g][u] /\ u - d = j
          <5>1. u \in Positions(g) /\ u < i /\ L[j] = kid[g][u]
            BY <1>8, <3>4, <4>1
          <5>2. u - d = j
            BY <1>11, <3>3, <4>1
          <5> QED BY <1>17, <5>1, <5>2
        <4>3. PICK c \in Live \ {a, b} : /\ c = kid[g][u] /\ lv[c] = lv[g] - 1
                                         /\ parent_index[c] = g /\ parent_pos[c] = u
                                         /\ lo[c] = LoAt(lo, g, u) /\ hi[c] = HiAt(hi, g, u)
          BY <1>11, <1>30, <4>1, <4>2
        <4>4. parent_index'[c] = g /\ parent_pos'[c] = j
          BY <1>18, <1>19, <4>2, <4>3
        <4>5. LoAt(lo, g, j)' = LoAt(lo, g, u) /\ HiAt(hi, g, j)' = HiAt(hi, g, u)
          BY <3>2, <3>1, <3>4, <4>1
        <4> QED BY <4>2, <4>3, <4>4, <4>5
      <3>5. CASE j = i - d
        <4>1. kid'[g][j] = a
          BY <1>8, <1>17, <3>5
        <4>2. LoAt(lo, g, j)' = lo[a] /\ HiAt(hi, g, j)' = hi[a]
          BY <1>1, <1>3, <3>2, <3>1, <3>5
        <4> QED BY <1>1, <1>18, <3>5, <4>1, <4>2
      <3>6. CASE j = i - d + 1
        <4>1. kid'[g][j] = b
          BY <1>8, <1>17, <3>6
        <4>2. LoAt(lo, g, j)' = lo[b] /\ HiAt(hi, g, j)' = hi[b]
          BY <1>1, <1>3, <3>2, <3>1, <3>6
        <4> QED BY <1>1, <1>18, <3>6, <4>1, <4>2
      <3>7. CASE j > i - d + 1
        <4>1. PICK u \in Int : u = j + d - 1
          BY <1>11, <3>3
        <4>2. u \in Positions(g) /\ u > i /\ kid'[g][j] = kid[g][u] /\ u + 1 - d = j
          <5>1. u \in Positions(g) /\ u > i /\ L[j] = kid[g][u]
            BY <1>8, <3>7, <4>1
          <5>2. u + 1 - d = j
            BY <1>11, <3>3, <4>1
          <5> QED BY <1>17, <5>1, <5>2
        <4>3. PICK c \in Live \ {a, b} : /\ c = kid[g][u] /\ lv[c] = lv[g] - 1
                                         /\ parent_index[c] = g /\ parent_pos[c] = u
                                         /\ lo[c] = LoAt(lo, g, u) /\ hi[c] = HiAt(hi, g, u)
          BY <1>11, <1>30, <4>1, <4>2
        <4>4. parent_index'[c] = g /\ parent_pos'[c] = j
          BY <1>18, <1>19, <4>2, <4>3
        <4>5. LoAt(lo, g, j)' = LoAt(lo, g, u) /\ HiAt(hi, g, j)' = HiAt(hi, g, u)
          BY <3>2, <3>1, <3>7, <4>1
        <4> QED BY <4>2, <4>3, <4>4, <4>5
      <3>8. j < i - d \/ j = i - d \/ j = i - d + 1 \/ j > i - d + 1
        BY <1>11, <3>3, Around
      <3> QED BY <3>4, <3>5, <3>6, <3>7, <3>8
    <2>3. ASSUME NEW x \in Live, NEW j \in Positions(x)'
          PROVE  /\ lv[x] = 0 => kid'[x][j] = 0
                 /\ lv[x] > 0 => /\ kid'[x][j] \in Live /\ lv[kid'[x][j]] = lv[x] - 1
                                 /\ parent_index'[kid'[x][j]] = x /\ parent_pos'[kid'[x][j]] = j
                                 /\ lo[kid'[x][j]] = LoAt(lo, x, j)'
                                 /\ hi[kid'[x][j]] = HiAt(hi, x, j)'
      <3>1. CASE x # g
        BY <2>1, <2>3, <3>1
      <3>2. CASE x = g
        <4>1. j \in (l_pos[g] - d)..(r_pos[g] + 1 - d) /\ lv[g] # 0
          BY <1>3, <1>20, <2>3, <3>2
        <4> QED BY <2>2, <3>2, <4>1
      <3> QED BY <3>1, <3>2
    <2>4. Live' = Live /\ Fresh' = {}
      BY <1>15, <1>21
    <2> QED BY <2>3, <2>4 DEF Down
  <1>32. Up'
    <2>1. ASSUME NEW x \in Live
          PROVE  /\ parent_index'[x] # 0 => /\ parent_index'[x] \in Live
                                            /\ parent_pos'[x] \in Positions(parent_index[x])'
                                            /\ kid'[parent_index'[x]][parent_pos'[x]] = x
                 /\ parent_index'[x] = 0 => parent_pos'[x] = 0 /\ x = root
      <3>1. CASE x = a
        <4>1. i - d \in (l_pos[g] - d)..(r_pos[g] + 1 - d)
          BY <1>11
        <4>2. kid'[g][i - d] = a /\ i - d \in Positions(g)'
          BY <1>8, <1>17, <1>20, <4>1
        <4> QED BY <1>10, <1>18, <3>1, <4>2
      <3>2. CASE x = b
        <4>1. i - d + 1 \in (l_pos[g] - d)..(r_pos[g] + 1 - d)
          BY <1>11
        <4>2. kid'[g][i - d + 1] = b /\ i - d + 1 \in Positions(g)'
          BY <1>8, <1>17, <1>20, <4>1
        <4> QED BY <1>10, <1>18, <3>2, <4>2
      <3>3. CASE x \notin {a, b} /\ parent_index[x] = g
        <4>1. PICK u \in Int : /\ u = parent_pos[x] /\ u \in Positions(g) /\ u # i
                               /\ l_pos[g] <= u /\ u <= r_pos[g] /\ kid[g][u] = x
          BY <1>11, <1>13, <3>3 DEF Positions
        <4>2. CASE u < i
          <5>1. PICK j \in Int : j = u - d /\ j + d = u
            BY <1>11
          <5>2. j \in (l_pos[g] - d)..(r_pos[g] + 1 - d) /\ j < i - d
            BY <1>11, <4>1, <4>2, <5>1
          <5>3. kid'[g][j] = x
            BY <1>8, <1>17, <4>1, <5>1, <5>2
          <5>4. parent_pos'[x] = j /\ parent_index'[x] = g
            BY <1>18, <1>19, <3>3, <4>1, <4>2, <5>1
          <5> QED BY <1>10, <1>20, <5>2, <5>3, <5>4
        <4>3. CASE u > i
          <5>1. PICK j \in Int : j = u + 1 - d /\ j + d - 1 = u
            BY <1>11
          <5>2. j \in (l_pos[g] - d)..(r_pos[g] + 1 - d) /\ j > i - d + 1
            BY <1>11, <4>1, <4>3, <5>1
          <5>3. kid'[g][j] = x
            BY <1>8, <1>17, <4>1, <5>1, <5>2
          <5>4. parent_pos'[x] = j /\ parent_index'[x] = g
            BY <1>18, <1>19, <3>3, <4>1, <4>3, <5>1
          <5> QED BY <1>10, <1>20, <5>2, <5>3, <5>4
        <4> QED BY <1>11, <4>1, <4>2, <4>3
      <3>4. CASE x \notin {a, b} /\ parent_index[x] # g /\ parent_index[x] # 0
        <4>1. PICK y \in Live : /\ y = parent_index[x] /\ parent_pos[x] \in Positions(y)
                                /\ kid[y][parent_pos[x]] = x /\ y # g
          BY <3>4 DEF Good, Up
        <4>2. Positions(y)' = Positions(y) /\ kid'[y] = kid[y]
          BY <1>10, <1>17, <1>20, <4>1
        <4>3. parent_index'[x] = y /\ parent_pos'[x] = parent_pos[x]
          BY <1>18, <1>19, <3>4, <4>1
        <4> QED BY <1>10, <4>1, <4>2, <4>3
      <3>5. CASE x \notin {a, b} /\ parent_index[x] = 0
        <4>1. parent_pos[x] = 0 /\ x = root
          BY <1>2, <3>5 DEF Good, Up
        <4>2. parent_index'[x] = 0 /\ parent_pos'[x] = 0
          BY <1>10, <1>18, <1>19, <3>5, <4>1
        <4> QED BY <4>1, <4>2
      <3> QED BY <3>1, <3>2, <3>3, <3>4, <3>5
    <2>2. Live' = Live /\ Fresh' = {} /\ root' = root
      BY <1>15, <1>21
    <2> QED BY <2>1, <2>2 DEF Up
  <1>33. RootOK(lo, hi, lv)'
    <2>1. parent_index'[root] = 0
      BY <1>10, <1>18
    <2> QED BY <1>15, <2>1 DEF Good, RootOK
  <1>34. Size(lv)'
    <2>1. ASSUME NEW x \in Live
          PROVE  /\ size(x)' = INDEXCOUNT => job'.do = "split" /\ x = job'.page
                 /\ x # root => size(x)' >= INDEXMINR \/ (job'.do = "shrink" /\ x = job'.page)
                 /\ lv[x] > 0 => size(x)' > 0 \/ (job'.do = "shrink" /\ x = job'.page)
      <3>1. CASE x # g
        BY <1>2, <1>3, <1>20, <3>1 DEF Good, Size
      <3>2. CASE x = g
        <4>1. size(g)' = INDEXCOUNT => job'.do = "split" /\ g = job'.page
          BY <1>16, <1>20
        <4>2. size(g) \in Int /\ size(g) >= 0
          BY <1>11 DEF size
        <4>3. g # root => size(g) >= INDEXMINR
          BY <1>2, <1>3 DEF Good, Size
        <4> QED BY <1>20, <3>2, <4>1, <4>2, <4>3, Sizes
      <3> QED BY <3>1, <3>2
    <2> QED BY <1>15, <2>1 DEF Size
  <1>35. Apart(lo, hi, lv)'
    <2>1. ASSUME NEW x \in Live, NEW y \in Live, x # y, lv[x] > lv[y]
          PROVE  \A j \in Slots(x)' : Outside(key'[x][j], lo, hi, y)
      <3>1. CASE x # g
        BY <1>10, <1>17, <1>20, <2>1, <3>1 DEF Good, Apart
      <3>2. CASE x = g
        <4>1. Outside(k, lo, hi, y)
          BY <1>1, <1>25, <2>1, <3>2
        <4>2. \A u \in Slots(g) : Outside(key[g][u], lo, hi, y)
          BY <2>1, <3>2 DEF Good, Apart
        <4> QED BY <1>17, <1>20, <1>27, <3>2, <4>1, <4>2
      <3> QED BY <3>1, <3>2
    <2> QED BY <1>15, <2>1 DEF Good, Apart, Outside
  <1>36. Job(lo, hi, lv)'
    <2>1. CASE size(g) + 1 = INDEXCOUNT
      <3>1. PICK q \in Live \cup {0} : q = parent_index[g]
        BY DEF Good, Up
      <3>2. /\ job' = [do |-> "split", page |-> g, parent |-> q]
            /\ g \in dirty' /\ size(g)' = INDEXCOUNT /\ q = parent_index'[g]
        BY <1>1, <1>15, <1>16, <1>18, <1>20, <2>1, <3>1
      <3> QED BY <1>15, <3>2 DEF Job
    <2>2. CASE size(g) + 1 # INDEXCOUNT
      BY <1>16, <2>2 DEF Job, Idle
    <2> QED BY <2>1, <2>2
  <1> QED BY <1>22, <1>23, <1>24, <1>28, <1>31, <1>32, <1>33, <1>34, <1>35, <1>36 DEF Good

-------------------------------------------------------------------------------
(* A page that is too small: what holds page by page.                      *)

\* Keys, Down, Up and Size at page x, when no page is split.
KeysAt(x, lo, hi) ==
    /\ lo[x] < hi[x]
    /\ \A i \in Slots(x) : lo[x] < key[x][i] /\ key[x][i] < hi[x]
    /\ \A i, j \in Slots(x) : i < j => key[x][i] < key[x][j]

DownAt(x, lo, hi, lv) ==
    \A i \in Positions(x) :
        /\ lv[x] = 0 => kid[x][i] = 0
        /\ lv[x] > 0 => /\ kid[x][i] \in Live /\ lv[kid[x][i]] = lv[x] - 1
                        /\ parent_index[kid[x][i]] = x /\ parent_pos[kid[x][i]] = i
                        /\ lo[kid[x][i]] = LoAt(lo, x, i)
                        /\ hi[kid[x][i]] = HiAt(hi, x, i)

UpAt(x) ==
    /\ parent_index[x] # 0 =>
          /\ parent_index[x] \in Live
          /\ parent_pos[x] \in Positions(parent_index[x])
          /\ kid[parent_index[x]][parent_pos[x]] = x
    /\ parent_index[x] = 0 => parent_pos[x] = 0 /\ x = root

SizeAt(x, lv) ==
    /\ size(x) < INDEXCOUNT
    /\ x # root => size(x) >= INDEXMINR \/ (job.do = "shrink" /\ x = job.page)
    /\ lv[x] > 0 => size(x) > 0 \/ (job.do = "shrink" /\ x = job.page)

\* The arrays of the pages outside of T stay as they are.
ArraysStay(T) ==
    \A x \in Page \ T : /\ l_pos'[x] = l_pos[x] /\ r_pos'[x] = r_pos[x]
                        /\ key'[x] = key[x] /\ kid'[x] = kid[x]

\* What a page outside of T, or below one outside of T, says of its parent,
\* and its bounds, stay as they are.
KinStay(T, lo, hi, lo2, hi2) ==
    /\ \A x \in Live : parent_index[x] \notin T =>
          /\ parent_index'[x] = parent_index[x] /\ parent_pos'[x] = parent_pos[x]
    /\ \A x \in Live : parent_index[x] \notin T \/ x \notin T => lo2[x] = lo[x] /\ hi2[x] = hi[x]

\* All of this at the pages of T is enough.
LEMMA FrameKeeps ==
    ASSUME NEW lo, NEW hi, NEW lv, NEW lo2, NEW hi2, NEW T, TypeOK, Good(lo, hi, lv),
           job.do = "shrink", job.page \in T, T \subseteq Live,
           Live' \subseteq Live, Live \ Live' \subseteq T,
           \A x \in Live \ Live' : parent_index[x] \in T \cup {0},
           root' = root \/ root \notin Live',
           job'.do \in {"idle", "shrink"},
           ArraysStay(T), KinStay(T, lo, hi, lo2, hi2),
           \A x \in T \cap Live' : KeysAt(x, lo2, hi2)',
           \A x \in T \cap Live' : DownAt(x, lo2, hi2, lv)',
           \A x \in T \cap Live' : SizeAt(x, lv)',
           \A x \in Live' : parent_index[x] \in T => UpAt(x)'
    PROVE  Keys(lo2, hi2)' /\ Down(lo2, hi2, lv)' /\ Up' /\ Size(lv)'
  <1>1. Fresh = {} /\ Half = {} /\ Fresh' = {} /\ Half' = {}
    BY DEF Fresh, Half
  <1>2. Live \subseteq Page /\ 0 \notin Live
    BY LiveIsPage
  <1>3. \A x \in Live \ T : /\ Slots(x)' = Slots(x) /\ Positions(x)' = Positions(x) /\ size(x)' = size(x)
                            /\ l_pos'[x] = l_pos[x] /\ r_pos'[x] = r_pos[x]
                            /\ key'[x] = key[x] /\ kid'[x] = kid[x] /\ lo2[x] = lo[x] /\ hi2[x] = hi[x]
    BY <1>2 DEF ArraysStay, KinStay, Slots, Positions, size
  <1>4. Keys(lo2, hi2)'
    <2>1. ASSUME NEW x \in Live'
          PROVE  /\ lo2[x] < hi2[x]
                 /\ \A i \in Slots(x)' : lo2[x] < key'[x][i] /\ key'[x][i] < hi2[x]
                 /\ \A i, j \in Slots(x)' : i < j => key'[x][i] < key'[x][j]
      <3>1. CASE x \in T
        BY <3>1 DEF KeysAt
      <3>2. CASE x \notin T
        BY <1>3, <3>2 DEF Good, Keys
      <3> QED BY <3>1, <3>2
    <2> QED BY <2>1 DEF Keys
  <1>5. Down(lo2, hi2, lv)'
    <2>1. ASSUME NEW x \in Live', NEW i \in Positions(x)'
          PROVE  /\ lv[x] = 0 => kid'[x][i] = 0
                 /\ lv[x] > 0 => /\ kid'[x][i] \in Live' /\ lv[kid'[x][i]] = lv[x] - 1
                                 /\ parent_index'[kid'[x][i]] = x /\ parent_pos'[kid'[x][i]] = i
                                 /\ lo2[kid'[x][i]] = LoAt(lo2, x, i)'
                                 /\ hi2[kid'[x][i]] = HiAt(hi2, x, i)'
      <3>1. CASE x \in T
        BY <3>1 DEF DownAt
      <3>2. CASE x \notin T
        <4>1. /\ x \in Live /\ i \in Positions(x) /\ kid'[x] = kid[x]
              /\ LoAt(lo2, x, i)' = LoAt(lo, x, i) /\ HiAt(hi2, x, i)' = HiAt(hi, x, i)
          BY <1>3, <3>2 DEF LoAt, HiAt
        <4>2. CASE lv[x] = 0
          BY <1>1, <4>1, <4>2 DEF Good, Down
        <4>3. CASE lv[x] > 0
          <5>1. PICK c \in Live : c = kid[x][i]
            BY <1>1, <4>1, <4>3 DEF Good, Down
          <5>2. /\ lv[c] = lv[x] - 1 /\ parent_index[c] = x /\ parent_pos[c] = i
                /\ lo[c] = LoAt(lo, x, i) /\ hi[c] = HiAt(hi, x, i)
            BY <1>1, <4>1, <4>3, <5>1 DEF Good, Down
          <5>3. parent_index'[c] = x /\ parent_pos'[c] = i /\ lo2[c] = lo[c] /\ hi2[c] = hi[c]
            BY <3>2, <5>2 DEF KinStay
          <5>4. c \in Live'
            BY <1>2, <3>2, <5>1, <5>2
          <5> QED BY <4>1, <4>3, <5>1, <5>2, <5>3, <5>4
        <4> QED BY <4>1, <4>2, <4>3 DEF Good, GhostType
      <3> QED BY <3>1, <3>2
    <2> QED BY <1>1, <2>1 DEF Down
  <1>6. Up'
    <2>1. ASSUME NEW x \in Live'
          PROVE  /\ parent_index'[x] # 0 => /\ parent_index'[x] \in Live'
                                            /\ parent_pos'[x] \in Positions(parent_index[x])'
                                            /\ kid'[parent_index'[x]][parent_pos'[x]] = x
                 /\ parent_index'[x] = 0 => parent_pos'[x] = 0 /\ x = root'
      <3>1. CASE parent_index[x] \in T
        BY <3>1 DEF UpAt
      <3>2. CASE parent_index[x] \notin T /\ parent_index[x] # 0
        <4>1. PICK y \in Live : /\ y = parent_index[x] /\ parent_pos[x] \in Positions(y)
                                /\ kid[y][parent_pos[x]] = x
          BY <3>2 DEF Good, Up
        <4>2. Positions(y)' = Positions(y) /\ kid'[y] = kid[y] /\ y \in Live'
          BY <1>3, <3>2, <4>1
        <4>3. parent_index'[x] = y /\ parent_pos'[x] = parent_pos[x]
          BY <3>2, <4>1 DEF KinStay
        <4> QED BY <1>2, <4>1, <4>2, <4>3
      <3>3. CASE parent_index[x] \notin T /\ parent_index[x] = 0
        <4>1. parent_pos[x] = 0 /\ x = root
          BY <3>3 DEF Good, Up
        <4>2. parent_index'[x] = 0 /\ parent_pos'[x] = 0
          BY <3>3, <4>1 DEF KinStay
        <4> QED BY <4>1, <4>2
      <3> QED BY <3>1, <3>2, <3>3
    <2> QED BY <1>1, <2>1 DEF Up
  <1>7. Size(lv)'
    <2>1. ASSUME NEW x \in Live'
          PROVE  /\ size(x)' # INDEXCOUNT
                 /\ x # root' => size(x)' >= INDEXMINR \/ (job'.do = "shrink" /\ x = job'.page)
                 /\ lv[x] > 0 => size(x)' > 0 \/ (job'.do = "shrink" /\ x = job'.page)
      <3>1. CASE x \in T
        BY <3>1, Sizes DEF SizeAt
      <3>2. CASE x \notin T
        <4>1. x \in Live /\ x \notin Fresh /\ (x = root => x = root')
          BY <1>1, <3>2
        <4>2. /\ size(x) # INDEXCOUNT
              /\ x # root => size(x) >= INDEXMINR
              /\ lv[x] > 0 => size(x) > 0
          BY <3>2, <4>1 DEF Good, Size
        <4> QED BY <1>3, <3>2, <4>1, <4>2
      <3> QED BY <3>1, <3>2
    <2> QED BY <1>1, <2>1 DEF Size
  <1> QED BY <1>4, <1>5, <1>6, <1>7

\* What an invariant state is when a page has too few keys.
LEMMA ShrinkJob ==
    ASSUME NEW lo, NEW hi, NEW lv, Job(lo, hi, lv), job.do = "shrink"
    PROVE  \E p \in Live :
          /\ job = [do |-> "shrink", page |-> p]
          /\ p \in dirty
          /\ size(p) = INDEXMINR - 1 /\ parent_index[p] # 0
  BY DEF Job, Idle

\* The same of every page before the step.
LEMMA PageByPage ==
    ASSUME NEW lo, NEW hi, NEW lv, TypeOK, Good(lo, hi, lv), job.do = "shrink", NEW x \in Live
    PROVE  /\ KeysAt(x, lo, hi) /\ DownAt(x, lo, hi, lv) /\ UpAt(x) /\ SizeAt(x, lv)
           /\ lo[x] \in 0..(MaxKey + 1) /\ hi[x] \in 0..(MaxKey + 1) /\ lv[x] \in Nat
           /\ lo[x] \in Int /\ hi[x] \in Int
           /\ \A j \in Slots(x) : key[x][j] \in Key /\ key[x][j] \in Int
  <1>1. Fresh = {} /\ Half = {}
    BY DEF Fresh, Half
  <1>2. KeysAt(x, lo, hi)
    BY DEF Good, Keys, KeysAt
  <1>3. DownAt(x, lo, hi, lv)
    BY <1>1 DEF Good, Down, DownAt
  <1>4. UpAt(x)
    BY <1>1 DEF Good, Up, UpAt
  <1>5. SizeAt(x, lv)
    <2>1. size(x) # INDEXCOUNT
      BY <1>1 DEF Good, Size
    <2>2. l_pos[x] \in Nat /\ r_pos[x] \in Nat /\ l_pos[x] <= r_pos[x] /\ r_pos[x] <= INDEXCOUNT /\ INDEXCOUNT \in Nat
      BY LiveTyped, Sizes
    <2>3. size(x) < INDEXCOUNT
      BY <2>1, <2>2 DEF size
    <2> QED BY <1>1, <2>3 DEF Good, Size, SizeAt
  <1>6. /\ lo[x] \in 0..(MaxKey + 1) /\ hi[x] \in 0..(MaxKey + 1) /\ lv[x] \in Nat
    BY DEF Good, GhostType
  <1>7. lo[x] \in Int /\ hi[x] \in Int
    BY <1>6, KeyAssumption
  <1>8. \A j \in Slots(x) : key[x][j] \in Key /\ key[x][j] \in Int
    BY LiveTyped, KeyAssumption DEF Key
  <1> QED BY <1>2, <1>3, <1>4, <1>5, <1>6, <1>7, <1>8

-------------------------------------------------------------------------------
(* Two siblings and the key between them.                                  *)

\* The pages at the two links of a slot are siblings, and the key of the slot
\* is the bound between them.
LEMMA Siblings ==
    ASSUME NEW lo, NEW hi, NEW lv, TypeOK, Good(lo, hi, lv), job.do = "shrink",
           NEW q \in Live, NEW h \in Slots(q), lv[q] > 0, NEW g \in Int, g = h + 1
    PROVE  \E a, b \in Live :
              /\ a = kid[q][h] /\ b = kid[q][g]
              /\ a # b /\ a # q /\ b # q /\ a # root /\ b # root
              /\ parent_index[a] = q /\ parent_pos[a] = h /\ parent_index[b] = q /\ parent_pos[b] = g
              /\ h \in Int /\ h \in Positions(q) /\ g \in Positions(q)
              /\ lv[a] = lv[b] /\ lv[q] = lv[a] + 1
              /\ hi[a] = key[q][h] /\ lo[b] = key[q][h]
              /\ lo[a] = LoAt(lo, q, h) /\ hi[b] = HiAt(hi, q, g)
  <1>1. /\ l_pos[q] \in Int /\ r_pos[q] \in Int /\ h \in Int /\ l_pos[q] <= h /\ h < r_pos[q]
    BY LiveTyped DEF Slots
  <1>2. h \in Positions(q) /\ g \in Positions(q) /\ h # r_pos[q] /\ g # l_pos[q] /\ g - 1 = h /\ g # h
    BY <1>1 DEF Positions
  <1>3. DownAt(q, lo, hi, lv)
    BY PageByPage
  <1>4. PICK a \in Live : /\ a = kid[q][h] /\ lv[a] = lv[q] - 1 /\ parent_index[a] = q /\ parent_pos[a] = h
                          /\ lo[a] = LoAt(lo, q, h) /\ hi[a] = HiAt(hi, q, h)
    BY <1>2, <1>3 DEF DownAt
  <1>5. PICK b \in Live : /\ b = kid[q][g] /\ lv[b] = lv[q] - 1 /\ parent_index[b] = q /\ parent_pos[b] = g
                          /\ lo[b] = LoAt(lo, q, g) /\ hi[b] = HiAt(hi, q, g)
    BY <1>2, <1>3 DEF DownAt
  <1>6. hi[a] = key[q][h] /\ lo[b] = key[q][h]
    BY <1>2, <1>4, <1>5 DEF LoAt, HiAt
  <1>7. lv[q] \in Nat
    BY PageByPage
  <1>8. a # root /\ b # root
    BY <1>4, <1>5, LiveIsPage DEF Good, RootOK
  <1> QED BY <1>1, <1>2, <1>4, <1>5, <1>6, <1>7, <1>8

\* The key between two siblings is no other key above them, and no bound.
LEMMA Alone ==
    ASSUME NEW lo, NEW hi, NEW lv, TypeOK, Good(lo, hi, lv), job.do = "shrink",
           NEW q \in Live, NEW h \in Slots(q), NEW k, k = key[q][h]
    PROVE  \A x \in Live : lv[x] >= lv[q] =>
              /\ lo[x] # k /\ hi[x] # k
              /\ \A i \in Slots(x) : key[x][i] = k => x = q /\ i = h
  <1>1. SUFFICES ASSUME NEW x \in Live, lv[x] >= lv[q]
                 PROVE  lo[x] # k /\ hi[x] # k
    BY KeyOnce
  <1>2. /\ lo[x] \in Int /\ hi[x] \in Int /\ lo[q] \in Int /\ hi[q] \in Int /\ k \in Int
        /\ lv[x] \in Nat /\ lv[q] \in Nat
    BY PageByPage
  <1>3. lo[q] < k /\ k < hi[q]
    BY PageByPage DEF KeysAt
  <1>4. CASE x = q
    BY <1>2, <1>3, <1>4
  <1>5. CASE x # q /\ lv[x] = lv[q]
    <2>1. hi[x] <= lo[q] \/ hi[q] <= lo[x]
      BY <1>5 DEF Good, Apart
    <2>2. lo[x] < hi[x]
      BY PageByPage DEF KeysAt
    <2> QED BY <1>2, <1>3, <2>1, <2>2
  <1>6. CASE x # q /\ lv[x] > lv[q]
    <2>1. Outside(lo[x], lo, hi, q) /\ Outside(hi[x], lo, hi, q)
      BY <1>6 DEF Good, Apart
    <2> QED BY <1>2, <1>3, <2>1 DEF Outside
  <1> QED BY <1>1, <1>2, <1>4, <1>5, <1>6

\* v is within the bounds of no page below level n.
OutsideBelow(v, n, lo, hi, lv) == \A y \in Live : lv[y] < n => Outside(v, lo, hi, y)

\* The bounds of siblings a and b when m is between them, and the slot above.
BoundsMoved(a, b, m, lo, hi, lo2, hi2) ==
    \A x \in Live : /\ lo2[x] = IF x = b THEN m ELSE lo[x]
                    /\ hi2[x] = IF x = a THEN m ELSE hi[x]

\* Key m takes the place of the key of page q at h.
KeyReplaced(q, h, m) ==
    Slots(q)' = Slots(q) /\ \A i \in Slots(q) : key'[q][i] = IF i = h THEN m ELSE key[q][i]

\* The key m takes the place of the one between siblings a and b, which goes to
\* one of them.
LEMMA BoundaryMoves ==
    ASSUME NEW lo, NEW hi, NEW lv, TypeOK, Good(lo, hi, lv), job.do = "shrink",
           NEW q \in Live, NEW h \in Slots(q), NEW a \in Live, NEW b \in Live, NEW k, NEW m \in Int,
           k = key[q][h], a # b, lv[a] = lv[b], lv[q] = lv[a] + 1, hi[a] = k, lo[b] = k,
           lo[a] < m, m < hi[b],
           NEW lo2, NEW hi2,
           BoundsMoved(a, b, m, lo, hi, lo2, hi2),
           Live' = Live,
           ArraysStay({a, b, q}),
           KeyReplaced(q, h, m),
           \A i \in Slots(a)' : OutsideBelow(key'[a][i], lv[a], lo, hi, lv),
           \A i \in Slots(b)' : OutsideBelow(key'[b][i], lv[a], lo, hi, lv),
           OutsideBelow(m, lv[a], lo, hi, lv)
    PROVE  Apart(lo2, hi2, lv)'
  <1>1. /\ \A x \in Live : lo2[x] = IF x = b THEN m ELSE lo[x]
        /\ \A x \in Live : hi2[x] = IF x = a THEN m ELSE hi[x]
        /\ Slots(q)' = Slots(q) /\ \A i \in Slots(q) : key'[q][i] = IF i = h THEN m ELSE key[q][i]
        /\ \A x \in Live \ {a, b, q} : Slots(x)' = Slots(x) /\ key'[x] = key[x]
    BY LiveIsPage DEF BoundsMoved, KeyReplaced, ArraysStay, Slots
  <1>2. /\ \A x \in Live : lo[x] \in Int /\ hi[x] \in Int /\ lv[x] \in Nat /\ lo[x] < hi[x]
        /\ k \in Int /\ a # q /\ b # q
    BY PageByPage DEF KeysAt
  <1>3. \A x \in Live : \A i \in Slots(x) : key[x][i] \in Int
    BY PageByPage
  <1>4. \A y \in Live \ {a, b} : lv[y] = lv[a] => hi[y] <= lo[a] \/ hi[b] <= lo[y]
    <2>1. SUFFICES ASSUME NEW y \in Live \ {a, b}, lv[y] = lv[a]
                   PROVE  hi[y] <= lo[a] \/ hi[b] <= lo[y]
      OBVIOUS
    <2>2. (hi[y] <= lo[a] \/ hi[a] <= lo[y]) /\ (hi[y] <= lo[b] \/ hi[b] <= lo[y])
      BY <2>1 DEF Good, Apart
    <2> QED BY <1>2, <2>2
  <1>5. ASSUME NEW x \in Live, NEW y \in Live, x # y, lv[x] = lv[y]
        PROVE  hi2[x] <= lo2[y] \/ hi2[y] <= lo2[x]
    <2>1. CASE x \notin {a, b} /\ y \notin {a, b}
      BY <1>1, <1>5, <2>1 DEF Good, Apart
    <2>2. CASE x \in {a, b} /\ y \notin {a, b}
      <3>1. hi[y] <= lo[a] \/ hi[b] <= lo[y]
        BY <1>4, <1>5, <2>2
      <3> QED BY <1>1, <1>2, <2>2, <3>1
    <2>3. CASE x \notin {a, b} /\ y \in {a, b}
      <3>1. hi[x] <= lo[a] \/ hi[b] <= lo[x]
        BY <1>4, <1>5, <2>3
      <3> QED BY <1>1, <1>2, <2>3, <3>1
    <2>4. CASE x \in {a, b} /\ y \in {a, b}
      BY <1>1, <1>2, <1>5, <2>4
    <2> QED BY <2>1, <2>2, <2>3, <2>4
  <1>6. ASSUME NEW v \in Int, Outside(v, lo, hi, a), Outside(v, lo, hi, b), v # k
        PROVE  Outside(v, lo2, hi2, a) /\ Outside(v, lo2, hi2, b)
    <2>1. v <= lo[a] \/ hi[b] <= v
      BY <1>2, <1>6 DEF Outside
    <2>2. lo2[a] = lo[a] /\ hi2[a] = m /\ lo2[b] = m /\ hi2[b] = hi[b]
      BY <1>1, <1>2
    <2>3. lo[a] \in Int /\ hi[b] \in Int
      BY <1>1, <1>2
    <2> QED BY <2>1, <2>2, <2>3 DEF Outside
  <1>7. ASSUME NEW x \in Live, NEW y \in Live, lv[x] > lv[y]
        PROVE  /\ Outside(lo[x], lo, hi, y) /\ Outside(hi[x], lo, hi, y)
               /\ \A i \in Slots(x) : Outside(key[x][i], lo, hi, y)
    BY <1>2, <1>7 DEF Good, Apart
  <1>8. Outside(m, lo2, hi2, a) /\ Outside(m, lo2, hi2, b)
    BY <1>1, <1>2 DEF Outside
  <1>9. ASSUME NEW x \in Live, NEW y \in {a, b}, lv[x] > lv[y]
        PROVE  /\ Outside(lo2[x], lo2, hi2, y) /\ Outside(hi2[x], lo2, hi2, y)
               /\ \A i \in Slots(x)' : Outside(key'[x][i], lo2, hi2, y)
    <2>1. lv[x] >= lv[q] /\ lv[x] > lv[a] /\ lv[x] > lv[b] /\ x \notin {a, b}
      BY <1>2, <1>9
    <2>2. /\ lo[x] # k /\ hi[x] # k
          /\ \A i \in Slots(x) : key[x][i] = k => x = q /\ i = h
      BY <2>1, Alone
    <2>3. /\ Outside(lo[x], lo2, hi2, y) /\ Outside(hi[x], lo2, hi2, y)
      BY <1>2, <1>6, <1>7, <2>1, <2>2
    <2>4. \A i \in Slots(x) : x # q \/ i # h => Outside(key[x][i], lo2, hi2, y)
      BY <1>3, <1>6, <1>7, <2>1, <2>2
    <2>5. lo2[x] = lo[x] /\ hi2[x] = hi[x]
      BY <1>1, <2>1
    <2>6. CASE x = q
      BY <1>1, <1>8, <2>3, <2>4, <2>5, <2>6
    <2>7. CASE x # q
      BY <1>1, <2>1, <2>3, <2>4, <2>5, <2>7
    <2> QED BY <2>6, <2>7
  <1>10. ASSUME NEW x \in Live, NEW y \in Live \ {a, b}, lv[x] > lv[y]
         PROVE  /\ Outside(lo2[x], lo2, hi2, y) /\ Outside(hi2[x], lo2, hi2, y)
                /\ \A i \in Slots(x)' : Outside(key'[x][i], lo2, hi2, y)
    <2>1. lo2[y] = lo[y] /\ hi2[y] = hi[y]
      BY <1>1, <1>10
    <2>2. \A v : Outside(v, lo, hi, y) => Outside(v, lo2, hi2, y)
      BY <2>1 DEF Outside
    <2>3. lv[y] < lv[a] \/ lv[y] = lv[a] => Outside(m, lo, hi, y)
      <3>1. CASE lv[y] < lv[a]
        BY <3>1 DEF OutsideBelow
      <3>2. CASE lv[y] = lv[a]
        <4>1. hi[y] <= lo[a] \/ hi[b] <= lo[y]
          BY <1>4, <3>2
        <4>2. m >= hi[y] \/ m <= lo[y]
          BY <1>2, <4>1
        <4> QED BY <1>2, <4>2 DEF Outside
      <3> QED BY <3>1, <3>2
    <2>4. CASE x \in {a, b}
      <3>1. lv[y] < lv[a]
        BY <1>10, <2>4
      <3>2. \A i \in Slots(x)' : Outside(key'[x][i], lo, hi, y)
        BY <2>4, <3>1 DEF OutsideBelow
      <3>3. Outside(lo2[x], lo, hi, y) /\ Outside(hi2[x], lo, hi, y)
        BY <1>1, <1>7, <1>10, <2>3, <2>4, <3>1
      <3> QED BY <2>2, <3>2, <3>3
    <2>5. CASE x = q
      <3>1. lv[y] < lv[a] \/ lv[y] = lv[a]
        BY <1>2, <1>10, <2>5
      <3>2. \A i \in Slots(x)' : Outside(key'[x][i], lo, hi, y)
        BY <1>1, <1>7, <1>10, <2>3, <2>5, <3>1
      <3>3. Outside(lo2[x], lo, hi, y) /\ Outside(hi2[x], lo, hi, y)
        BY <1>1, <1>2, <1>7, <1>10, <2>5
      <3> QED BY <2>2, <3>2, <3>3
    <2>6. CASE x \notin {a, b, q}
      BY <1>1, <1>7, <1>10, <2>2, <2>6
    <2> QED BY <2>4, <2>5, <2>6
  <1> QED BY <1>5, <1>9, <1>10 DEF Apart, Outside

\* TypeOK at page x.
TypedAt(x) ==
    /\ l_pos[x] <= r_pos[x]
    /\ key[x] \in [l_pos[x]..(r_pos[x] - 1) -> Key]
    /\ kid[x] \in [l_pos[x]..r_pos[x] -> 0..max]

\* The types hold after a step if they hold at the pages it changes.
LEMMA TypesKeep ==
    ASSUME TypeOK, NEW T, ArraysStay(T), \A x \in T : TypedAt(x)',
           l_pos' \in [Page -> 0..INDEXCOUNT], r_pos' \in [Page -> 0..INDEXCOUNT],
           DOMAIN key' = Page, DOMAIN kid' = Page,
           parent_index' \in [Page -> 0..max], parent_pos' \in [Page -> 0..INDEXCOUNT],
           root' \in Page, max' = max, free' \in Seq(1..max), dirty' \subseteq Page, answer' = answer
    PROVE  TypeOK'
  <1>1. ASSUME NEW x \in Page
        PROVE  /\ l_pos'[x] <= r_pos'[x]
               /\ key'[x] \in [l_pos'[x]..(r_pos'[x] - 1) -> Key]
               /\ kid'[x] \in [l_pos'[x]..r_pos'[x] -> 0..max]
    <2>1. CASE x \in T
      BY <2>1 DEF TypedAt
    <2>2. CASE x \notin T
      BY <2>2 DEF ArraysStay, TypeOK
    <2> QED BY <2>1, <2>2
  <1> QED BY <1>1 DEF TypeOK

\* The page above two siblings when the key between them is replaced.
LEMMA Replaced ==
    ASSUME NEW lo, NEW hi, NEW lv, TypeOK, Good(lo, hi, lv), job.do = "shrink",
           NEW q \in Live, NEW h \in Slots(q), NEW g \in Int, g = h + 1,
           NEW a \in Live, NEW b \in Live, NEW m \in Int,
           a = kid[q][h], b = kid[q][g], a # b, a # q, b # q, lv[q] > 0,
           lo[a] = LoAt(lo, q, h), hi[b] = HiAt(hi, q, g), lo[a] < m, m < hi[b],
           NEW lo2, NEW hi2,
           BoundsMoved(a, b, m, lo, hi, lo2, hi2),
           Live' = Live, l_pos'[q] = l_pos[q], r_pos'[q] = r_pos[q], kid'[q] = kid[q],
           key'[q] = [key[q] EXCEPT ![h] = m],
           \A x \in Live : parent_index[x] = q => parent_index'[x] = q /\ parent_pos'[x] = parent_pos[x]
    PROVE  /\ KeysAt(q, lo2, hi2)' /\ DownAt(q, lo2, hi2, lv)'
           /\ KeyReplaced(q, h, m)
  <1>1. /\ \A x \in Live : lo2[x] = IF x = b THEN m ELSE lo[x]
        /\ \A x \in Live : hi2[x] = IF x = a THEN m ELSE hi[x]
    BY DEF BoundsMoved
  <1>2. /\ l_pos[q] \in Int /\ r_pos[q] \in Int /\ h \in Int /\ l_pos[q] <= h /\ h < r_pos[q]
        /\ g - 1 = h /\ g # h /\ g # l_pos[q] /\ h # r_pos[q]
    BY LiveTyped DEF Slots
  <1>3. Slots(q)' = Slots(q) /\ Positions(q)' = Positions(q)
    BY DEF Slots, Positions
  <1>4. q \in Page
    BY LiveIsPage
  <1>5. \A i \in Slots(q) : key'[q][i] = IF i = h THEN m ELSE key[q][i]
    BY <1>4 DEF TypeOK, Slots
  <1>6. /\ KeysAt(q, lo, hi) /\ DownAt(q, lo, hi, lv)
        /\ lo[q] \in Int /\ hi[q] \in Int /\ lo[a] \in Int /\ hi[b] \in Int
        /\ \A i \in Slots(q) : key[q][i] \in Int
    BY PageByPage
  <1>7. lo2[q] = lo[q] /\ hi2[q] = hi[q]
    BY <1>1
  <1>8. \A i \in Slots(q) : i < h => key[q][i] < m
    <2>1. SUFFICES ASSUME NEW i \in Slots(q), i < h PROVE key[q][i] < m
      OBVIOUS
    <2>2. PICK u \in Int : u = h - 1
      BY <1>2
    <2>3. i \in Int /\ u \in Slots(q) /\ h # l_pos[q] /\ (i = u \/ i < u)
      BY <1>2, <2>1, <2>2 DEF Slots
    <2>4. lo[a] = key[q][u]
      BY <2>2, <2>3 DEF LoAt
    <2>5. i = u \/ key[q][i] < key[q][u]
      BY <1>6, <2>3 DEF KeysAt
    <2>6. key[q][i] \in Int /\ key[q][u] \in Int
      BY <1>6, <2>3
    <2> QED BY <2>4, <2>5, <2>6
  <1>9. \A i \in Slots(q) : i > h => m < key[q][i]
    <2>1. SUFFICES ASSUME NEW i \in Slots(q), i > h PROVE m < key[q][i]
      OBVIOUS
    <2>2. i \in Int /\ g \in Slots(q) /\ g # r_pos[q] /\ (i = g \/ g < i)
      BY <1>2, <2>1 DEF Slots
    <2>3. hi[b] = key[q][g]
      BY <2>2 DEF HiAt
    <2>4. i = g \/ key[q][g] < key[q][i]
      BY <1>6, <2>2 DEF KeysAt
    <2>5. key[q][i] \in Int /\ key[q][g] \in Int
      BY <1>6, <2>2
    <2> QED BY <2>3, <2>4, <2>5
  <1>10. lo[q] <= lo[a]
    <2>1. CASE h = l_pos[q]
      BY <1>6, <2>1 DEF LoAt
    <2>2. CASE h # l_pos[q]
      <3>1. PICK u \in Int : u = h - 1
        BY <1>2
      <3>2. u \in Slots(q)
        BY <1>2, <2>2, <3>1 DEF Slots
      <3> QED BY <1>6, <2>2, <3>1, <3>2 DEF LoAt, KeysAt
    <2> QED BY <2>1, <2>2
  <1>11. hi[b] <= hi[q]
    <2>1. CASE g = r_pos[q]
      BY <1>6, <2>1 DEF HiAt
    <2>2. CASE g # r_pos[q]
      <3>1. g \in Slots(q)
        BY <1>2, <2>2 DEF Slots
      <3> QED BY <1>6, <2>2, <3>1 DEF HiAt, KeysAt
    <2> QED BY <2>1, <2>2
  <1>12. lo[q] < m /\ m < hi[q]
    BY <1>6, <1>10, <1>11
  <1>13. KeysAt(q, lo2, hi2)'
    <2>1. \A i \in Slots(q) : lo[q] < key'[q][i] /\ key'[q][i] < hi[q]
      BY <1>5, <1>6, <1>12 DEF KeysAt
    <2>2. ASSUME NEW i \in Slots(q), NEW j \in Slots(q), i < j
          PROVE  key'[q][i] < key'[q][j]
      <3>1. i \in Int /\ j \in Int
        BY <1>2 DEF Slots
      <3>2. CASE i = h
        BY <1>2, <1>5, <1>9, <2>2, <3>1, <3>2
      <3>3. CASE j = h
        BY <1>2, <1>5, <1>8, <2>2, <3>1, <3>3
      <3>4. CASE i # h /\ j # h
        BY <1>5, <1>6, <2>2, <3>4 DEF KeysAt
      <3> QED BY <3>2, <3>3, <3>4
    <2>3. lo[q] < hi[q]
      BY <1>6 DEF KeysAt
    <2> QED BY <1>3, <1>7, <2>1, <2>2, <2>3 DEF KeysAt
  <1>14. DownAt(q, lo2, hi2, lv)'
    <2>1. ASSUME NEW i \in Positions(q)
          PROVE  /\ kid[q][i] \in Live /\ lv[kid[q][i]] = lv[q] - 1
                 /\ parent_index'[kid[q][i]] = q /\ parent_pos'[kid[q][i]] = i
                 /\ lo2[kid[q][i]] = LoAt(lo2, q, i)'
                 /\ hi2[kid[q][i]] = HiAt(hi2, q, i)'
      <3>1. PICK c \in Live : /\ c = kid[q][i] /\ lv[c] = lv[q] - 1
                              /\ parent_index[c] = q /\ parent_pos[c] = i
                              /\ lo[c] = LoAt(lo, q, i) /\ hi[c] = HiAt(hi, q, i)
        BY <1>6 DEF DownAt
      <3>2. parent_index'[c] = q /\ parent_pos'[c] = i
        BY <3>1
      <3>3. i \in Int /\ l_pos[q] <= i /\ i <= r_pos[q]
        BY <1>2 DEF Positions
      <3>4. (i = h <=> c = a) /\ (i = g <=> c = b)
        <4>1. parent_pos[a] = h /\ parent_pos[b] = g
          <5>1. h \in Positions(q) /\ g \in Positions(q)
            BY <1>2 DEF Positions
          <5> QED BY <1>6, <5>1 DEF DownAt
        <4> QED BY <3>1, <4>1
      <3>5. LoAt(lo2, q, i)' = IF i = g THEN m ELSE LoAt(lo, q, i)
        <4>1. CASE i = l_pos[q]
          BY <1>2, <1>7, <4>1 DEF LoAt
        <4>2. CASE i # l_pos[q]
          <5>1. PICK u \in Int : u = i - 1
            BY <3>3
          <5>2. u \in Slots(q) /\ (u = h <=> i = g)
            BY <1>2, <3>3, <4>2, <5>1 DEF Slots
          <5> QED BY <1>5, <4>2, <5>1, <5>2 DEF LoAt
        <4> QED BY <4>1, <4>2
      <3>6. HiAt(hi2, q, i)' = IF i = h THEN m ELSE HiAt(hi, q, i)
        <4>1. CASE i = r_pos[q]
          BY <1>2, <1>7, <4>1 DEF HiAt
        <4>2. CASE i # r_pos[q]
          <5>1. i \in Slots(q)
            BY <1>2, <3>3, <4>2 DEF Slots
          <5> QED BY <1>5, <4>2, <5>1 DEF HiAt
        <4> QED BY <4>1, <4>2
      <3> QED BY <1>1, <3>1, <3>2, <3>4, <3>5, <3>6
    <2>2. lv[q] # 0
      BY PageByPage
    <2> QED BY <1>3, <2>1, <2>2 DEF DownAt
  <1> QED BY <1>3, <1>5, <1>13, <1>14 DEF KeyReplaced

\* What a page says of its parent stays as it is, but below the pages of T.
ParentsStay(T) ==
    \A x \in Live : parent_index[x] \notin T =>
        parent_index'[x] = parent_index[x] /\ parent_pos'[x] = parent_pos[x]

\* A key has gone round through the parent q of two siblings: what has changed
\* there, and between them.
RoundThrough(q, h, g, a, b, m) ==
    /\ g = h + 1 /\ a = kid[q][h] /\ b = kid[q][g] /\ job.page \in {a, b}
    /\ root' = root /\ job' = Idle
    /\ ArraysStay({a, b, q}) /\ ParentsStay({a, b})
    /\ l_pos'[q] = l_pos[q] /\ r_pos'[q] = r_pos[q] /\ kid'[q] = kid[q]
    /\ key'[q] = [key[q] EXCEPT ![h] = m]

\* The bounds when m is the key between siblings a and b.
NewBounds(a, b, m, lo, hi, lo2, hi2) ==
    /\ lo2 = [x \in Page |-> IF x = b THEN m ELSE lo[x]]
    /\ hi2 = [x \in Page |-> IF x = a THEN m ELSE hi[x]]

\* After a key has gone round, what holds at the two siblings is enough.
LEMMA Borrowed ==
    ASSUME NEW lo, NEW hi, NEW lv, TypeOK, Good(lo, hi, lv), job.do = "shrink",
           NEW q \in Live, NEW h \in Slots(q), NEW g \in Int, lv[q] > 0,
           NEW a \in Live, NEW b \in Live, NEW m \in Key, lo[a] < m, m < hi[b],
           Live' = Live,
           RoundThrough(q, h, g, a, b, m),
           \A i \in Slots(a)' : OutsideBelow(key'[a][i], lv[a], lo, hi, lv),
           \A i \in Slots(b)' : OutsideBelow(key'[b][i], lv[a], lo, hi, lv),
           OutsideBelow(m, lv[a], lo, hi, lv),
           NEW lo2, NEW hi2, NewBounds(a, b, m, lo, hi, lo2, hi2),
           KeysAt(a, lo2, hi2)', KeysAt(b, lo2, hi2)',
           DownAt(a, lo2, hi2, lv)', DownAt(b, lo2, hi2, lv)',
           SizeAt(a, lv)', SizeAt(b, lv)',
           \A x \in Live : parent_index[x] \in {a, b} => UpAt(x)'
    PROVE  Good(lo2, hi2, lv)'
  <1>1. /\ g = h + 1 /\ a = kid[q][h] /\ b = kid[q][g] /\ job.page \in {a, b}
        /\ root' = root /\ job' = Idle
        /\ ArraysStay({a, b, q}) /\ ParentsStay({a, b})
        /\ l_pos'[q] = l_pos[q] /\ r_pos'[q] = r_pos[q] /\ kid'[q] = kid[q]
        /\ key'[q] = [key[q] EXCEPT ![h] = m]
    BY DEF RoundThrough
  <1>2. /\ lo2 = [x \in Page |-> IF x = b THEN m ELSE lo[x]]
        /\ hi2 = [x \in Page |-> IF x = a THEN m ELSE hi[x]]
    BY DEF NewBounds
  <1> USE <1>1, <1>2
  <1>3. /\ a # b /\ a # q /\ b # q /\ a # root /\ b # root
        /\ parent_index[a] = q /\ parent_pos[a] = h /\ parent_index[b] = q /\ parent_pos[b] = g
        /\ lv[a] = lv[b] /\ lv[q] = lv[a] + 1
        /\ hi[a] = key[q][h] /\ lo[b] = key[q][h]
        /\ lo[a] = LoAt(lo, q, h) /\ hi[b] = HiAt(hi, q, g)
    BY Siblings
  <1>4. Live \subseteq Page /\ 0 \notin Live /\ m \in Int
    BY LiveIsPage, KeyAssumption DEF Key
  <1>5. /\ \A x \in Live : lo2[x] = IF x = b THEN m ELSE lo[x]
        /\ \A x \in Live : hi2[x] = IF x = a THEN m ELSE hi[x]
    BY <1>4
  <1>6. BoundsMoved(a, b, m, lo, hi, lo2, hi2)
    BY <1>5 DEF BoundsMoved
  <1>7. \A x \in Live : parent_index[x] = q => parent_index'[x] = q /\ parent_pos'[x] = parent_pos[x]
    BY <1>3 DEF ParentsStay
  <1>8. /\ KeysAt(q, lo2, hi2)' /\ DownAt(q, lo2, hi2, lv)'
        /\ KeyReplaced(q, h, m)
    BY <1>3, <1>4, <1>6, <1>7, Replaced, SMTT(30)
  <1>9. SizeAt(q, lv)'
    <2>1. SizeAt(q, lv) /\ q # job.page
      BY <1>3, PageByPage
    <2>2. size(q)' = size(q)
      BY DEF size
    <2> QED BY <2>1, <2>2 DEF SizeAt
  <1>10. PICK T : T = {a, b, q}
    OBVIOUS
  <1>11. T \subseteq Live /\ T \cap Live' = T /\ Live \ Live' = {} /\ Live' \subseteq Live /\ job.page \in T
    BY <1>10
  <1>12. ArraysStay(T)
    BY <1>10
  <1>13. KinStay(T, lo, hi, lo2, hi2)
    BY <1>3, <1>5, <1>10, SMTT(30) DEF KinStay, ParentsStay
  <1>14. ASSUME NEW x \in Live, parent_index[x] \in T
         PROVE  UpAt(x)'
    <2>1. CASE parent_index[x] \in {a, b}
      BY <2>1
    <2>2. CASE parent_index[x] = q
      <3>1. UpAt(x)
        BY PageByPage
      <3>2. parent_index'[x] = q /\ parent_pos'[x] = parent_pos[x] /\ q # 0
        BY <1>4, <1>7, <2>2
      <3> QED BY <2>2, <3>1, <3>2 DEF UpAt, Positions
    <2> QED BY <1>10, <1>14, <2>1, <2>2
  <1>15. job'.do = "idle"
    BY DEF Idle
  <1>16. \A x \in T \cap Live' : KeysAt(x, lo2, hi2)'
    BY <1>8, <1>10
  <1>17. \A x \in T \cap Live' : DownAt(x, lo2, hi2, lv)'
    BY <1>8, <1>10
  <1>18. \A x \in T \cap Live' : SizeAt(x, lv)'
    BY <1>9, <1>10
  <1>19. Keys(lo2, hi2)' /\ Down(lo2, hi2, lv)' /\ Up' /\ Size(lv)'
    BY <1>11, <1>12, <1>13, <1>14, <1>15, <1>16, <1>17, <1>18, FrameKeeps
  <1>20. Apart(lo2, hi2, lv)'
    BY <1>3, <1>4, <1>8, <1>6, BoundaryMoves
  <1>21. GhostType(lo2, hi2, lv)'
    <2>1. m \in 0..(MaxKey + 1)
      BY KeyAssumption DEF Key
    <2>2. \A x \in Live : lo[x] \in 0..(MaxKey + 1) /\ hi[x] \in 0..(MaxKey + 1) /\ lv[x] \in Nat
      BY PageByPage
    <2> QED BY <1>5, <2>1, <2>2 DEF GhostType
  <1>22. RootOK(lo2, hi2, lv)'
    <2>1. /\ root \in Live /\ parent_index[root] = 0 /\ lo[root] = 0 /\ hi[root] = MaxKey + 1
          /\ \A x \in Live : lv[x] <= lv[root]
      BY DEF Good, RootOK
    <2>2. parent_index'[root] = 0
      BY <1>4, <2>1 DEF ParentsStay
    <2> QED BY <1>3, <1>5, <2>1, <2>2 DEF RootOK
  <1>23. Job(lo2, hi2, lv)'
    BY DEF Job
  <1> QED BY <1>19, <1>20, <1>21, <1>22, <1>23 DEF Good

-------------------------------------------------------------------------------
(* The keys of the index.                                                  *)

\* Value v is a key of page x, or is on the way to a page.
Has(x, v) == \E i \in Slots(x) : key[x][i] = v
Waiting(v) == job.do = "insert_internal" /\ v = job.key

\* A key of the index is in a page or on the way to one; the same after a
\* step.
LEMMA InContents == \A v : v \in Contents <=> (\E x \in Live : Has(x, v)) \/ Waiting(v)
  <1>1. SUFFICES ASSUME NEW v
                 PROVE  v \in Contents <=> (\E x \in Live : Has(x, v)) \/ Waiting(v)
    OBVIOUS
  <1>2. PICK U, W : /\ U = {{key[p][i] : i \in Slots(p)} : p \in Live}
                    /\ W = (IF job.do = "insert_internal" THEN {job.key} ELSE {})
    OBVIOUS
  <1>3. Contents = (UNION U) \cup W
    BY <1>2 DEF Contents, Slots
  <1>4. v \in W <=> Waiting(v)
    BY <1>2 DEF Waiting
  <1>5. v \in UNION U <=> \E x \in Live : Has(x, v)
    BY <1>2 DEF Has
  <1> QED BY <1>3, <1>4, <1>5

LEMMA InContentsNext == \A v : v \in Contents' <=> (\E x \in Live' : Has(x, v)') \/ Waiting(v)'
  <1>1. SUFFICES ASSUME NEW v
                 PROVE  v \in Contents' <=> (\E x \in Live' : Has(x, v)') \/ Waiting(v)'
    OBVIOUS
  <1>2. PICK U, W : /\ U = {{key'[p][i] : i \in Slots(p)'} : p \in Live'}
                    /\ W = (IF job'.do = "insert_internal" THEN {job'.key} ELSE {})
    OBVIOUS
  <1>3. Contents' = (UNION U) \cup W
    BY <1>2 DEF Contents, Slots
  <1>4. v \in W <=> Waiting(v)'
    BY <1>2 DEF Waiting
  <1>5. v \in UNION U <=> \E x \in Live' : Has(x, v)'
    BY <1>2 DEF Has
  <1> QED BY <1>3, <1>4, <1>5

\* Only the pages of T matter when the arrays of the others stay as they are.
LEMMA ContentsFrame ==
    ASSUME TypeOK, NEW T, ArraysStay(T), Live' \ T = Live \ T, NEW v
    PROVE  /\ v \in Contents <=> \/ \E x \in Live \ T : Has(x, v)
                                 \/ \E x \in Live \cap T : Has(x, v)
                                 \/ Waiting(v)
           /\ v \in Contents' <=> \/ \E x \in Live \ T : Has(x, v)
                                  \/ \E x \in Live' \cap T : Has(x, v)'
                                  \/ Waiting(v)'
  <1>1. \A x \in Live \ T : Has(x, v)' <=> Has(x, v)
    BY LiveIsPage DEF ArraysStay, Has, Slots
  <1>2. v \in Contents' <=> (\E x \in Live' : Has(x, v)') \/ Waiting(v)'
    BY InContentsNext
  <1>3. v \in Contents <=> (\E x \in Live : Has(x, v)) \/ Waiting(v)
    BY InContents
  <1>4. (\E x \in Live' : Has(x, v)') <=> (\E x \in Live \ T : Has(x, v)) \/ (\E x \in Live' \cap T : Has(x, v)')
    <2>1. ASSUME NEW x \in Live', Has(x, v)'
          PROVE  (\E y \in Live \ T : Has(y, v)) \/ (\E y \in Live' \cap T : Has(y, v)')
      BY <1>1, <2>1
    <2>2. ASSUME NEW x \in Live \ T, Has(x, v)
          PROVE  \E y \in Live' : Has(y, v)'
      BY <1>1, <2>2
    <2> QED BY <2>1, <2>2
  <1>5. (\E x \in Live : Has(x, v)) <=> (\E x \in Live \ T : Has(x, v)) \/ (\E x \in Live \cap T : Has(x, v))
    OBVIOUS
  <1> QED BY <1>2, <1>3, <1>4, <1>5

\* A key that is not in the leaf where it belongs is nowhere.
LEMMA Nowhere ==
    ASSUME NEW lo, NEW hi, NEW lv, TypeOK, Good(lo, hi, lv), job.do = "find_key",
           NEW p \in Live, lv[p] = 0, NEW k \in Key, lo[p] < k, k < hi[p], ~Has(p, k)
    PROVE  k \notin Contents
  <1>1. ~Waiting(k)
    BY DEF Waiting
  <1>2. SUFFICES ASSUME NEW x \in Live, NEW i \in Slots(x), key[x][i] = k PROVE FALSE
    BY <1>1, InContents DEF Has
  <1>3. x # p
    BY <1>2 DEF Has
  <1>4. /\ lo[x] \in Int /\ hi[x] \in Int /\ lo[p] \in Int /\ hi[p] \in Int /\ k \in Int
        /\ lv[x] \in Nat
    BY KeyAssumption DEF Good, GhostType, Key
  <1>5. lo[x] < k /\ k < hi[x]
    BY <1>2 DEF Good, Keys
  <1>6. CASE lv[x] = 0
    <2>1. hi[x] <= lo[p] \/ hi[p] <= lo[x]
      BY <1>3, <1>6 DEF Good, Apart
    <2> QED BY <1>4, <1>5, <2>1
  <1>7. CASE lv[x] > 0
    <2>1. Outside(key[x][i], lo, hi, p)
      BY <1>3, <1>4, <1>7 DEF Good, Apart
    <2> QED BY <1>2, <1>4, <2>1 DEF Outside
  <1> QED BY <1>4, <1>6, <1>7

\* A page with a new slot has the keys it had and the new one.
LEMMA InsertedHas ==
    ASSUME TypeOK, NEW p \in Live, NEW i \in Positions(p), NEW k \in Key, size(p) < INDEXCOUNT,
           NEW d, d = Gap(p, i), l_pos'[p] = l_pos[p] - d, r_pos'[p] = r_pos[p] + 1 - d,
           key'[p] = KeysWith(p, i, k), NEW v
    PROVE  Has(p, v)' <=> Has(p, v) \/ v = k
  <1>1. PICK K : K = KeysWith(p, i, k)
    OBVIOUS
  <1>2. /\ d \in {0, 1}
        /\ \A j \in (l_pos[p] - d)..(r_pos[p] - d) :
              /\ j < i - d => j + d \in Slots(p) /\ K[j] = key[p][j + d]
              /\ j = i - d => K[j] = k
              /\ j > i - d => j + d - 1 \in Slots(p) /\ K[j] = key[p][j + d - 1]
    BY <1>1, InsertedKeys
  <1>3. l_pos[p] \in Int /\ r_pos[p] \in Int /\ i \in Int /\ d \in Int /\ l_pos[p] <= i /\ i <= r_pos[p]
    BY <1>2, LiveTyped DEF Positions
  <1>4. Slots(p)' = (l_pos[p] - d)..(r_pos[p] - d)
    <2>1. (r_pos[p] + 1 - d) - 1 = r_pos[p] - d
      BY <1>3
    <2> QED BY <2>1 DEF Slots
  <1>5. key'[p] = K
    BY <1>1
  <1>6. ASSUME NEW j \in Slots(p)', K[j] = v
        PROVE  Has(p, v) \/ v = k
    <2>1. j \in (l_pos[p] - d)..(r_pos[p] - d) /\ j \in Int
      BY <1>3, <1>4
    <2>2. j < i - d \/ j = i - d \/ j > i - d
      BY <1>3, <2>1
    <2> QED BY <1>2, <1>6, <2>1, <2>2 DEF Has
  <1>7. ASSUME NEW u \in Slots(p), key[p][u] = v
        PROVE  \E j \in Slots(p)' : K[j] = v
    <2>1. u \in Int /\ l_pos[p] <= u /\ u <= r_pos[p] - 1
      BY <1>3 DEF Slots
    <2>2. CASE u < i
      <3>1. PICK j \in Int : j = u - d
        BY <1>3, <2>1
      <3>2. j \in (l_pos[p] - d)..(r_pos[p] - d) /\ j < i - d /\ j + d = u
        BY <1>2, <1>3, <2>1, <2>2, <3>1
      <3> QED BY <1>2, <1>4, <1>7, <3>2
    <2>3. CASE u >= i
      <3>1. PICK j \in Int : j = u - d + 1
        BY <1>3, <2>1
      <3>2. j \in (l_pos[p] - d)..(r_pos[p] - d) /\ j > i - d /\ j + d - 1 = u
        BY <1>2, <1>3, <2>1, <2>3, <3>1
      <3> QED BY <1>2, <1>4, <1>7, <3>2
    <2> QED BY <1>3, <2>1, <2>2, <2>3
  <1>8. v = k => \E j \in Slots(p)' : K[j] = v
    <2>1. i - d \in (l_pos[p] - d)..(r_pos[p] - d)
      BY <1>3
    <2> QED BY <1>2, <1>4, <2>1
  <1>9. Has(p, v)' <=> \E j \in Slots(p)' : K[j] = v
    BY <1>5 DEF Has
  <1>10. Has(p, v) => \E u \in Slots(p) : key[p][u] = v
    BY DEF Has
  <1> QED BY <1>6, <1>7, <1>8, <1>9, <1>10

\* A page without one of its slots has the keys of the others.
LEMMA ClosedHas ==
    ASSUME TypeOK, NEW p \in Live, NEW i \in Slots(p),
           NEW d, d = Closing(p, i), l_pos'[p] = l_pos[p] + d, r_pos'[p] = r_pos[p] - 1 + d,
           key'[p] = KeysWithout(p, i), NEW v
    PROVE  Has(p, v)' <=> \E u \in Slots(p) : u # i /\ key[p][u] = v
  <1>1. PICK K : K = KeysWithout(p, i)
    OBVIOUS
  <1>2. /\ d \in {0, 1}
        /\ \A j \in (l_pos[p] + d)..(r_pos[p] + d - 2) :
              /\ j < i + d => j - d \in Slots(p) /\ j - d < i /\ K[j] = key[p][j - d]
              /\ j >= i + d => j - d + 1 \in Slots(p) /\ j - d + 1 > i /\ K[j] = key[p][j - d + 1]
    BY <1>1, ClosedKeys
  <1>3. l_pos[p] \in Int /\ r_pos[p] \in Int /\ i \in Int /\ d \in Int /\ l_pos[p] <= i /\ i <= r_pos[p] - 1
    BY <1>2, LiveTyped DEF Slots
  <1>4. Slots(p)' = (l_pos[p] + d)..(r_pos[p] + d - 2)
    <2>1. (r_pos[p] - 1 + d) - 1 = r_pos[p] + d - 2
      BY <1>3
    <2> QED BY <2>1 DEF Slots
  <1>5. key'[p] = K
    BY <1>1
  <1>6. ASSUME NEW j \in Slots(p)', K[j] = v
        PROVE  \E u \in Slots(p) : u # i /\ key[p][u] = v
    <2>1. j \in (l_pos[p] + d)..(r_pos[p] + d - 2) /\ j \in Int
      BY <1>3, <1>4
    <2>2. CASE j < i + d
      <3>1. PICK u \in Int : u = j - d
        BY <1>3, <2>1
      <3>2. u \in Slots(p) /\ u < i /\ K[j] = key[p][u]
        BY <1>2, <2>1, <2>2, <3>1
      <3> QED BY <1>3, <1>6, <3>2
    <2>3. CASE j >= i + d
      <3>1. PICK u \in Int : u = j - d + 1
        BY <1>3, <2>1
      <3>2. u \in Slots(p) /\ u > i /\ K[j] = key[p][u]
        BY <1>2, <2>1, <2>3, <3>1
      <3> QED BY <1>3, <1>6, <3>2
    <2> QED BY <1>3, <2>1, <2>2, <2>3
  <1>7. ASSUME NEW u \in Slots(p), u # i, key[p][u] = v
        PROVE  \E j \in Slots(p)' : K[j] = v
    <2>1. u \in Int /\ l_pos[p] <= u /\ u <= r_pos[p] - 1
      BY <1>3 DEF Slots
    <2>2. CASE u < i
      <3>1. PICK j \in Int : j = u + d
        BY <1>3, <2>1
      <3>2. j \in (l_pos[p] + d)..(r_pos[p] + d - 2) /\ j < i + d /\ j - d = u
        BY <1>3, <2>1, <2>2, <3>1
      <3> QED BY <1>2, <1>4, <1>7, <3>2
    <2>3. CASE u > i
      <3>1. PICK j \in Int : j = u + d - 1
        BY <1>3, <2>1
      <3>2. j \in (l_pos[p] + d)..(r_pos[p] + d - 2) /\ j >= i + d /\ j - d + 1 = u
        BY <1>3, <2>1, <2>3, <3>1
      <3> QED BY <1>2, <1>4, <1>7, <3>2
    <2> QED BY <1>3, <1>7, <2>1, <2>2, <2>3
  <1>8. Has(p, v)' <=> \E j \in Slots(p)' : K[j] = v
    BY <1>5 DEF Has
  <1> QED BY <1>6, <1>7, <1>8

\* What becomes of the keys of a page.
Gains(p, k) == \A v : Has(p, v)' <=> Has(p, v) \/ v = k
Loses(s, m) == \A v : Has(s, v) <=> Has(s, v)' \/ v = m
Swaps(q, h, m) ==
    /\ l_pos'[q] = l_pos[q] /\ r_pos'[q] = r_pos[q] /\ key'[q] = [key[q] EXCEPT ![h] = m]

\* A key goes round: k from the parent q to page p, and m from page s to q.
LEMMA KeyGoesRound ==
    ASSUME TypeOK, NEW p \in Live, NEW q \in Live, NEW s \in Live, p # q, s # q, p # s,
           Live' = Live, NEW T, T = {p, q, s}, ArraysStay(T),
           job.do = "shrink", job' = Idle,
           NEW h \in Slots(q), NEW k, k = key[q][h], NEW m,
           Swaps(q, h, m), Gains(p, k), Loses(s, m)
    PROVE  Contents' = Contents
  <1>1. Slots(q)' = Slots(q)
    BY DEF Slots, Swaps
  <1>2. key[q] \in [Slots(q) -> Key]
    BY LiveIsPage DEF TypeOK, Slots
  <1>3. \A u \in Slots(q) : key'[q][u] = IF u = h THEN m ELSE key[q][u]
    BY <1>2 DEF Swaps
  <1>4. /\ \A v : Has(q, v) <=> v = k \/ \E u \in Slots(q) : u # h /\ key[q][u] = v
        /\ \A v : Has(q, v)' <=> \E u \in Slots(q) : key'[q][u] = v
    BY <1>1 DEF Has
  <1>5. \A v : Has(q, v)' <=> v = m \/ \E u \in Slots(q) : u # h /\ key[q][u] = v
    BY <1>3, <1>4
  <1>6. ASSUME NEW v PROVE v \in Contents' <=> v \in Contents
    <2>1. ~Waiting(v) /\ ~Waiting(v)'
      BY DEF Waiting, Idle
    <2>2. /\ v \in Contents <=> (\E x \in Live \ T : Has(x, v)) \/ (\E x \in Live \cap T : Has(x, v))
          /\ v \in Contents' <=> (\E x \in Live \ T : Has(x, v)) \/ (\E x \in Live' \cap T : Has(x, v)')
      BY <2>1, ContentsFrame
    <2>3. /\ (\E x \in Live \cap T : Has(x, v)) <=> Has(p, v) \/ Has(q, v) \/ Has(s, v)
          /\ (\E x \in Live' \cap T : Has(x, v)') <=> Has(p, v)' \/ Has(q, v)' \/ Has(s, v)'
      OBVIOUS
    <2> QED BY <1>4, <1>5, <2>2, <2>3 DEF Gains, Loses
  <1> QED BY <1>6

\* Page a takes in k and the keys of b; k is the only key of q.
JoinsIn(a, b, k) == \A v : Has(a, v)' <=> Has(a, v) \/ Has(b, v) \/ v = k
OnlyHas(q, k) == \A v : Has(q, v) <=> v = k

\* Page a takes in the key k of its parent q and the keys of its sibling b,
\* which goes; so does the parent when k was its only key.
LEMMA KeysTakenIn ==
    ASSUME TypeOK, NEW a \in Live, NEW q \in Live, NEW b \in Live, a # q, b # q, a # b,
           NEW last \in BOOLEAN, Live' = (IF last THEN Live \ {b, q} ELSE Live \ {b}),
           NEW T, T = {a, b, q}, ArraysStay(T),
           job.do = "shrink", job'.do # "insert_internal",
           NEW k, JoinsIn(a, b, k), last => OnlyHas(q, k), ~last => Loses(q, k)
    PROVE  Contents' = Contents
  <1>1. ASSUME NEW v PROVE v \in Contents' <=> v \in Contents
    <2>1. ~Waiting(v) /\ ~Waiting(v)' /\ Live' \ T = Live \ T
      BY DEF Waiting
    <2>2. /\ v \in Contents <=> (\E x \in Live \ T : Has(x, v)) \/ (\E x \in Live \cap T : Has(x, v))
          /\ v \in Contents' <=> (\E x \in Live \ T : Has(x, v)) \/ (\E x \in Live' \cap T : Has(x, v)')
      BY <2>1, ContentsFrame
    <2>3. (\E x \in Live \cap T : Has(x, v)) <=> Has(a, v) \/ Has(b, v) \/ Has(q, v)
      OBVIOUS
    <2>4. CASE last
      <3>1. Live' \cap T = {a}
        BY <2>4
      <3>2. (\E x \in Live' \cap T : Has(x, v)') <=> Has(a, v)'
        BY <3>1
      <3> QED BY <2>2, <2>3, <2>4, <3>2 DEF JoinsIn, OnlyHas
    <2>5. CASE ~last
      <3>1. Live' \cap T = {a, q}
        BY <2>5
      <3>2. (\E x \in Live' \cap T : Has(x, v)') <=> Has(a, v)' \/ Has(q, v)'
        BY <3>1
      <3> QED BY <2>2, <2>3, <2>5, <3>2 DEF JoinsIn, Loses
    <2> QED BY <2>4, <2>5
  <1> QED BY <1>1

-------------------------------------------------------------------------------
(* Borrowing from the right sibling.                                       *)

\* The half of RShrink in which the sibling lends a key.
RBorrow ==
    \E p, q, h, s : /\ p = job.page /\ q = parent_index[p] /\ h = parent_pos[p] /\ s = kid[q][h + 1]
                    /\ r_pos[q] # h /\ CanLend(s) /\ BorrowRight(p, q, h, s)

\* The page that borrows sits at position h of its parent.
LEMMA ShrinkPage ==
    ASSUME NEW lo, NEW hi, NEW lv, TypeOK, Good(lo, hi, lv), job.do = "shrink"
    PROVE  \E p, q \in Live, h \in Int :
              /\ p = job.page /\ p \in dirty /\ size(p) = INDEXMINR - 1 /\ parent_index[p] # 0
              /\ q = parent_index[p] /\ h = parent_pos[p]
              /\ h \in Positions(q) /\ kid[q][h] = p /\ lv[q] > 0 /\ p # q /\ size(q) > 0
              /\ l_pos[q] < r_pos[q]
  <1>1. PICK p \in Live : /\ job = [do |-> "shrink", page |-> p]
                          /\ p \in dirty
                          /\ size(p) = INDEXMINR - 1 /\ parent_index[p] # 0
    BY ShrinkJob DEF Good
  <1>2. UpAt(p)
    BY PageByPage
  <1>3. PICK q \in Live : /\ q = parent_index[p] /\ parent_pos[p] \in Positions(q) /\ kid[q][parent_pos[p]] = p
    BY <1>1, <1>2 DEF UpAt
  <1>4. parent_pos[p] \in Int
    BY <1>3, LiveTyped DEF Positions
  <1>5. p # 0 /\ DownAt(q, lo, hi, lv) /\ lv[q] \in Nat /\ SizeAt(q, lv)
    BY PageByPage, LiveIsPage
  <1>6. lv[q] > 0 /\ lv[p] = lv[q] - 1
    BY <1>3, <1>5 DEF DownAt
  <1>7. p # q
    BY <1>5, <1>6
  <1>8. size(q) > 0
    BY <1>1, <1>5, <1>6, <1>7 DEF SizeAt
  <1>9. l_pos[q] < r_pos[q]
    BY <1>8, LiveTyped DEF size
  <1> QED BY <1>1, <1>3, <1>4, <1>6, <1>7, <1>8, <1>9

\* The keys of a page are within the bounds of no page below it.
LEMMA KeysOutside ==
    ASSUME NEW lo, NEW hi, NEW lv, TypeOK, Good(lo, hi, lv), job.do = "shrink",
           NEW x \in Live, NEW n \in Int, n <= lv[x], NEW i \in Slots(x), NEW v, v = key[x][i]
    PROVE  OutsideBelow(v, n, lo, hi, lv)
  <1>1. SUFFICES ASSUME NEW y \in Live, lv[y] < n
                 PROVE  Outside(key[x][i], lo, hi, y)
    BY DEF OutsideBelow
  <1>2. lv[x] \in Int /\ lv[y] \in Int
    BY PageByPage
  <1>3. lv[x] > lv[y] /\ x # y
    BY <1>1, <1>2
  <1> QED BY <1>3 DEF Good, Apart

\* Where a page with a parent is linked.
LEMMA ChildSeat ==
    ASSUME NEW lo, NEW hi, NEW lv, TypeOK, Good(lo, hi, lv), job.do = "shrink",
           NEW x \in Live, NEW q \in Live, parent_index[x] = q
    PROVE  /\ parent_pos[x] \in Positions(q) /\ kid[q][parent_pos[x]] = x /\ parent_pos[x] \in Int
           /\ lv[q] > 0 /\ lv[q] = lv[x] + 1
  <1>1. UpAt(x) /\ q # 0
    BY PageByPage, LiveIsPage
  <1>2. parent_pos[x] \in Positions(q) /\ kid[q][parent_pos[x]] = x
    BY <1>1 DEF UpAt
  <1>3. parent_pos[x] \in Int
    BY <1>2, LiveTyped DEF Positions
  <1>4. DownAt(q, lo, hi, lv) /\ lv[q] \in Nat /\ lv[x] \in Nat /\ x # 0
    BY PageByPage, LiveIsPage
  <1>5. lv[q] > 0 /\ lv[x] = lv[q] - 1
    BY <1>2, <1>4 DEF DownAt
  <1> QED BY <1>2, <1>3, <1>4, <1>5

\* Borrowing from the right sibling keeps the invariant and the keys.
LEMMA BorrowRightKeeps ==
    ASSUME NEW lo, NEW hi, NEW lv, TypeOK, FreeOK, Good(lo, hi, lv), job.do = "shrink", RBorrow
    PROVE  /\ TypeOK' /\ FreeOK' /\ \E lo2, hi2 : Good(lo2, hi2, lv)'
           /\ Contents' = Contents /\ answer' = answer
  <1>1. PICK p, q \in Live, h \in Int :
              /\ p = job.page /\ p \in dirty /\ size(p) = INDEXMINR - 1 /\ parent_index[p] # 0
              /\ q = parent_index[p] /\ h = parent_pos[p]
              /\ h \in Positions(q) /\ kid[q][h] = p /\ lv[q] > 0 /\ p # q /\ size(q) > 0
              /\ l_pos[q] < r_pos[q]
    BY ShrinkPage
  <1>2. PICK g \in Int : g = h + 1
    OBVIOUS
  <1>3. h \in Slots(q)
    <2>1. r_pos[q] # h
      BY <1>1 DEF RBorrow
    <2> QED BY <1>1, <2>1, LiveTyped DEF Slots, Positions
  <1>4. PICK s \in Live :
              /\ s = kid[q][g]
              /\ p # s /\ s # q /\ p # root /\ s # root
              /\ parent_index[s] = q /\ parent_pos[s] = g
              /\ h \in Positions(q) /\ g \in Positions(q)
              /\ lv[p] = lv[s] /\ lv[q] = lv[p] + 1
              /\ hi[p] = key[q][h] /\ lo[s] = key[q][h]
              /\ lo[p] = LoAt(lo, q, h) /\ hi[s] = HiAt(hi, q, g)
    BY <1>1, <1>2, <1>3, Siblings
  <1>5. CanLend(s) /\ BorrowRight(p, q, h, s)
    <2>1. PICK x, w, u, y : /\ x = job.page /\ w = parent_index[x] /\ u = parent_pos[x] /\ y = kid[w][u + 1]
                            /\ CanLend(y) /\ BorrowRight(x, w, u, y)
      BY DEF RBorrow
    <2>2. x = p /\ w = q
      BY <1>1, <2>1
    <2>3. u = h
      BY <1>1, <1>2, <2>1, <2>2
    <2>4. y = s
      BY <1>2, <1>4, <2>1, <2>2, <2>3
    <2> QED BY <2>1, <2>2, <2>3, <2>4
  <1>6. Live \subseteq Page /\ 0 \notin Live /\ p \in Page /\ q \in Page /\ s \in Page
    BY LiveIsPage
  <1>7. PICK l, r, ls, rs \in Int : /\ l = l_pos[p] /\ r = r_pos[p] /\ ls = l_pos[s] /\ rs = r_pos[s]
                                    /\ 0 <= l /\ l <= r /\ r <= INDEXCOUNT /\ r - l = INDEXMINR - 1
                                    /\ 0 <= ls /\ rs <= INDEXCOUNT /\ rs - ls > INDEXMINR /\ ls <= rs
    <2>1. /\ l_pos[p] \in Nat /\ r_pos[p] \in Nat /\ l_pos[p] <= r_pos[p] /\ r_pos[p] <= INDEXCOUNT
          /\ l_pos[s] \in Nat /\ r_pos[s] \in Nat /\ l_pos[s] <= r_pos[s] /\ r_pos[s] <= INDEXCOUNT
      BY LiveTyped
    <2> QED BY <1>1, <1>5, <2>1 DEF size, CanLend
  <1>8. /\ INDEXCOUNT \in Int /\ INDEXMINR \in Int /\ 1 <= INDEXMINR /\ INDEXSLIPL \in Int /\ 0 <= INDEXSLIPL
        /\ INDEXSLIPL + INDEXMINR <= INDEXCOUNT /\ 2 * INDEXMINR + 1 <= INDEXCOUNT
    BY Sizes
  <1>9. PICK d \in Int : d = IF r = INDEXCOUNT THEN INDEXSLIPL - l ELSE 0
    BY <1>7, <1>8
  <1>10. /\ (IF r = INDEXCOUNT THEN INDEXSLIPL + INDEXMINR - 1 ELSE r) = r + d
         /\ 0 <= l + d /\ r + d + 1 <= INDEXCOUNT /\ l + d <= r + d
         /\ r + d \in Int /\ l + d \in Int /\ (r # INDEXCOUNT => d = 0)
    <2>1. CASE r = INDEXCOUNT
      BY <1>7, <1>8, <1>9, <2>1
    <2>2. CASE r # INDEXCOUNT
      BY <1>7, <1>8, <1>9, <2>2
    <2> QED BY <2>1, <2>2
  <1>11. PICK e \in Int : e = r + d
    BY <1>10
  <1>12. PICK n \in Int : n = l + d
    BY <1>10
  <1>13. PICK m, k, c0 : m = key[s][ls] /\ k = key[q][h] /\ c0 = kid[s][ls]
    OBVIOUS
  <1>14. PICK K : K = [j \in n..e |-> IF j < e THEN key[p][j - d] ELSE k]
    OBVIOUS
  <1>15. PICK L : L = [j \in n..(e + 1) |-> IF j <= e THEN kid[p][j - d] ELSE c0]
    OBVIOUS
  <1>16. PICK KS : KS = Moved(key[s], (ls + 1)..(rs - 1), 0)
    OBVIOUS
  <1>17. PICK LS : LS = Moved(kid[s], (ls + 1)..rs, 0)
    OBVIOUS
  <1>18. PICK C : C = IF r = INDEXCOUNT THEN Kids(p, Positions(p)) ELSE {}
    OBVIOUS
  <1>19. /\ l_pos' = [l_pos EXCEPT ![p] = n, ![s] = ls + 1]
         /\ r_pos' = [r_pos EXCEPT ![p] = e + 1]
         /\ key' = [key EXCEPT ![p] = K, ![q] = [@ EXCEPT ![h] = m], ![s] = KS]
         /\ kid' = [kid EXCEPT ![p] = L, ![s] = LS]
         /\ parent_index' = [x \in Page |-> IF x = c0 THEN p ELSE parent_index[x]]
         /\ parent_pos' = [x \in Page |->
              IF x = c0 THEN e + 1 ELSE IF x \in C THEN PosOf(p, x) + d ELSE parent_pos[x]]
         /\ dirty' = dirty \cup {q, s} \cup C \cup ({c0} \ {0})
         /\ job' = Idle /\ root' = root /\ max' = max /\ free' = free /\ answer' = answer
    <2>1. /\ (IF r_pos[p] = INDEXCOUNT THEN INDEXSLIPL - l_pos[p] ELSE 0) = d
          /\ (IF r_pos[p] = INDEXCOUNT THEN INDEXSLIPL + INDEXMINR - 1 ELSE r_pos[p]) = e
          /\ (IF r_pos[p] = INDEXCOUNT THEN Kids(p, l_pos[p]..r_pos[p]) ELSE {}) = C
          /\ l_pos[p] + d = n /\ l_pos[s] = ls /\ r_pos[s] = rs
      BY <1>7, <1>9, <1>10, <1>11, <1>12, <1>18 DEF Positions
    <2>2. /\ l_pos' = [l_pos EXCEPT ![p] = @ + d, ![s] = @ + 1]
          /\ r_pos' = [r_pos EXCEPT ![p] = e + 1]
          /\ key' = [key EXCEPT
              ![p] = [j \in n..e |-> IF j < e THEN key[p][j - d] ELSE key[q][h]],
              ![q] = [@ EXCEPT ![h] = key[s][l_pos[s]]],
              ![s] = Moved(@, (l_pos[s] + 1)..(r_pos[s] - 1), 0)]
          /\ kid' = [kid EXCEPT
              ![p] = [j \in n..(e + 1) |-> IF j <= e THEN kid[p][j - d] ELSE kid[s][l_pos[s]]],
              ![s] = Moved(@, (l_pos[s] + 1)..r_pos[s], 0)]
          /\ parent_index' = [x \in Page |-> IF x = kid[s][l_pos[s]] THEN p ELSE parent_index[x]]
          /\ parent_pos' = [x \in Page |->
              IF x = kid[s][l_pos[s]] THEN e + 1
              ELSE IF x \in C THEN PosOf(p, x) + d ELSE parent_pos[x]]
          /\ dirty' = dirty \cup {q, s} \cup C \cup ({kid[s][l_pos[s]]} \ {0})
          /\ job' = Idle /\ UNCHANGED <<pages, answer>>
      BY <1>5, <2>1 DEF BorrowRight
    <2>3. l_pos' = [l_pos EXCEPT ![p] = n, ![s] = ls + 1]
      BY <1>4, <1>6, <2>1, <2>2 DEF TypeOK
    <2>4. key' = [key EXCEPT ![p] = K, ![q] = [@ EXCEPT ![h] = m], ![s] = KS]
      <3>1. key' = [key EXCEPT ![p] = K, ![q] = [@ EXCEPT ![h] = m],
                               ![s] = Moved(@, (ls + 1)..(rs - 1), 0)]
        BY <1>13, <1>14, <2>1, <2>2
      <3>2. q # p /\ q # s /\ p # s /\ DOMAIN key = Page
        BY <1>1, <1>4 DEF TypeOK
      <3> QED BY <1>6, <1>16, <3>1, <3>2
    <2>5. kid' = [kid EXCEPT ![p] = L, ![s] = LS]
      BY <1>4, <1>6, <1>13, <1>15, <1>17, <2>1, <2>2 DEF TypeOK
    <2> QED BY <1>13, <2>1, <2>2, <2>3, <2>4, <2>5 DEF pages
  <1>20. /\ l_pos'[p] = n /\ l_pos'[s] = ls + 1 /\ l_pos'[q] = l_pos[q]
         /\ r_pos'[p] = e + 1 /\ r_pos'[s] = rs /\ r_pos'[q] = r_pos[q]
    BY <1>1, <1>4, <1>6, <1>7, <1>19 DEF TypeOK
  <1>21. /\ key'[p] = K /\ key'[s] = KS /\ key'[q] = [key[q] EXCEPT ![h] = m]
         /\ kid'[p] = L /\ kid'[s] = LS /\ kid'[q] = kid[q]
    BY <1>1, <1>4, <1>6, <1>19 DEF TypeOK
  <1>22. ArraysStay({p, s, q})
    BY <1>19 DEF ArraysStay, TypeOK
  <1>23. /\ Slots(p)' = n..e /\ Positions(p)' = n..(e + 1)
         /\ Slots(s)' = (ls + 1)..(rs - 1) /\ Positions(s)' = (ls + 1)..rs
         /\ Slots(p) = l..(r - 1) /\ Positions(p) = l..r
         /\ Slots(s) = ls..(rs - 1) /\ Positions(s) = ls..rs
    <2>1. (e + 1) - 1 = e
      BY <1>11
    <2> QED BY <1>7, <1>20, <2>1 DEF Slots, Positions
  <1>24. /\ n <= e /\ e + 1 <= INDEXCOUNT /\ 0 <= n /\ e - n = INDEXMINR - 1
         /\ ls < rs - 1 /\ ls + 1 \in Int /\ rs - 1 \in Int /\ e + 1 \in Int
    BY <1>7, <1>8, <1>10, <1>11, <1>12
  <1>25. ASSUME NEW j \in n..e
         PROVE  /\ j \in Int /\ j - d \in Int
                /\ j # e => j < e /\ j - d \in Slots(p) /\ K[j] = key[p][j - d]
                /\ j = e => K[j] = k
                /\ j - d \in Positions(p) /\ L[j] = kid[p][j - d]
    <2>1. j \in Int /\ n <= j /\ j <= e /\ j - d \in Int /\ j <= e + 1
      BY <1>11, <1>12, <1>24
    <2>2. j - d >= l /\ j - d <= r /\ (j # e => j < e /\ j - d <= r - 1)
      BY <1>7, <1>11, <1>12, <2>1
    <2>3. j \in n..(e + 1)
      BY <1>24, <2>1
    <2>4. j - d \in Positions(p) /\ (j # e => j - d \in Slots(p))
      BY <1>7, <1>23, <2>1, <2>2
    <2>5. K[j] = IF j < e THEN key[p][j - d] ELSE k
      BY <1>14
    <2>6. L[j] = kid[p][j - d]
      BY <1>15, <2>1, <2>3
    <2> QED BY <2>1, <2>2, <2>4, <2>5, <2>6
  <1>26. L[e + 1] = c0 /\ K[e] = k /\ e \in n..e /\ e + 1 \in n..(e + 1)
    <2>1. e \in n..e /\ e + 1 \in n..(e + 1) /\ ~(e + 1 <= e)
      BY <1>11, <1>12, <1>24
    <2> QED BY <1>14, <1>15, <2>1
  <1>27. /\ \A j \in (ls + 1)..(rs - 1) : j \in Slots(s) /\ KS[j] = key[s][j]
         /\ \A j \in (ls + 1)..rs : j \in Positions(s) /\ LS[j] = kid[s][j]
         /\ KS = [j \in (ls + 1)..(rs - 1) |-> key[s][j]]
         /\ LS = [j \in (ls + 1)..rs |-> kid[s][j]]
    <2>1. \A a, b \in Int : {i + 0 : i \in a..b} = a..b
      OBVIOUS
    <2>2. /\ {i + 0 : i \in (ls + 1)..(rs - 1)} = (ls + 1)..(rs - 1)
          /\ {i + 0 : i \in (ls + 1)..rs} = (ls + 1)..rs
      BY <1>24, <2>1
    <2>3. \A j \in Int : j - 0 = j
      OBVIOUS
    <2>4. KS = [j \in (ls + 1)..(rs - 1) |-> key[s][j]]
      BY <1>16, <2>2, <2>3 DEF Moved
    <2>5. LS = [j \in (ls + 1)..rs |-> kid[s][j]]
      BY <1>17, <2>2, <2>3 DEF Moved
    <2>6. /\ \A j \in (ls + 1)..(rs - 1) : j \in ls..(rs - 1)
          /\ \A j \in (ls + 1)..rs : j \in ls..rs
      BY <1>7
    <2> QED BY <1>23, <2>4, <2>5, <2>6
  <1>28. /\ \A x \in Live : lo[x] \in Int /\ hi[x] \in Int /\ lv[x] \in Nat
         /\ KeysAt(p, lo, hi) /\ KeysAt(s, lo, hi) /\ DownAt(p, lo, hi, lv) /\ DownAt(s, lo, hi, lv)
         /\ \A j \in Slots(p) : key[p][j] \in Key
         /\ \A j \in Slots(s) : key[s][j] \in Key
         /\ lv[p] = 0 \/ lv[p] > 0
    BY PageByPage
  <1>29. /\ ls \in Slots(s) /\ ls \in Positions(s) /\ ls # rs
         /\ m \in Key /\ m \in Int /\ k \in Key /\ k \in Int
    <2>1. ls \in Slots(s) /\ ls \in Positions(s) /\ ls # rs
      BY <1>7, <1>23, <1>24, SMTT(30)
    <2>2. key[q][h] \in Key
      BY <1>3, PageByPage
    <2> QED BY <1>13, <1>28, <2>1, <2>2, KeyAssumption DEF Key
  <1>30. /\ lo[p] < k /\ k < m /\ m < hi[s] /\ lo[s] = k /\ hi[p] = k
    BY <1>4, <1>13, <1>28, <1>29 DEF KeysAt
  <1>31. Live' = Live
    BY <1>19 DEF Live, Free
  <1>32. /\ lv[p] = 0 => c0 = 0
         /\ lv[p] > 0 => /\ c0 \in Live /\ parent_index[c0] = s /\ parent_pos[c0] = ls
                         /\ lv[c0] = lv[p] - 1 /\ lo[c0] = k /\ hi[c0] = m
    <2>1. LoAt(lo, s, ls) = k /\ HiAt(hi, s, ls) = m
      BY <1>7, <1>13, <1>29, <1>30 DEF LoAt, HiAt
    <2> QED BY <1>4, <1>13, <1>28, <1>29, <2>1, SMTT(30) DEF DownAt
  <1>33. c0 # p /\ c0 # s /\ c0 # q
    <2>1. lv[p] > 0 => c0 # p /\ c0 # s /\ c0 # q
      BY <1>4, <1>28, <1>32
    <2> QED BY <1>6, <1>28, <1>32, <2>1
  <1>34. \A x \in Live : parent_index[x] = p => parent_pos'[x] = parent_pos[x] + d /\ x # c0
    <2>1. SUFFICES ASSUME NEW x \in Live, parent_index[x] = p
                   PROVE  parent_pos'[x] = parent_pos[x] + d /\ x # c0
      OBVIOUS
    <2>2. x # c0
      <3>1. lv[p] > 0
        BY <2>1, ChildSeat
      <3> QED BY <1>4, <1>32, <2>1, <3>1
    <2>3. parent_pos[x] \in Positions(p) /\ parent_pos[x] \in Int
      BY <2>1, ChildSeat
    <2>4. CASE r = INDEXCOUNT
      <3>1. p \notin Fresh
        BY DEF Fresh
      <3>2. x \in C /\ PosOf(p, x) = parent_pos[x]
        BY <1>18, <2>1, <2>3, <2>4, <3>1, KidsAre
      <3> QED BY <1>6, <1>19, <2>2, <3>2
    <2>5. CASE r # INDEXCOUNT
      <3>1. d = 0 /\ C = {}
        BY <1>10, <1>18, <2>5
      <3> QED BY <1>6, <1>19, <2>2, <2>3, <3>1
    <2> QED BY <2>2, <2>4, <2>5
  <1>35. \A x \in C : x \in Live /\ parent_index[x] = p
    <2>1. p \notin Fresh
      BY DEF Fresh
    <2>2. CASE r = INDEXCOUNT
      BY <1>18, <2>1, <2>2, KidsAre
    <2> QED BY <1>18, <2>2
  <1>36. /\ \A x \in Live : parent_index'[x] = IF x = c0 THEN p ELSE parent_index[x]
         /\ \A x \in Live : parent_index[x] # p /\ x # c0 => parent_pos'[x] = parent_pos[x]
         /\ c0 \in Live => parent_pos'[c0] = e + 1
    BY <1>6, <1>19, <1>35
  <1>37. ParentsStay({p, s})
    <2>1. ASSUME NEW x \in Live, parent_index[x] \notin {p, s}
          PROVE  parent_index'[x] = parent_index[x] /\ parent_pos'[x] = parent_pos[x]
      <3>1. x # c0
        BY <1>6, <1>28, <1>32, <2>1
      <3> QED BY <1>36, <2>1, <3>1
    <2> QED BY <2>1 DEF ParentsStay
  <1>38. PICK lo2 : lo2 = [x \in Page |-> IF x = s THEN m ELSE lo[x]]
    OBVIOUS
  <1>39. PICK hi2 : hi2 = [x \in Page |-> IF x = p THEN m ELSE hi[x]]
    OBVIOUS
  <1>40. /\ lo2[p] = lo[p] /\ hi2[p] = m /\ lo2[s] = m /\ hi2[s] = hi[s]
         /\ \A x \in Live : x \notin {p, s} => lo2[x] = lo[x] /\ hi2[x] = hi[x]
    BY <1>4, <1>6, <1>38, <1>39
  <1>41. KeysAt(p, lo2, hi2)'
    <2>1. ASSUME NEW j \in n..e
          PROVE  lo[p] < K[j] /\ K[j] < m /\ K[j] \in Int
      <3>1. CASE j = e
        BY <1>26, <1>28, <1>29, <1>30, <3>1
      <3>2. CASE j # e
        <4>1. PICK u \in Slots(p) : K[j] = key[p][u]
          BY <1>25, <3>2
        <4>2. lo[p] < key[p][u] /\ key[p][u] < k /\ key[p][u] \in Int
          BY <1>28, <1>30, <4>1, KeyAssumption DEF KeysAt, Key
        <4> QED BY <1>29, <1>30, <4>1, <4>2
      <3> QED BY <3>1, <3>2
    <2>2. ASSUME NEW i \in n..e, NEW j \in n..e, i < j
          PROVE  K[i] < K[j]
      <3>1. PICK u \in Int : u = i - d
        BY <1>25
      <3>2. i # e /\ u \in Slots(p) /\ K[i] = key[p][u]
        BY <1>24, <1>25, <2>2, <3>1
      <3>3. CASE j = e
        BY <1>26, <1>28, <1>30, <3>2, <3>3 DEF KeysAt
      <3>4. CASE j # e
        <4>1. PICK v \in Int : v = j - d
          BY <1>25
        <4>2. v \in Slots(p) /\ K[j] = key[p][v]
          BY <1>25, <3>4, <4>1
        <4>3. u < v
          BY <1>9, <1>25, <2>2, <3>1, <4>1
        <4> QED BY <1>28, <3>2, <4>2, <4>3 DEF KeysAt
      <3> QED BY <3>3, <3>4
    <2>3. lo[p] < m
      BY <1>28, <1>29, <1>30
    <2> QED BY <1>21, <1>23, <1>40, <2>1, <2>2, <2>3 DEF KeysAt
  <1>42. KeysAt(s, lo2, hi2)'
    <2>1. ASSUME NEW j \in (ls + 1)..(rs - 1)
          PROVE  m < KS[j] /\ KS[j] < hi[s]
      <3>1. j \in Slots(s) /\ KS[j] = key[s][j]
        BY <1>27
      <3>2. ls < j
        BY <1>24
      <3> QED BY <1>13, <1>28, <1>29, <3>1, <3>2 DEF KeysAt
    <2>2. ASSUME NEW i \in (ls + 1)..(rs - 1), NEW j \in (ls + 1)..(rs - 1), i < j
          PROVE  KS[i] < KS[j]
      BY <1>27, <1>28, <2>2 DEF KeysAt
    <2> QED BY <1>21, <1>23, <1>30, <1>40, <2>1, <2>2 DEF KeysAt
  <1>43. DownAt(p, lo2, hi2, lv)'
    <2>1. ASSUME NEW i \in n..(e + 1), lv[p] = 0
          PROVE  L[i] = 0
      <3>1. CASE i = e + 1
        BY <1>26, <1>32, <2>1, <3>1
      <3>2. CASE i # e + 1
        <4>1. i \in n..e
          BY <1>24, <3>2
        <4> QED BY <1>25, <1>28, <2>1, <4>1 DEF DownAt
      <3> QED BY <3>1, <3>2
    <2>2. ASSUME NEW i \in n..(e + 1), lv[p] > 0
          PROVE  /\ L[i] \in Live /\ lv[L[i]] = lv[p] - 1
                 /\ parent_index'[L[i]] = p /\ parent_pos'[L[i]] = i
                 /\ lo2[L[i]] = LoAt(lo2, p, i)' /\ hi2[L[i]] = HiAt(hi2, p, i)'
      <3>1. CASE i = e + 1
        <4>1. i # n /\ i - 1 = e
          BY <1>24, <3>1
        <4>2. LoAt(lo2, p, i)' = k /\ HiAt(hi2, p, i)' = m
          BY <1>20, <1>21, <1>26, <1>40, <3>1, <4>1 DEF LoAt, HiAt
        <4>3. L[i] = c0 /\ lo2[c0] = k /\ hi2[c0] = m
          BY <1>26, <1>32, <1>33, <1>40, <2>2, <3>1
        <4> QED BY <1>32, <1>36, <2>2, <3>1, <4>2, <4>3
      <3>2. CASE i # e + 1
        <4>1. i \in n..e
          BY <1>24, <3>2
        <4>2. PICK u \in Int : u = i - d
          BY <1>25, <4>1
        <4>3. u \in Positions(p) /\ L[i] = kid[p][u]
          BY <1>25, <4>1, <4>2
        <4>4. PICK c \in Live : /\ c = kid[p][u] /\ lv[c] = lv[p] - 1
                                /\ parent_index[c] = p /\ parent_pos[c] = u
                                /\ lo[c] = LoAt(lo, p, u) /\ hi[c] = HiAt(hi, p, u)
          BY <1>28, <2>2, <4>3 DEF DownAt
        <4>5. c \notin {p, s} /\ c # c0
          BY <1>4, <1>28, <1>34, <4>4
        <4>6. parent_index'[c] = p /\ parent_pos'[c] = i
          <5>1. u + d = i
            BY <1>9, <1>25, <4>1, <4>2
          <5> QED BY <1>34, <1>36, <4>4, <4>5, <5>1
        <4>7. LoAt(lo, p, u) = LoAt(lo2, p, i)'
          <5>1. CASE i = n
            <6>1. u = l
              BY <1>12, <1>7, <1>9, <4>2, <5>1
            <6> QED BY <1>7, <1>20, <1>40, <5>1, <6>1 DEF LoAt
          <5>2. CASE i # n
            <6>1. PICK w \in Int : w = i - 1
              BY <1>25, <4>1
            <6>2. w \in n..e /\ w # e
              BY <1>24, <4>1, <5>2, <6>1
            <6>3. w - d = u - 1 /\ u # l
              <7>1. i \in Int
                BY <1>25, <4>1
              <7> QED BY <1>7, <1>9, <1>12, <4>2, <5>2, <6>1, <7>1
            <6>4. K[w] = key[p][u - 1]
              BY <1>25, <6>2, <6>3
            <6> QED BY <1>7, <1>20, <1>21, <5>2, <6>1, <6>3, <6>4 DEF LoAt
          <5> QED BY <5>1, <5>2
        <4>8. HiAt(hi, p, u) = HiAt(hi2, p, i)'
          <5>1. CASE i = e
            <6>1. u = r
              BY <1>11, <1>7, <1>9, <4>2, <5>1
            <6> QED BY <1>7, <1>20, <1>21, <1>26, <1>30, <3>2, <5>1, <6>1 DEF HiAt
          <5>2. CASE i # e
            <6>1. u # r
              BY <1>11, <1>7, <1>9, <1>25, <4>1, <4>2, <5>2
            <6>2. K[i] = key[p][u]
              BY <1>25, <4>1, <4>2, <5>2
            <6> QED BY <1>7, <1>20, <1>21, <3>2, <6>1, <6>2 DEF HiAt
          <5> QED BY <5>1, <5>2
        <4> QED BY <1>40, <4>3, <4>4, <4>5, <4>6, <4>7, <4>8
      <3> QED BY <3>1, <3>2
    <2>3. \A i \in n..(e + 1) : lv[p] = 0 => L[i] = 0
      BY <2>1
    <2> QED BY <1>21, <1>23, <1>31, <2>2, <2>3 DEF DownAt
  <1>44. DownAt(s, lo2, hi2, lv)'
    <2>1. ASSUME NEW i \in (ls + 1)..rs, lv[s] = 0
          PROVE  LS[i] = 0
      BY <1>27, <1>28, <2>1 DEF DownAt
    <2>2. ASSUME NEW i \in (ls + 1)..rs, lv[s] > 0
          PROVE  /\ LS[i] \in Live /\ lv[LS[i]] = lv[s] - 1
                 /\ parent_index'[LS[i]] = s /\ parent_pos'[LS[i]] = i
                 /\ lo2[LS[i]] = LoAt(lo2, s, i)' /\ hi2[LS[i]] = HiAt(hi2, s, i)'
      <3>1. i \in Positions(s) /\ LS[i] = kid[s][i]
        BY <1>27
      <3>2. PICK c \in Live : /\ c = kid[s][i] /\ lv[c] = lv[s] - 1
                              /\ parent_index[c] = s /\ parent_pos[c] = i
                              /\ lo[c] = LoAt(lo, s, i) /\ hi[c] = HiAt(hi, s, i)
        BY <1>28, <2>2, <3>1 DEF DownAt
      <3>3. i \in Int /\ i # ls /\ i - 1 \in Int
        BY <1>24
      <3>4. c \notin {p, s} /\ c # c0
        BY <1>4, <1>28, <1>32, <2>2, <3>2, <3>3
      <3>5. parent_index'[c] = s /\ parent_pos'[c] = i
        BY <1>4, <1>36, <3>2, <3>4
      <3>6. LoAt(lo, s, i) = LoAt(lo2, s, i)'
        <4>1. CASE i = ls + 1
          <5>1. i - 1 = ls
            BY <1>24, <4>1
          <5> QED BY <1>7, <1>13, <1>20, <1>40, <3>3, <4>1, <5>1 DEF LoAt
        <4>2. CASE i # ls + 1
          <5>1. i - 1 \in (ls + 1)..(rs - 1)
            BY <1>24, <4>2
          <5>2. KS[i - 1] = key[s][i - 1]
            BY <1>27, <5>1
          <5> QED BY <1>7, <1>20, <1>21, <3>3, <4>2, <5>2 DEF LoAt
        <4> QED BY <4>1, <4>2
      <3>7. HiAt(hi, s, i) = HiAt(hi2, s, i)'
        <4>1. CASE i = rs
          BY <1>7, <1>20, <1>40, <4>1 DEF HiAt
        <4>2. CASE i # rs
          <5>1. i \in (ls + 1)..(rs - 1)
            BY <1>24, <4>2
          <5> QED BY <1>7, <1>20, <1>21, <1>27, <4>2, <5>1 DEF HiAt
        <4> QED BY <4>1, <4>2
      <3> QED BY <1>40, <3>1, <3>2, <3>4, <3>5, <3>6, <3>7
    <2>3. \A i \in (ls + 1)..rs : lv[s] = 0 => LS[i] = 0
      BY <2>1
    <2> QED BY <1>21, <1>23, <1>31, <2>2, <2>3 DEF DownAt
  <1>45. SizeAt(p, lv)' /\ SizeAt(s, lv)'
    <2>1. size(p)' = INDEXMINR /\ size(s)' = rs - ls - 1
      BY <1>7, <1>8, <1>20, <1>24 DEF size
    <2>2. /\ size(p)' < INDEXCOUNT /\ size(p)' >= INDEXMINR /\ size(p)' > 0
          /\ size(s)' < INDEXCOUNT /\ size(s)' >= INDEXMINR /\ size(s)' > 0
      BY <1>7, <1>8, <2>1
    <2> QED BY <2>2 DEF SizeAt
  <1>46. ASSUME NEW x \in Live, parent_index[x] \in {p, s}
         PROVE  UpAt(x)'
    <2>1. CASE x = c0
      <3>1. parent_index'[x] = p /\ parent_pos'[x] = e + 1 /\ p # 0 /\ p \in Live'
        BY <1>6, <1>31, <1>36, <2>1
      <3>2. e + 1 \in Positions(p)' /\ kid'[p][e + 1] = x
        BY <1>21, <1>23, <1>26, <2>1
      <3> QED BY <3>1, <3>2 DEF UpAt
    <2>2. CASE x # c0 /\ parent_index[x] = p
      <3>1. PICK u \in Int : u = parent_pos[x] /\ u \in Positions(p) /\ kid[p][u] = x
        BY <2>2, ChildSeat
      <3>2. PICK j \in Int : j = u + d
        BY <1>9
      <3>3. j \in n..e /\ j - d = u
        <4>1. u \in l..r
          BY <1>23, <3>1
        <4> QED BY <1>7, <1>9, <1>11, <1>12, <3>2, <4>1
      <3>4. L[j] = x /\ j \in n..(e + 1)
        BY <1>24, <1>25, <3>1, <3>3
      <3>5. parent_index'[x] = p /\ parent_pos'[x] = j /\ p # 0 /\ p \in Live'
        BY <1>6, <1>31, <1>34, <1>36, <2>2, <3>1, <3>2
      <3> QED BY <1>21, <1>23, <3>4, <3>5 DEF UpAt
    <2>3. CASE x # c0 /\ parent_index[x] = s
      <3>1. PICK u \in Int : u = parent_pos[x] /\ u \in Positions(s) /\ kid[s][u] = x
        BY <2>3, ChildSeat
      <3>2. u # ls
        BY <1>13, <2>3, <3>1
      <3>3. u \in (ls + 1)..rs
        BY <1>7, <1>23, <3>1, <3>2
      <3>4. LS[u] = x
        BY <1>27, <3>1, <3>3
      <3>5. parent_index'[x] = s /\ parent_pos'[x] = u /\ s # 0 /\ s \in Live'
        BY <1>4, <1>6, <1>31, <1>36, <2>3, <3>1
      <3> QED BY <1>21, <1>23, <3>3, <3>4, <3>5 DEF UpAt
    <2> QED BY <1>46, <2>1, <2>2, <2>3
  <1>47. ASSUME NEW i \in Slots(p)'
         PROVE  OutsideBelow(key'[p][i], lv[p], lo, hi, lv)
    <2>1. i \in n..e
      BY <1>23
    <2>2. CASE i = e
      <3>1. key'[p][i] = k /\ lv[p] \in Int /\ lv[p] <= lv[q]
        BY <1>4, <1>21, <1>26, <1>28, <2>2
      <3> QED BY <1>3, <1>13, <3>1, KeysOutside
    <2>3. CASE i # e
      <3>1. PICK u \in Slots(p) : key'[p][i] = key[p][u]
        BY <1>21, <1>25, <2>1, <2>3
      <3>2. lv[p] \in Int /\ lv[p] <= lv[p]
        BY <1>28
      <3> QED BY <3>1, <3>2, KeysOutside
    <2> QED BY <2>2, <2>3
  <1>48. ASSUME NEW i \in Slots(s)'
         PROVE  OutsideBelow(key'[s][i], lv[p], lo, hi, lv)
    <2>1. i \in Slots(s) /\ key'[s][i] = key[s][i]
      BY <1>21, <1>23, <1>27
    <2>2. lv[p] \in Int /\ lv[p] <= lv[s]
      BY <1>4, <1>28
    <2> QED BY <2>1, <2>2, KeysOutside
  <1>49. OutsideBelow(m, lv[p], lo, hi, lv)
    <2>1. lv[p] \in Int /\ lv[p] <= lv[s]
      BY <1>4, <1>28
    <2> QED BY <1>13, <1>29, <2>1, KeysOutside
  <1>50. Good(lo2, hi2, lv)'
    <2>1. lo[p] < m /\ m < hi[s] /\ lv[q] > 0
      BY <1>1, <1>28, <1>29, <1>30
    <2>2. RoundThrough(q, h, g, p, s, m)
      <3>1. p = kid[q][h] /\ s = kid[q][g] /\ job.page \in {p, s} /\ root' = root /\ job' = Idle
        BY <1>1, <1>4, <1>19
      <3> QED BY <1>2, <1>20, <1>21, <1>22, <1>37, <3>1 DEF RoundThrough
    <2>3. NewBounds(p, s, m, lo, hi, lo2, hi2)
      BY <1>38, <1>39 DEF NewBounds
    <2>4. \A i \in Slots(p)' : OutsideBelow(key'[p][i], lv[p], lo, hi, lv)
      BY <1>47
    <2>5. \A i \in Slots(s)' : OutsideBelow(key'[s][i], lv[p], lo, hi, lv)
      BY <1>48
    <2>6. \A x \in Live : parent_index[x] \in {p, s} => UpAt(x)'
      BY <1>46
    <2> QED BY <1>3, <1>29, <1>31, <1>41, <1>42, <1>43, <1>44, <1>45, <1>49,
               <2>1, <2>2, <2>4, <2>5, <2>6, <2>3, Borrowed
  <1>51. TypeOK'
    <2>1. TypedAt(p)'
      <3>1. \A j \in n..e : K[j] \in Key
        BY <1>25, <1>26, <1>28, <1>29
      <3>2. \A j \in n..(e + 1) : L[j] \in 0..max
        <4>1. \A j \in Positions(p) : kid[p][j] \in 0..max
          BY LiveTyped
        <4>2. c0 \in 0..max
          BY <1>13, <1>29, LiveTyped
        <4>3. \A j \in n..(e + 1) : j = e + 1 \/ j \in n..e
          BY <1>24
        <4> QED BY <1>25, <1>26, <4>1, <4>2, <4>3
      <3>3. K \in [n..e -> Key] /\ L \in [n..(e + 1) -> 0..max] /\ (e + 1) - 1 = e /\ n <= e + 1
        <4>1. K \in [n..e -> Key]
          BY <1>14, <3>1
        <4>2. L \in [n..(e + 1) -> 0..max]
          BY <1>15, <3>2
        <4> QED BY <1>24, <4>1, <4>2
      <3> QED BY <1>19, <1>20, <1>21, <3>3 DEF TypedAt
    <2>2. TypedAt(s)'
      <3>1. KS \in [(ls + 1)..(rs - 1) -> Key]
        BY <1>27, <1>28
      <3>2. LS \in [(ls + 1)..rs -> 0..max]
        BY <1>27, LiveTyped
      <3>3. ls + 1 <= rs
        BY <1>7, <1>24
      <3> QED BY <1>19, <1>20, <1>21, <3>1, <3>2, <3>3 DEF TypedAt
    <2>3. TypedAt(q)'
      <3>1. l_pos[q] <= r_pos[q] /\ key[q] \in [l_pos[q]..(r_pos[q] - 1) -> Key] /\ kid[q] \in [l_pos[q]..r_pos[q] -> 0..max]
        BY <1>6 DEF TypeOK
      <3>2. key'[q] \in [l_pos[q]..(r_pos[q] - 1) -> Key]
        BY <1>21, <1>29, <3>1
      <3> QED BY <1>19, <1>20, <1>21, <3>1, <3>2 DEF TypedAt
    <2>4. \A x \in {p, s, q} : TypedAt(x)'
      BY <2>1, <2>2, <2>3
    <2>5. l_pos' \in [Page -> 0..INDEXCOUNT]
      <3>1. n \in 0..INDEXCOUNT /\ ls + 1 \in 0..INDEXCOUNT
        BY <1>7, <1>8, <1>24
      <3> QED BY <1>19, <3>1 DEF TypeOK
    <2>6. r_pos' \in [Page -> 0..INDEXCOUNT]
      <3>1. e + 1 \in 0..INDEXCOUNT
        BY <1>7, <1>8, <1>24
      <3> QED BY <1>19, <3>1 DEF TypeOK
    <2>7. DOMAIN key' = Page /\ DOMAIN kid' = Page
      BY <1>19 DEF TypeOK
    <2>8. parent_index' \in [Page -> 0..max]
      <3>1. p \in 0..max
        BY DEF Live
      <3> QED BY <1>19, <3>1 DEF TypeOK
    <2>9. parent_pos' \in [Page -> 0..INDEXCOUNT]
      <3>1. ASSUME NEW x \in Page
            PROVE  parent_pos'[x] \in 0..INDEXCOUNT
        <4>1. CASE x = c0
          <5>1. e + 1 \in 0..INDEXCOUNT
            BY <1>7, <1>8, <1>24
          <5> QED BY <1>19, <4>1, <5>1
        <4>2. CASE x # c0 /\ x \in C
          <5>1. x \in Live /\ parent_index[x] = p
            BY <1>35, <4>2
          <5>2. parent_pos'[x] \in Positions(p)'
            <6>1. parent_index'[x] = p /\ p # 0 /\ UpAt(x)'
              BY <1>6, <1>36, <1>46, <4>2, <5>1
            <6> QED BY <6>1 DEF UpAt
          <5> QED BY <1>8, <1>23, <1>24, <5>2
        <4>3. CASE x # c0 /\ x \notin C
          BY <1>19, <4>3 DEF TypeOK
        <4> QED BY <4>1, <4>2, <4>3
      <3> QED BY <1>19, <3>1
    <2>10. root' \in Page /\ max' = max /\ free' \in Seq(1..max) /\ answer' = answer
      BY <1>19 DEF TypeOK
    <2>11. dirty' \subseteq Page
      <3>1. C \subseteq Page /\ {c0} \ {0} \subseteq Page
        BY <1>6, <1>28, <1>32, <1>35
      <3> QED BY <1>6, <1>19, <3>1 DEF TypeOK
    <2> QED BY <1>22, <2>4, <2>5, <2>6, <2>7, <2>8, <2>9, <2>10, <2>11, TypesKeep
  <1>52. FreeOK'
    BY <1>19 DEF FreeOK
  <1>53. Contents' = Contents
    <2>1. ASSUME NEW v PROVE Has(p, v)' <=> Has(p, v) \/ v = k
      <3>1. Has(p, v)' <=> \E j \in n..e : K[j] = v
        BY <1>21, <1>23 DEF Has
      <3>2. ASSUME NEW j \in n..e, K[j] = v PROVE Has(p, v) \/ v = k
        BY <1>25, <3>2 DEF Has
      <3>3. ASSUME NEW u \in Slots(p), key[p][u] = v PROVE \E j \in n..e : K[j] = v
        <4>1. PICK j \in Int : j = u + d
          BY <1>23
        <4>2. j \in n..e /\ j # e /\ j - d = u
          <5>1. u \in Int /\ l <= u /\ u <= r - 1
            BY <1>23
          <5> QED BY <1>11, <1>12, <4>1, <5>1
        <4> QED BY <1>25, <3>3, <4>2
      <3>4. Has(p, v) => \E u \in Slots(p) : key[p][u] = v
        BY DEF Has
      <3> QED BY <1>26, <3>1, <3>2, <3>3, <3>4
    <2>2. ASSUME NEW v PROVE Has(s, v) <=> Has(s, v)' \/ v = m
      <3>1. Has(s, v)' <=> \E j \in (ls + 1)..(rs - 1) : key[s][j] = v
        BY <1>21, <1>23, <1>27 DEF Has
      <3>2. \A j \in Slots(s) : j = ls \/ j \in (ls + 1)..(rs - 1)
        BY <1>23
      <3>3. Has(s, v) <=> \E j \in Slots(s) : key[s][j] = v
        BY DEF Has
      <3> QED BY <1>13, <1>27, <1>29, <3>1, <3>2, <3>3
    <2>3. PICK T : T = {p, q, s}
      OBVIOUS
    <2>4. ArraysStay(T)
      BY <1>22, <2>3 DEF ArraysStay
    <2>5. Swaps(q, h, m)
      BY <1>20, <1>21 DEF Swaps
    <2>6. Gains(p, k)
      BY <2>1 DEF Gains
    <2>7. Loses(s, m)
      BY <2>2 DEF Loses
    <2>8. job' = Idle
      BY <1>19
    <2>9. p # q /\ s # q /\ p # s /\ k = key[q][h]
      BY <1>1, <1>4, <1>13
    <2> QED BY <1>3, <1>31, <2>3, <2>4, <2>5, <2>6, <2>7, <2>8, <2>9, KeyGoesRound
  <1>54. answer' = answer
    BY <1>19
  <1> QED BY <1>50, <1>51, <1>52, <1>53, <1>54

-------------------------------------------------------------------------------
(* Borrowing from the left sibling.                                        *)

\* The half of LShrink in which the sibling lends a key.
LBorrow ==
    \E p, q, h, s : /\ p = job.page /\ q = parent_index[p] /\ h = parent_pos[p] - 1 /\ s = kid[q][h]
                    /\ r_pos[q] = parent_pos[p] /\ CanLend(s) /\ BorrowLeft(p, q, h, s)

\* Borrowing from the left sibling keeps the invariant and the keys.
LEMMA BorrowLeftKeeps ==
    ASSUME NEW lo, NEW hi, NEW lv, TypeOK, FreeOK, Good(lo, hi, lv), job.do = "shrink", LBorrow
    PROVE  /\ TypeOK' /\ FreeOK' /\ \E lo2, hi2 : Good(lo2, hi2, lv)'
           /\ Contents' = Contents /\ answer' = answer
  <1>1. PICK p, q \in Live, g \in Int :
              /\ p = job.page /\ p \in dirty /\ size(p) = INDEXMINR - 1 /\ parent_index[p] # 0
              /\ q = parent_index[p] /\ g = parent_pos[p]
              /\ g \in Positions(q) /\ kid[q][g] = p /\ lv[q] > 0 /\ p # q /\ size(q) > 0
              /\ l_pos[q] < r_pos[q]
    BY ShrinkPage
  <1>2. PICK h \in Int : h = g - 1 /\ g = h + 1
    OBVIOUS
  <1>3. h \in Slots(q)
    <2>1. r_pos[q] = g
      BY <1>1 DEF LBorrow
    <2>2. l_pos[q] \in Int /\ r_pos[q] \in Int
      BY LiveTyped
    <2> QED BY <1>1, <1>2, <2>1, <2>2 DEF Slots
  <1>4. PICK s \in Live :
              /\ s = kid[q][h]
              /\ p # s /\ s # q /\ p # root /\ s # root
              /\ parent_index[s] = q /\ parent_pos[s] = h
              /\ h \in Positions(q) /\ g \in Positions(q)
              /\ lv[p] = lv[s] /\ lv[q] = lv[s] + 1
              /\ hi[s] = key[q][h] /\ lo[p] = key[q][h]
              /\ lo[s] = LoAt(lo, q, h) /\ hi[p] = HiAt(hi, q, g)
    BY <1>1, <1>2, <1>3, Siblings, SMTT(30)
  <1>5. CanLend(s) /\ BorrowLeft(p, q, h, s)
    <2>1. PICK x, w, u, y : /\ x = job.page /\ w = parent_index[x] /\ u = parent_pos[x] - 1 /\ y = kid[w][u]
                            /\ CanLend(y) /\ BorrowLeft(x, w, u, y)
      BY DEF LBorrow
    <2>2. x = p /\ w = q
      BY <1>1, <2>1
    <2>3. u = h
      BY <1>1, <1>2, <2>1, <2>2
    <2>4. y = s
      BY <1>2, <1>4, <2>1, <2>2, <2>3
    <2> QED BY <2>1, <2>2, <2>3, <2>4
  <1>6. Live \subseteq Page /\ 0 \notin Live /\ p \in Page /\ q \in Page /\ s \in Page
    BY LiveIsPage
  <1>7. PICK l, r, ls, rs \in Int : /\ l = l_pos[p] /\ r = r_pos[p] /\ ls = l_pos[s] /\ rs = r_pos[s]
                                    /\ 0 <= l /\ l <= r /\ r <= INDEXCOUNT /\ r - l = INDEXMINR - 1
                                    /\ 0 <= ls /\ rs <= INDEXCOUNT /\ rs - ls > INDEXMINR /\ ls <= rs
    <2>1. /\ l_pos[p] \in Nat /\ r_pos[p] \in Nat /\ l_pos[p] <= r_pos[p] /\ r_pos[p] <= INDEXCOUNT
          /\ l_pos[s] \in Nat /\ r_pos[s] \in Nat /\ l_pos[s] <= r_pos[s] /\ r_pos[s] <= INDEXCOUNT
      BY LiveTyped
    <2> QED BY <1>1, <1>5, <2>1 DEF size, CanLend
  <1>8. /\ INDEXCOUNT \in Int /\ INDEXMINR \in Int /\ 1 <= INDEXMINR
        /\ INDEXSLIPR \in Int /\ 1 <= INDEXSLIPR
        /\ INDEXSLIPR + INDEXMINR - 1 <= INDEXCOUNT /\ 2 * INDEXMINR + 1 <= INDEXCOUNT
    BY Sizes
  <1>9. PICK d \in Int : d = IF l = 0 THEN INDEXSLIPR ELSE 0
    BY <1>8
  <1>10. /\ (IF l = 0 THEN INDEXSLIPR - 1 ELSE l - 1) = l + d - 1
         /\ (IF l = 0 THEN INDEXSLIPR + INDEXMINR - 1 ELSE r) = r + d
         /\ 0 <= l + d - 1 /\ r + d <= INDEXCOUNT /\ l + d <= r + d
         /\ r + d \in Int /\ l + d - 1 \in Int /\ (l # 0 => d = 0)
    <2>1. CASE l = 0
      BY <1>7, <1>8, <1>9, <2>1
    <2>2. CASE l # 0
      BY <1>7, <1>8, <1>9, <2>2
    <2> QED BY <2>1, <2>2
  <1>11. PICK e \in Int : e = r + d
    BY <1>10
  <1>12. PICK n \in Int : n = l + d - 1
    BY <1>10
  <1>13. PICK m, k, c0 : m = key[s][rs - 1] /\ k = key[q][h] /\ c0 = kid[s][rs]
    OBVIOUS
  <1>14. PICK K : K = [j \in n..(e - 1) |-> IF j = n THEN k ELSE key[p][j - d]]
    OBVIOUS
  <1>15. PICK L : L = [j \in n..e |-> IF j = n THEN c0 ELSE kid[p][j - d]]
    OBVIOUS
  <1>16. PICK KS : KS = Moved(key[s], ls..(rs - 2), 0)
    OBVIOUS
  <1>17. PICK LS : LS = Moved(kid[s], ls..(rs - 1), 0)
    OBVIOUS
  <1>18. PICK C : C = IF l = 0 THEN Kids(p, Positions(p)) ELSE {}
    OBVIOUS
  <1>19. /\ l_pos' = [l_pos EXCEPT ![p] = n]
         /\ r_pos' = [r_pos EXCEPT ![p] = e, ![s] = rs - 1]
         /\ key' = [key EXCEPT ![p] = K, ![q] = [@ EXCEPT ![h] = m], ![s] = KS]
         /\ kid' = [kid EXCEPT ![p] = L, ![s] = LS]
         /\ parent_index' = [x \in Page |-> IF x = c0 THEN p ELSE parent_index[x]]
         /\ parent_pos' = [x \in Page |->
              IF x = c0 THEN n ELSE IF x \in C THEN parent_pos[x] + INDEXSLIPR ELSE parent_pos[x]]
         /\ dirty' = dirty \cup {q, s} \cup C \cup ({c0} \ {0})
         /\ job' = Idle /\ root' = root /\ max' = max /\ free' = free /\ answer' = answer
    <2>1. /\ (IF l_pos[p] = 0 THEN INDEXSLIPR ELSE 0) = d
          /\ (IF l_pos[p] = 0 THEN INDEXSLIPR - 1 ELSE l_pos[p] - 1) = n
          /\ (IF l_pos[p] = 0 THEN INDEXSLIPR + INDEXMINR - 1 ELSE r_pos[p]) = e
          /\ (IF l_pos[p] = 0 THEN Kids(p, l_pos[p]..r_pos[p]) ELSE {}) = C
          /\ l_pos[s] = ls /\ r_pos[s] = rs
      BY <1>7, <1>9, <1>10, <1>11, <1>12, <1>18 DEF Positions
    <2>2. /\ l_pos' = [l_pos EXCEPT ![p] = n]
          /\ r_pos' = [r_pos EXCEPT ![p] = e, ![s] = @ - 1]
          /\ key' = [key EXCEPT
              ![p] = [j \in n..(e - 1) |-> IF j = n THEN key[q][h] ELSE key[p][j - d]],
              ![q] = [@ EXCEPT ![h] = key[s][r_pos[s] - 1]],
              ![s] = Moved(@, l_pos[s]..(r_pos[s] - 2), 0)]
          /\ kid' = [kid EXCEPT
              ![p] = [j \in n..e |-> IF j = n THEN kid[s][r_pos[s]] ELSE kid[p][j - d]],
              ![s] = Moved(@, l_pos[s]..(r_pos[s] - 1), 0)]
          /\ parent_index' = [x \in Page |-> IF x = kid[s][r_pos[s]] THEN p ELSE parent_index[x]]
          /\ parent_pos' = [x \in Page |->
              IF x = kid[s][r_pos[s]] THEN n
              ELSE IF x \in C THEN parent_pos[x] + INDEXSLIPR ELSE parent_pos[x]]
          /\ dirty' = dirty \cup {q, s} \cup C \cup ({kid[s][r_pos[s]]} \ {0})
          /\ job' = Idle /\ UNCHANGED <<pages, answer>>
      BY <1>5, <2>1 DEF BorrowLeft
    <2>3. r_pos' = [r_pos EXCEPT ![p] = e, ![s] = rs - 1]
      BY <1>4, <1>6, <2>1, <2>2 DEF TypeOK
    <2>4. key' = [key EXCEPT ![p] = K, ![q] = [@ EXCEPT ![h] = m], ![s] = KS]
      <3>1. key' = [key EXCEPT ![p] = K, ![q] = [@ EXCEPT ![h] = m],
                               ![s] = Moved(@, ls..(rs - 2), 0)]
        BY <1>13, <1>14, <2>1, <2>2
      <3>2. q # p /\ q # s /\ p # s /\ DOMAIN key = Page
        BY <1>1, <1>4 DEF TypeOK
      <3> QED BY <1>6, <1>16, <3>1, <3>2
    <2>5. kid' = [kid EXCEPT ![p] = L, ![s] = LS]
      BY <1>4, <1>6, <1>13, <1>15, <1>17, <2>1, <2>2 DEF TypeOK
    <2> QED BY <1>13, <2>1, <2>2, <2>3, <2>4, <2>5 DEF pages
  <1>20. /\ l_pos'[p] = n /\ l_pos'[s] = ls /\ l_pos'[q] = l_pos[q]
         /\ r_pos'[p] = e /\ r_pos'[s] = rs - 1 /\ r_pos'[q] = r_pos[q]
    BY <1>1, <1>4, <1>6, <1>7, <1>19 DEF TypeOK
  <1>21. /\ key'[p] = K /\ key'[s] = KS /\ key'[q] = [key[q] EXCEPT ![h] = m]
         /\ kid'[p] = L /\ kid'[s] = LS /\ kid'[q] = kid[q]
    BY <1>1, <1>4, <1>6, <1>19 DEF TypeOK
  <1>22. ArraysStay({s, p, q})
    BY <1>19 DEF ArraysStay, TypeOK
  <1>23. /\ Slots(p)' = n..(e - 1) /\ Positions(p)' = n..e
         /\ Slots(s)' = ls..(rs - 2) /\ Positions(s)' = ls..(rs - 1)
         /\ Slots(p) = l..(r - 1) /\ Positions(p) = l..r
         /\ Slots(s) = ls..(rs - 1) /\ Positions(s) = ls..rs
    <2>1. (rs - 1) - 1 = rs - 2
      BY <1>7
    <2> QED BY <1>7, <1>20, <2>1 DEF Slots, Positions
  <1>24. /\ n < e /\ e <= INDEXCOUNT /\ 0 <= n /\ e - n = INDEXMINR
         /\ ls < rs - 1 /\ rs - 2 \in Int /\ rs - 1 \in Int /\ e - 1 \in Int
    BY <1>7, <1>8, <1>10, <1>11, <1>12
  <1>25. ASSUME NEW j \in n..e, j # n
         PROVE  /\ j \in Int /\ j - d \in Int /\ n < j
                /\ j # e => j - d \in Slots(p) /\ K[j] = key[p][j - d]
                /\ j - d \in Positions(p) /\ L[j] = kid[p][j - d]
    <2>1. j \in Int /\ n < j /\ j <= e /\ j - d \in Int
      BY <1>24, <1>25
    <2>2. j - d >= l /\ j - d <= r /\ (j # e => j - d <= r - 1)
      BY <1>7, <1>9, <1>11, <1>12, <2>1
    <2>3. j - d \in Positions(p) /\ (j # e => j - d \in Slots(p))
      BY <1>7, <1>23, <2>1, <2>2
    <2>4. j # e => j \in n..(e - 1)
      BY <2>1
    <2>5. j # e => K[j] = key[p][j - d]
      BY <1>14, <1>25, <2>4
    <2>6. L[j] = kid[p][j - d]
      BY <1>15, <1>25
    <2> QED BY <2>1, <2>3, <2>5, <2>6
  <1>26. L[n] = c0 /\ K[n] = k /\ n \in n..(e - 1) /\ n \in n..e
    <2>1. n \in n..e /\ n \in n..(e - 1)
      BY <1>24
    <2> QED BY <1>14, <1>15, <2>1
  <1>27. /\ \A j \in ls..(rs - 2) : j \in Slots(s) /\ KS[j] = key[s][j]
         /\ \A j \in ls..(rs - 1) : j \in Positions(s) /\ LS[j] = kid[s][j]
         /\ KS = [j \in ls..(rs - 2) |-> key[s][j]]
         /\ LS = [j \in ls..(rs - 1) |-> kid[s][j]]
    <2>1. \A a, b \in Int : {i + 0 : i \in a..b} = a..b
      OBVIOUS
    <2>2. /\ {i + 0 : i \in ls..(rs - 2)} = ls..(rs - 2)
          /\ {i + 0 : i \in ls..(rs - 1)} = ls..(rs - 1)
      BY <1>24, <2>1
    <2>3. \A j \in Int : j - 0 = j
      OBVIOUS
    <2>4. KS = [j \in ls..(rs - 2) |-> key[s][j]]
      BY <1>16, <2>2, <2>3 DEF Moved
    <2>5. LS = [j \in ls..(rs - 1) |-> kid[s][j]]
      BY <1>17, <2>2, <2>3 DEF Moved
    <2>6. /\ \A j \in ls..(rs - 2) : j \in ls..(rs - 1)
          /\ \A j \in ls..(rs - 1) : j \in ls..rs
      BY <1>7
    <2> QED BY <1>23, <2>4, <2>5, <2>6
  <1>28. /\ \A x \in Live : lo[x] \in Int /\ hi[x] \in Int /\ lv[x] \in Nat
         /\ KeysAt(p, lo, hi) /\ KeysAt(s, lo, hi) /\ DownAt(p, lo, hi, lv) /\ DownAt(s, lo, hi, lv)
         /\ \A j \in Slots(p) : key[p][j] \in Key
         /\ \A j \in Slots(s) : key[s][j] \in Key
         /\ lv[p] = 0 \/ lv[p] > 0
    BY PageByPage
  <1>29. /\ rs - 1 \in Slots(s) /\ rs \in Positions(s) /\ ls # rs
         /\ m \in Key /\ m \in Int /\ k \in Key /\ k \in Int
    <2>1. rs - 1 \in Slots(s) /\ rs \in Positions(s) /\ ls # rs
      <3>1. rs - 1 \in ls..(rs - 1) /\ rs \in ls..rs /\ ls # rs
        BY <1>7, <1>24
      <3> QED BY <1>23, <3>1
    <2>2. key[q][h] \in Key
      BY <1>3, PageByPage
    <2> QED BY <1>13, <1>28, <2>1, <2>2, KeyAssumption DEF Key
  <1>30. /\ lo[s] < m /\ m < k /\ k < hi[p] /\ hi[s] = k /\ lo[p] = k
    BY <1>4, <1>13, <1>28, <1>29 DEF KeysAt
  <1>31. Live' = Live
    BY <1>19 DEF Live, Free
  <1>32. /\ lv[p] = 0 => c0 = 0
         /\ lv[p] > 0 => /\ c0 \in Live /\ parent_index[c0] = s /\ parent_pos[c0] = rs
                         /\ lv[c0] = lv[p] - 1 /\ lo[c0] = m /\ hi[c0] = k
    <2>1. LoAt(lo, s, rs) = m /\ HiAt(hi, s, rs) = k
      BY <1>7, <1>13, <1>29, <1>30 DEF LoAt, HiAt
    <2> QED BY <1>4, <1>13, <1>28, <1>29, <2>1 DEF DownAt
  <1>33. c0 # p /\ c0 # s /\ c0 # q
    <2>1. lv[p] > 0 => c0 # p /\ c0 # s /\ c0 # q
      BY <1>4, <1>28, <1>32
    <2> QED BY <1>6, <1>28, <1>32, <2>1
  <1>34. \A x \in Live : parent_index[x] = p => parent_pos'[x] = parent_pos[x] + d /\ x # c0
    <2>1. SUFFICES ASSUME NEW x \in Live, parent_index[x] = p
                   PROVE  parent_pos'[x] = parent_pos[x] + d /\ x # c0
      OBVIOUS
    <2>2. x # c0
      <3>1. lv[p] > 0
        BY <2>1, ChildSeat
      <3> QED BY <1>4, <1>32, <2>1, <3>1
    <2>3. parent_pos[x] \in Positions(p) /\ parent_pos[x] \in Int
      BY <2>1, ChildSeat
    <2>4. CASE l = 0
      <3>1. p \notin Fresh
        BY DEF Fresh
      <3>2. x \in C
        BY <1>18, <2>1, <2>3, <2>4, <3>1, KidsAre
      <3> QED BY <1>6, <1>9, <1>19, <2>2, <2>4, <3>2
    <2>5. CASE l # 0
      <3>1. d = 0 /\ C = {}
        BY <1>10, <1>18, <2>5
      <3> QED BY <1>6, <1>19, <2>2, <2>3, <3>1
    <2> QED BY <2>2, <2>4, <2>5
  <1>35. \A x \in C : x \in Live /\ parent_index[x] = p
    <2>1. p \notin Fresh
      BY DEF Fresh
    <2>2. CASE l = 0
      BY <1>18, <2>1, <2>2, KidsAre
    <2> QED BY <1>18, <2>2
  <1>36. /\ \A x \in Live : parent_index'[x] = IF x = c0 THEN p ELSE parent_index[x]
         /\ \A x \in Live : parent_index[x] # p /\ x # c0 => parent_pos'[x] = parent_pos[x]
         /\ c0 \in Live => parent_pos'[c0] = n
    BY <1>6, <1>19, <1>35
  <1>37. ParentsStay({s, p})
    <2>1. ASSUME NEW x \in Live, parent_index[x] \notin {s, p}
          PROVE  parent_index'[x] = parent_index[x] /\ parent_pos'[x] = parent_pos[x]
      <3>1. x # c0
        BY <1>6, <1>28, <1>32, <2>1
      <3> QED BY <1>36, <2>1, <3>1
    <2> QED BY <2>1 DEF ParentsStay
  <1>38. PICK lo2 : lo2 = [x \in Page |-> IF x = p THEN m ELSE lo[x]]
    OBVIOUS
  <1>39. PICK hi2 : hi2 = [x \in Page |-> IF x = s THEN m ELSE hi[x]]
    OBVIOUS
  <1>40. /\ lo2[s] = lo[s] /\ hi2[s] = m /\ lo2[p] = m /\ hi2[p] = hi[p]
         /\ \A x \in Live : x \notin {p, s} => lo2[x] = lo[x] /\ hi2[x] = hi[x]
    BY <1>4, <1>6, <1>38, <1>39
  <1>41. KeysAt(p, lo2, hi2)'
    <2>1. ASSUME NEW j \in n..(e - 1)
          PROVE  m < K[j] /\ K[j] < hi[p] /\ K[j] \in Int
      <3>1. CASE j = n
        BY <1>26, <1>28, <1>29, <1>30, <3>1
      <3>2. CASE j # n
        <4>1. j \in n..e /\ j # e
          BY <1>24
        <4>2. PICK u \in Slots(p) : K[j] = key[p][u]
          BY <1>25, <3>2, <4>1
        <4>3. k < key[p][u] /\ key[p][u] < hi[p] /\ key[p][u] \in Int
          BY <1>28, <1>30, <4>2, KeyAssumption DEF KeysAt, Key
        <4> QED BY <1>29, <1>30, <4>2, <4>3
      <3> QED BY <3>1, <3>2
    <2>2. ASSUME NEW i \in n..(e - 1), NEW j \in n..(e - 1), i < j
          PROVE  K[i] < K[j]
      <3>1. i \in n..e /\ i # e /\ j \in n..e /\ j # e /\ j # n /\ i \in Int /\ j \in Int
        BY <1>24, <2>2
      <3>2. PICK v \in Int : v = j - d
        BY <1>25, <3>1
      <3>3. v \in Slots(p) /\ K[j] = key[p][v]
        BY <1>25, <3>1, <3>2
      <3>4. CASE i = n
        BY <1>26, <1>28, <1>30, <3>3, <3>4 DEF KeysAt
      <3>5. CASE i # n
        <4>1. PICK u \in Int : u = i - d
          BY <1>25, <3>5, <3>1
        <4>2. u \in Slots(p) /\ K[i] = key[p][u]
          BY <1>25, <3>5, <3>1, <4>1
        <4>3. u < v
          BY <1>9, <2>2, <3>2, <3>1, <4>1
        <4> QED BY <1>28, <3>3, <4>2, <4>3 DEF KeysAt
      <3> QED BY <3>4, <3>5
    <2>3. m < hi[p]
      BY <1>28, <1>29, <1>30
    <2> QED BY <1>21, <1>23, <1>40, <2>1, <2>2, <2>3 DEF KeysAt
  <1>42. KeysAt(s, lo2, hi2)'
    <2>1. ASSUME NEW j \in ls..(rs - 2)
          PROVE  lo[s] < KS[j] /\ KS[j] < m
      <3>1. j \in Slots(s) /\ KS[j] = key[s][j]
        BY <1>27
      <3>2. j < rs - 1
        BY <1>24
      <3> QED BY <1>13, <1>28, <1>29, <3>1, <3>2 DEF KeysAt
    <2>2. ASSUME NEW i \in ls..(rs - 2), NEW j \in ls..(rs - 2), i < j
          PROVE  KS[i] < KS[j]
      BY <1>27, <1>28, <2>2 DEF KeysAt
    <2> QED BY <1>21, <1>23, <1>30, <1>40, <2>1, <2>2 DEF KeysAt
  <1>43. DownAt(p, lo2, hi2, lv)'
    <2>1. ASSUME NEW i \in n..e, lv[p] = 0
          PROVE  L[i] = 0
      <3>1. CASE i = n
        BY <1>26, <1>32, <2>1, <3>1
      <3>2. CASE i # n
        BY <1>25, <1>28, <2>1, <3>2 DEF DownAt
      <3> QED BY <3>1, <3>2
    <2>2. ASSUME NEW i \in n..e, lv[p] > 0
          PROVE  /\ L[i] \in Live /\ lv[L[i]] = lv[p] - 1
                 /\ parent_index'[L[i]] = p /\ parent_pos'[L[i]] = i
                 /\ lo2[L[i]] = LoAt(lo2, p, i)' /\ hi2[L[i]] = HiAt(hi2, p, i)'
      <3>1. CASE i = n
        <4>1. i # e
          BY <1>24, <3>1
        <4>2. LoAt(lo2, p, i)' = m /\ HiAt(hi2, p, i)' = k
          BY <1>20, <1>21, <1>26, <1>40, <3>1, <4>1 DEF LoAt, HiAt
        <4>3. L[i] = c0 /\ lo2[c0] = m /\ hi2[c0] = k
          BY <1>26, <1>32, <1>33, <1>40, <2>2, <3>1
        <4> QED BY <1>32, <1>36, <2>2, <3>1, <4>2, <4>3
      <3>2. CASE i # n
        <4>1. PICK u \in Int : u = i - d
          BY <1>25, <3>2
        <4>2. u \in Positions(p) /\ L[i] = kid[p][u]
          BY <1>25, <3>2, <4>1
        <4>3. PICK c \in Live : /\ c = kid[p][u] /\ lv[c] = lv[p] - 1
                                /\ parent_index[c] = p /\ parent_pos[c] = u
                                /\ lo[c] = LoAt(lo, p, u) /\ hi[c] = HiAt(hi, p, u)
          BY <1>28, <2>2, <4>2 DEF DownAt
        <4>4. c \notin {p, s} /\ c # c0
          BY <1>4, <1>28, <1>34, <4>3
        <4>5. i \in Int
          BY <1>25, <3>2
        <4>6. parent_index'[c] = p /\ parent_pos'[c] = i
          <5>1. u + d = i
            BY <1>9, <4>1, <4>5
          <5> QED BY <1>34, <1>36, <4>3, <4>4, <5>1
        <4>7. LoAt(lo, p, u) = LoAt(lo2, p, i)'
          <5>1. PICK w \in Int : w = i - 1
            BY <4>5
          <5>2. CASE w = n
            <6>1. u = l
              BY <1>12, <1>7, <1>9, <4>1, <4>5, <5>2, <5>1
            <6> QED BY <1>7, <1>20, <1>21, <1>26, <1>30, <3>2, <5>2, <5>1, <6>1 DEF LoAt
          <5>3. CASE w # n
            <6>1. w \in n..e /\ w # e
              BY <1>24, <3>2, <4>5, <5>1
            <6>2. w - d = u - 1 /\ u # l
              BY <1>7, <1>9, <1>12, <4>1, <4>5, <5>3, <5>1
            <6>3. K[w] = key[p][u - 1]
              BY <1>25, <5>3, <6>1, <6>2
            <6> QED BY <1>7, <1>20, <1>21, <3>2, <5>1, <6>2, <6>3 DEF LoAt
          <5> QED BY <5>2, <5>3
        <4>8. HiAt(hi, p, u) = HiAt(hi2, p, i)'
          <5>1. CASE i = e
            <6>1. u = r
              BY <1>11, <1>7, <1>9, <4>1, <5>1
            <6> QED BY <1>7, <1>20, <1>40, <5>1, <6>1 DEF HiAt
          <5>2. CASE i # e
            <6>1. u # r
              BY <1>11, <1>7, <1>9, <4>1, <4>5, <5>2
            <6>2. K[i] = key[p][u]
              BY <1>25, <3>2, <4>1, <5>2
            <6> QED BY <1>7, <1>20, <1>21, <5>2, <6>1, <6>2 DEF HiAt
          <5> QED BY <5>1, <5>2
        <4> QED BY <1>40, <4>2, <4>3, <4>4, <4>6, <4>7, <4>8
      <3> QED BY <3>1, <3>2
    <2>3. \A i \in n..e : lv[p] = 0 => L[i] = 0
      BY <2>1
    <2> QED BY <1>21, <1>23, <1>31, <2>2, <2>3 DEF DownAt
  <1>44. DownAt(s, lo2, hi2, lv)'
    <2>1. ASSUME NEW i \in ls..(rs - 1), lv[s] = 0
          PROVE  LS[i] = 0
      BY <1>27, <1>28, <2>1 DEF DownAt
    <2>2. ASSUME NEW i \in ls..(rs - 1), lv[s] > 0
          PROVE  /\ LS[i] \in Live /\ lv[LS[i]] = lv[s] - 1
                 /\ parent_index'[LS[i]] = s /\ parent_pos'[LS[i]] = i
                 /\ lo2[LS[i]] = LoAt(lo2, s, i)' /\ hi2[LS[i]] = HiAt(hi2, s, i)'
      <3>1. i \in Positions(s) /\ LS[i] = kid[s][i]
        BY <1>27
      <3>2. PICK c \in Live : /\ c = kid[s][i] /\ lv[c] = lv[s] - 1
                              /\ parent_index[c] = s /\ parent_pos[c] = i
                              /\ lo[c] = LoAt(lo, s, i) /\ hi[c] = HiAt(hi, s, i)
        BY <1>28, <2>2, <3>1 DEF DownAt
      <3>3. i \in Int /\ i # rs /\ i - 1 \in Int
        BY <1>24
      <3>4. c \notin {p, s} /\ c # c0
        BY <1>4, <1>28, <1>32, <2>2, <3>2, <3>3
      <3>5. parent_index'[c] = s /\ parent_pos'[c] = i
        BY <1>4, <1>36, <3>2, <3>4
      <3>6. LoAt(lo, s, i) = LoAt(lo2, s, i)'
        <4>1. CASE i = ls
          BY <1>7, <1>20, <1>40, <4>1 DEF LoAt
        <4>2. CASE i # ls
          <5>1. i - 1 \in ls..(rs - 2)
            BY <1>24, <4>2
          <5>2. KS[i - 1] = key[s][i - 1]
            BY <1>27, <5>1
          <5> QED BY <1>7, <1>20, <1>21, <4>2, <5>2 DEF LoAt
        <4> QED BY <4>1, <4>2
      <3>7. HiAt(hi, s, i) = HiAt(hi2, s, i)'
        <4>1. CASE i = rs - 1
          BY <1>7, <1>13, <1>20, <1>40, <3>3, <4>1 DEF HiAt
        <4>2. CASE i # rs - 1
          <5>1. i \in ls..(rs - 2)
            BY <1>24, <4>2
          <5> QED BY <1>7, <1>20, <1>21, <1>27, <3>3, <4>2, <5>1 DEF HiAt
        <4> QED BY <4>1, <4>2
      <3> QED BY <1>40, <3>1, <3>2, <3>4, <3>5, <3>6, <3>7
    <2>3. \A i \in ls..(rs - 1) : lv[s] = 0 => LS[i] = 0
      BY <2>1
    <2> QED BY <1>21, <1>23, <1>31, <2>2, <2>3 DEF DownAt
  <1>45. SizeAt(p, lv)' /\ SizeAt(s, lv)'
    <2>1. size(p)' = INDEXMINR /\ size(s)' = rs - ls - 1
      BY <1>7, <1>8, <1>20, <1>24 DEF size
    <2>2. /\ size(p)' < INDEXCOUNT /\ size(p)' >= INDEXMINR /\ size(p)' > 0
          /\ size(s)' < INDEXCOUNT /\ size(s)' >= INDEXMINR /\ size(s)' > 0
      BY <1>7, <1>8, <2>1
    <2> QED BY <2>2 DEF SizeAt
  <1>46. ASSUME NEW x \in Live, parent_index[x] \in {s, p}
         PROVE  UpAt(x)'
    <2>1. CASE x = c0
      <3>1. parent_index'[x] = p /\ parent_pos'[x] = n /\ p # 0 /\ p \in Live'
        BY <1>6, <1>31, <1>36, <2>1
      <3>2. n \in Positions(p)' /\ kid'[p][n] = x
        BY <1>21, <1>23, <1>26, <2>1
      <3> QED BY <3>1, <3>2 DEF UpAt
    <2>2. CASE x # c0 /\ parent_index[x] = p
      <3>1. PICK u \in Int : u = parent_pos[x] /\ u \in Positions(p) /\ kid[p][u] = x
        BY <2>2, ChildSeat
      <3>2. PICK j \in Int : j = u + d
        BY <1>9
      <3>3. j \in n..e /\ j - d = u /\ j # n
        <4>1. u \in l..r
          BY <1>23, <3>1
        <4> QED BY <1>7, <1>9, <1>11, <1>12, <3>2, <4>1
      <3>4. L[j] = x
        BY <1>25, <3>1, <3>3
      <3>5. parent_index'[x] = p /\ parent_pos'[x] = j /\ p # 0 /\ p \in Live'
        BY <1>6, <1>31, <1>34, <1>36, <2>2, <3>1, <3>2
      <3> QED BY <1>21, <1>23, <3>3, <3>4, <3>5 DEF UpAt
    <2>3. CASE x # c0 /\ parent_index[x] = s
      <3>1. PICK u \in Int : u = parent_pos[x] /\ u \in Positions(s) /\ kid[s][u] = x
        BY <2>3, ChildSeat
      <3>2. u # rs
        BY <1>13, <2>3, <3>1
      <3>3. u \in ls..(rs - 1)
        BY <1>7, <1>23, <3>1, <3>2
      <3>4. LS[u] = x
        BY <1>27, <3>1, <3>3
      <3>5. parent_index'[x] = s /\ parent_pos'[x] = u /\ s # 0 /\ s \in Live'
        BY <1>4, <1>6, <1>31, <1>36, <2>3, <3>1
      <3> QED BY <1>21, <1>23, <3>3, <3>4, <3>5 DEF UpAt
    <2> QED BY <1>46, <2>1, <2>2, <2>3
  <1>47. ASSUME NEW i \in Slots(p)'
         PROVE  OutsideBelow(key'[p][i], lv[s], lo, hi, lv)
    <2>1. i \in n..(e - 1)
      BY <1>23
    <2>2. CASE i = n
      <3>1. key'[p][i] = k /\ lv[s] \in Int /\ lv[s] <= lv[q]
        BY <1>4, <1>21, <1>26, <1>28, <2>2
      <3> QED BY <1>3, <1>13, <3>1, KeysOutside
    <2>3. CASE i # n
      <3>1. i \in n..e /\ i # e
        BY <1>24, <2>1
      <3>2. PICK u \in Slots(p) : key'[p][i] = key[p][u]
        BY <1>21, <1>25, <2>3, <3>1
      <3>3. lv[s] \in Int /\ lv[s] <= lv[p]
        BY <1>4, <1>28
      <3> QED BY <3>2, <3>3, KeysOutside
    <2> QED BY <2>2, <2>3
  <1>48. ASSUME NEW i \in Slots(s)'
         PROVE  OutsideBelow(key'[s][i], lv[s], lo, hi, lv)
    <2>1. i \in Slots(s) /\ key'[s][i] = key[s][i]
      BY <1>21, <1>23, <1>27
    <2>2. lv[s] \in Int /\ lv[s] <= lv[s]
      BY <1>4, <1>28
    <2> QED BY <2>1, <2>2, KeysOutside
  <1>49. OutsideBelow(m, lv[s], lo, hi, lv)
    <2>1. lv[s] \in Int /\ lv[s] <= lv[s]
      BY <1>4, <1>28
    <2> QED BY <1>13, <1>29, <2>1, KeysOutside
  <1>50. Good(lo2, hi2, lv)'
    <2>1. lo[s] < m /\ m < hi[p] /\ lv[q] > 0
      BY <1>1, <1>28, <1>29, <1>30
    <2>2. RoundThrough(q, h, g, s, p, m)
      <3>1. p = kid[q][g] /\ s = kid[q][h] /\ job.page \in {s, p} /\ root' = root /\ job' = Idle
        BY <1>1, <1>4, <1>19
      <3> QED BY <1>2, <1>20, <1>21, <1>22, <1>37, <3>1 DEF RoundThrough
    <2>3. NewBounds(s, p, m, lo, hi, lo2, hi2)
      BY <1>38, <1>39 DEF NewBounds
    <2>4. \A i \in Slots(p)' : OutsideBelow(key'[p][i], lv[s], lo, hi, lv)
      BY <1>47
    <2>5. \A i \in Slots(s)' : OutsideBelow(key'[s][i], lv[s], lo, hi, lv)
      BY <1>48
    <2>6. \A x \in Live : parent_index[x] \in {s, p} => UpAt(x)'
      BY <1>46
    <2> QED BY <1>3, <1>29, <1>31, <1>41, <1>42, <1>43, <1>44, <1>45, <1>49,
               <2>1, <2>2, <2>4, <2>5, <2>6, <2>3, Borrowed
  <1>51. TypeOK'
    <2>1. TypedAt(p)'
      <3>1. \A j \in n..(e - 1) : K[j] \in Key
        <4>1. \A j \in n..(e - 1) : j \in n..e /\ j # e
          BY <1>24
        <4> QED BY <1>25, <1>26, <1>28, <1>29, <4>1
      <3>2. \A j \in n..e : L[j] \in 0..max
        <4>1. \A j \in Positions(p) : kid[p][j] \in 0..max
          BY LiveTyped
        <4>2. c0 \in 0..max
          BY <1>13, <1>29, LiveTyped
        <4> QED BY <1>25, <1>26, <4>1, <4>2
      <3>3. K \in [n..(e - 1) -> Key] /\ L \in [n..e -> 0..max] /\ n <= e
        <4>1. K \in [n..(e - 1) -> Key]
          BY <1>14, <3>1
        <4>2. L \in [n..e -> 0..max]
          BY <1>15, <3>2
        <4> QED BY <1>24, <4>1, <4>2
      <3> QED BY <1>19, <1>20, <1>21, <3>3 DEF TypedAt
    <2>2. TypedAt(s)'
      <3>1. (rs - 1) - 1 = rs - 2
        BY <1>7
      <3>2. KS \in [ls..(rs - 2) -> Key]
        BY <1>27, <1>28
      <3>3. LS \in [ls..(rs - 1) -> 0..max]
        BY <1>27, LiveTyped
      <3>4. ls <= rs - 1
        BY <1>7, <1>24
      <3> QED BY <1>19, <1>20, <1>21, <3>2, <3>3, <3>4, <3>1 DEF TypedAt
    <2>3. TypedAt(q)'
      <3>1. /\ l_pos[q] <= r_pos[q] /\ key[q] \in [l_pos[q]..(r_pos[q] - 1) -> Key]
            /\ kid[q] \in [l_pos[q]..r_pos[q] -> 0..max]
        BY <1>6 DEF TypeOK
      <3>2. key'[q] \in [l_pos[q]..(r_pos[q] - 1) -> Key]
        BY <1>21, <1>29, <3>1
      <3> QED BY <1>19, <1>20, <1>21, <3>1, <3>2 DEF TypedAt
    <2>4. \A x \in {s, p, q} : TypedAt(x)'
      BY <2>1, <2>2, <2>3
    <2>5. l_pos' \in [Page -> 0..INDEXCOUNT]
      <3>1. n \in 0..INDEXCOUNT
        BY <1>7, <1>8, <1>24
      <3> QED BY <1>19, <3>1 DEF TypeOK
    <2>6. r_pos' \in [Page -> 0..INDEXCOUNT]
      <3>1. e \in 0..INDEXCOUNT /\ rs - 1 \in 0..INDEXCOUNT
        BY <1>7, <1>8, <1>24
      <3> QED BY <1>19, <3>1 DEF TypeOK
    <2>7. DOMAIN key' = Page /\ DOMAIN kid' = Page
      BY <1>19 DEF TypeOK
    <2>8. parent_index' \in [Page -> 0..max]
      <3>1. p \in 0..max
        BY DEF Live
      <3> QED BY <1>19, <3>1 DEF TypeOK
    <2>9. parent_pos' \in [Page -> 0..INDEXCOUNT]
      <3>1. ASSUME NEW x \in Page
            PROVE  parent_pos'[x] \in 0..INDEXCOUNT
        <4>1. CASE x = c0
          <5>1. n \in 0..INDEXCOUNT
            BY <1>7, <1>8, <1>24
          <5> QED BY <1>19, <4>1, <5>1
        <4>2. CASE x # c0 /\ x \in C
          <5>1. x \in Live /\ parent_index[x] = p
            BY <1>35, <4>2
          <5>2. parent_pos'[x] \in Positions(p)'
            <6>1. parent_index'[x] = p /\ p # 0 /\ UpAt(x)'
              BY <1>6, <1>36, <1>46, <4>2, <5>1
            <6> QED BY <6>1 DEF UpAt
          <5> QED BY <1>8, <1>23, <1>24, <5>2
        <4>3. CASE x # c0 /\ x \notin C
          BY <1>19, <4>3 DEF TypeOK
        <4> QED BY <4>1, <4>2, <4>3
      <3> QED BY <1>19, <3>1
    <2>10. root' \in Page /\ max' = max /\ free' \in Seq(1..max) /\ answer' = answer
      BY <1>19 DEF TypeOK
    <2>11. dirty' \subseteq Page
      <3>1. C \subseteq Page /\ {c0} \ {0} \subseteq Page
        BY <1>6, <1>28, <1>32, <1>35
      <3> QED BY <1>6, <1>19, <3>1 DEF TypeOK
    <2> QED BY <1>22, <2>4, <2>5, <2>6, <2>7, <2>8, <2>9, <2>10, <2>11, TypesKeep
  <1>52. FreeOK'
    BY <1>19 DEF FreeOK
  <1>53. Contents' = Contents
    <2>1. ASSUME NEW v PROVE Has(p, v)' <=> Has(p, v) \/ v = k
      <3>1. Has(p, v)' <=> \E j \in n..(e - 1) : K[j] = v
        BY <1>21, <1>23 DEF Has
      <3>2. ASSUME NEW j \in n..(e - 1), K[j] = v PROVE Has(p, v) \/ v = k
        <4>1. j \in n..e /\ j # e
          BY <1>24
        <4> QED BY <1>25, <1>26, <3>2, <4>1 DEF Has
      <3>3. ASSUME NEW u \in Slots(p), key[p][u] = v PROVE \E j \in n..(e - 1) : K[j] = v
        <4>1. PICK j \in Int : j = u + d
          BY <1>23
        <4>2. j \in n..e /\ j \in n..(e - 1) /\ j # n /\ j # e /\ j - d = u
          <5>1. u \in Int /\ l <= u /\ u <= r - 1
            BY <1>23
          <5> QED BY <1>11, <1>12, <1>24, <4>1, <5>1
        <4> QED BY <1>25, <3>3, <4>2
      <3>4. Has(p, v) => \E u \in Slots(p) : key[p][u] = v
        BY DEF Has
      <3> QED BY <1>26, <3>1, <3>2, <3>3, <3>4
    <2>2. ASSUME NEW v PROVE Has(s, v) <=> Has(s, v)' \/ v = m
      <3>1. Has(s, v)' <=> \E j \in ls..(rs - 2) : key[s][j] = v
        BY <1>21, <1>23, <1>27 DEF Has
      <3>2. \A j \in Slots(s) : j = rs - 1 \/ j \in ls..(rs - 2)
        BY <1>23
      <3>3. Has(s, v) <=> \E j \in Slots(s) : key[s][j] = v
        BY DEF Has
      <3> QED BY <1>13, <1>27, <1>29, <3>1, <3>2, <3>3
    <2>3. PICK T : T = {p, q, s}
      OBVIOUS
    <2>4. ArraysStay(T)
      BY <1>22, <2>3 DEF ArraysStay
    <2>5. Swaps(q, h, m)
      BY <1>20, <1>21 DEF Swaps
    <2>6. Gains(p, k)
      BY <2>1 DEF Gains
    <2>7. Loses(s, m)
      BY <2>2 DEF Loses
    <2>8. job' = Idle
      BY <1>19
    <2>9. p # q /\ s # q /\ p # s /\ k = key[q][h]
      BY <1>1, <1>4, <1>13
    <2> QED BY <1>3, <1>31, <2>3, <2>4, <2>5, <2>6, <2>7, <2>8, <2>9, KeyGoesRound
  <1>54. answer' = answer
    BY <1>19
  <1> QED BY <1>50, <1>51, <1>52, <1>53, <1>54

-------------------------------------------------------------------------------
(* Merging two siblings.                                                   *)

\* The halves of RShrink and LShrink in which two pages merge.
RMerge ==
    \E p, q, h, s : /\ p = job.page /\ q = parent_index[p] /\ h = parent_pos[p] /\ s = kid[q][h + 1]
                    /\ r_pos[q] # h /\ ~CanLend(s) /\ MergeSibling(p, q, h, s, {q, s})
LMerge ==
    \E p, q, h, s : /\ p = job.page /\ q = parent_index[p] /\ h = parent_pos[p] - 1 /\ s = kid[q][h]
                    /\ r_pos[q] = parent_pos[p] /\ ~CanLend(s) /\ MergeSibling(s, q, h, p, {q, s})

\* What both are: page a takes in the key of q at position h and the page b to
\* its right, and both are small.
Merge(a, q, h, g, b, M) ==
    /\ h \in Slots(q) /\ g = h + 1 /\ a = kid[q][h] /\ b = kid[q][g] /\ job.page \in {a, b}
    /\ size(a) + size(b) + 1 <= 2 * INDEXMINR /\ INDEXMINR <= size(a) + size(b) + 1
    /\ q \in M /\ M \subseteq Live /\ MergeSibling(a, q, h, b, M)

\* Either is a Merge.
LEMMA EitherMerge ==
    ASSUME NEW lo, NEW hi, NEW lv, TypeOK, Good(lo, hi, lv), job.do = "shrink", RMerge \/ LMerge
    PROVE  \E q, a, b \in Live, h, g \in Int : \E M : lv[q] > 0 /\ Merge(a, q, h, g, b, M)
  <1>1. PICK p, q \in Live, u \in Int :
              /\ p = job.page /\ size(p) = INDEXMINR - 1 /\ parent_index[p] # 0
              /\ q = parent_index[p] /\ u = parent_pos[p]
              /\ u \in Positions(q) /\ kid[q][u] = p /\ lv[q] > 0 /\ p # q
              /\ l_pos[q] < r_pos[q]
    BY ShrinkPage
  <1>2. l_pos[q] \in Int /\ r_pos[q] \in Int /\ INDEXMINR \in Int /\ 1 <= INDEXMINR
    BY LiveTyped, Sizes
  <1>3. CASE RMerge
    <2>1. PICK g \in Int : g = u + 1
      OBVIOUS
    <2>2. PICK s : /\ s = kid[q][g] /\ r_pos[q] # u /\ ~CanLend(s)
                   /\ MergeSibling(p, q, u, s, {q, s})
      BY <1>1, <1>3, <2>1 DEF RMerge
    <2>3. u \in Slots(q)
      BY <1>1, <1>2, <2>2 DEF Slots, Positions
    <2>4. s \in Live /\ s # root /\ s # p
      BY <1>1, <2>1, <2>2, <2>3, Siblings
    <2>5. size(s) \in Int /\ size(s) <= INDEXMINR /\ size(s) >= INDEXMINR
      <3>1. SizeAt(s, lv) /\ l_pos[s] \in Int /\ r_pos[s] \in Int
        BY <2>4, PageByPage, LiveTyped
      <3> QED BY <1>1, <1>2, <2>2, <2>4, <3>1, SMTT(30) DEF SizeAt, CanLend, size
    <2>6. size(p) + size(s) + 1 <= 2 * INDEXMINR /\ INDEXMINR <= size(p) + size(s) + 1
      BY <1>1, <1>2, <2>5
    <2>7. Merge(p, q, u, g, s, {q, s})
      BY <1>1, <2>1, <2>2, <2>3, <2>4, <2>6 DEF Merge
    <2> QED BY <1>1, <2>4, <2>7
  <1>4. CASE LMerge
    <2>1. PICK h \in Int : h = u - 1 /\ u = h + 1
      OBVIOUS
    <2>2. PICK s : /\ s = kid[q][h] /\ r_pos[q] = u /\ ~CanLend(s)
                   /\ MergeSibling(s, q, h, p, {q, s})
      BY <1>1, <1>4, <2>1 DEF LMerge
    <2>3. h \in Slots(q)
      BY <1>1, <1>2, <2>1, <2>2 DEF Slots, Positions
    <2>4. s \in Live /\ s # root /\ s # p
      BY <1>1, <2>1, <2>2, <2>3, Siblings
    <2>5. size(s) \in Int /\ size(s) <= INDEXMINR /\ size(s) >= INDEXMINR
      <3>1. SizeAt(s, lv) /\ l_pos[s] \in Int /\ r_pos[s] \in Int
        BY <2>4, PageByPage, LiveTyped
      <3> QED BY <1>1, <1>2, <2>2, <2>4, <3>1, SMTT(30) DEF SizeAt, CanLend, size
    <2>6. size(s) + size(p) + 1 <= 2 * INDEXMINR /\ INDEXMINR <= size(s) + size(p) + 1
      BY <1>1, <1>2, <2>5
    <2>7. Merge(s, q, h, u, p, {q, s})
      BY <1>1, <2>1, <2>2, <2>3, <2>4, <2>6 DEF Merge
    <2> QED BY <1>1, <2>1, <2>4, <2>7
  <1> QED BY <1>3, <1>4

\* Freed pages go to the head of the free list.
LEMMA OneFreed ==
    ASSUME TypeOK, FreeOK, max' = max, NEW b \in Live, free' = <<>> \o <<b>> \o free
    PROVE  Live' = Live \ {b} /\ FreeOK' /\ free' \in Seq(1..max)
  <1>1. free \in Seq(1..max) /\ b \in 1..max /\ b \notin Free
    BY DEF TypeOK, Live
  <1>2. free' \in Seq(1..max) /\ Len(free') = Len(free) + 1 /\ Len(free) \in Nat
    BY <1>1
  <1>3. free'[1] = b /\ \A i \in 1..Len(free) : free'[i + 1] = free[i]
    BY <1>1
  <1>4. DOMAIN free' = 1..(Len(free) + 1) /\ DOMAIN free = 1..Len(free)
    BY <1>1, <1>2
  <1>5. \A i \in 2..(Len(free) + 1) : i - 1 \in 1..Len(free) /\ free'[i] = free[i - 1]
    BY <1>2, <1>3
  <1>6. Free' = Free \cup {b}
    <2>1. ASSUME NEW i \in DOMAIN free' PROVE free'[i] \in Free \cup {b}
      <3>1. i = 1 \/ i \in 2..(Len(free) + 1)
        BY <1>2, <1>4
      <3> QED BY <1>3, <1>4, <1>5, <3>1 DEF Free
    <2>2. ASSUME NEW i \in DOMAIN free PROVE free[i] \in Free'
      <3>1. i + 1 \in DOMAIN free'
        BY <1>2, <1>4
      <3> QED BY <1>3, <1>4, <3>1 DEF Free
    <2>3. b \in Free'
      <3>1. 1 \in DOMAIN free'
        BY <1>2, <1>4
      <3> QED BY <1>3, <3>1 DEF Free
    <2> QED BY <2>1, <2>2, <2>3 DEF Free
  <1>7. FreeOK'
    <2>1. SUFFICES ASSUME NEW i \in DOMAIN free', NEW j \in DOMAIN free', free'[i] = free'[j]
                   PROVE  i = j
      BY DEF FreeOK
    <2>2. i = 1 \/ i \in 2..(Len(free) + 1)
      BY <1>2, <1>4
    <2>3. j = 1 \/ j \in 2..(Len(free) + 1)
      BY <1>2, <1>4
    <2>4. \A x \in 2..(Len(free) + 1) : free'[x] # b
      BY <1>1, <1>4, <1>5 DEF Free
    <2>5. CASE i \in 2..(Len(free) + 1) /\ j \in 2..(Len(free) + 1)
      <3>1. i - 1 = j - 1
        BY <1>4, <1>5, <2>1, <2>5 DEF FreeOK
      <3> QED BY <1>2, <2>5, <3>1
    <2> QED BY <1>3, <2>1, <2>2, <2>3, <2>4, <2>5
  <1> QED BY <1>2, <1>6, <1>7 DEF Live

\* Two pages are put ahead of a list: where its members are then.
TwoPut(x, y, f) == <<x>> \o <<y>> \o f

LEMMA TwoAhead ==
    ASSUME NEW S, NEW f \in Seq(S), NEW x \in S, NEW y \in S, NEW g, g = TwoPut(x, y, f)
    PROVE  g[1] = x /\ g[2] = y /\ \A i \in 1..Len(f) : g[i + 2] = f[i]
  <1>1. g[1] = x
    BY DEF TwoPut
  <1>2. g[2] = y
    BY DEF TwoPut
  <1>3. \A i \in 1..Len(f) : g[i + 2] = f[i]
    BY DEF TwoPut
  <1> QED BY <1>1, <1>2, <1>3

\* The same when two pages are freed.
LEMMA TwoFreed ==
    ASSUME TypeOK, FreeOK, max' = max, NEW b \in Live, NEW q \in Live, b # q,
           free' = <<q>> \o <<b>> \o free
    PROVE  Live' = Live \ {b, q} /\ FreeOK' /\ free' \in Seq(1..max)
  <1>1. free \in Seq(1..max) /\ b \in 1..max /\ b \notin Free /\ q \in 1..max /\ q \notin Free
    BY DEF TypeOK, Live
  <1>2. free' \in Seq(1..max) /\ Len(free') = Len(free) + 2 /\ Len(free) \in Nat
    BY <1>1
  <1>3. free'[1] = q /\ free'[2] = b /\ \A i \in 1..Len(free) : free'[i + 2] = free[i]
    <2>1. q \in 1..max /\ b \in 1..max /\ free \in Seq(1..max)
      BY <1>1
    <2>2. PICK g : g = free'
      OBVIOUS
    <2>3. g = TwoPut(q, b, free)
      BY <2>2 DEF TwoPut
    <2>4. g[1] = q /\ g[2] = b /\ \A i \in 1..Len(free) : g[i + 2] = free[i]
      <3>1. PICK S : S = 1..max
        OBVIOUS
      <3>2. q \in S /\ b \in S /\ free \in Seq(S)
        BY <2>1, <3>1
      <3> HIDE <2>1
      <3> QED BY <2>3, <3>2, TwoAhead
    <2> QED BY <2>2, <2>4
  <1>4. DOMAIN free' = 1..(Len(free) + 2) /\ DOMAIN free = 1..Len(free)
    BY <1>1, <1>2
  <1>5. \A i \in 3..(Len(free) + 2) : i - 2 \in 1..Len(free) /\ free'[i] = free[i - 2]
    BY <1>2, <1>3
  <1>6. Free' = Free \cup {b, q}
    <2>1. ASSUME NEW i \in DOMAIN free' PROVE free'[i] \in Free \cup {b, q}
      <3>1. i = 1 \/ i = 2 \/ i \in 3..(Len(free) + 2)
        BY <1>2, <1>4
      <3> QED BY <1>3, <1>4, <1>5, <3>1 DEF Free
    <2>2. ASSUME NEW i \in DOMAIN free PROVE free[i] \in Free'
      <3>1. i + 2 \in DOMAIN free'
        BY <1>2, <1>4
      <3> QED BY <1>3, <1>4, <3>1 DEF Free
    <2>3. b \in Free' /\ q \in Free'
      <3>1. 1 \in DOMAIN free' /\ 2 \in DOMAIN free'
        BY <1>2, <1>4
      <3> QED BY <1>3, <3>1 DEF Free
    <2> QED BY <2>1, <2>2, <2>3 DEF Free
  <1>7. FreeOK'
    <2>1. SUFFICES ASSUME NEW i \in DOMAIN free', NEW j \in DOMAIN free', free'[i] = free'[j]
                   PROVE  i = j
      BY DEF FreeOK
    <2>2. i = 1 \/ i = 2 \/ i \in 3..(Len(free) + 2)
      BY <1>2, <1>4
    <2>3. j = 1 \/ j = 2 \/ j \in 3..(Len(free) + 2)
      BY <1>2, <1>4
    <2>4. \A x \in 3..(Len(free) + 2) : free'[x] # b /\ free'[x] # q
      BY <1>1, <1>4, <1>5 DEF Free
    <2>5. CASE i \in 3..(Len(free) + 2) /\ j \in 3..(Len(free) + 2)
      <3>1. i - 2 = j - 2
        BY <1>4, <1>5, <2>1, <2>5 DEF FreeOK
      <3> QED BY <1>2, <2>5, <3>1
    <2> QED BY <1>3, <2>1, <2>2, <2>3, <2>4, <2>5
  <1> QED BY <1>2, <1>6, <1>7 DEF Live

\* The upper bound of a when it takes in its right sibling b; what is left of
\* the keys above them.
BoundGoes(a, b, hi, hi2) == hi2[a] = hi[b] /\ \A x \in Live : x # a => hi2[x] = hi[x]

\* The keys of q are some of those it had, and not the one at h.
KeyGoes(q, h) ==
    \A i \in Slots(q)' : \E u \in Slots(q) : u # h /\ key'[q][i] = key[q][u]

\* Pages stay apart when two siblings become one and the key between them
\* goes.
LEMMA BoundaryGoes ==
    ASSUME NEW lo, NEW hi, NEW lv, TypeOK, Good(lo, hi, lv), job.do = "shrink",
           NEW q \in Live, NEW h \in Slots(q), NEW a \in Live, NEW b \in Live, NEW k,
           k = key[q][h], a # b, lv[a] = lv[b], lv[q] = lv[a] + 1, hi[a] = k, lo[b] = k,
           NEW hi2, BoundGoes(a, b, hi, hi2), KeyGoes(q, h),
           Live' \subseteq Live, b \notin Live',
           ArraysStay({a, b, q}),
           \A i \in Slots(a)' : OutsideBelow(key'[a][i], lv[a], lo, hi, lv)
    PROVE  Apart(lo, hi2, lv)'
  <1>1. /\ \A x \in Live : lo[x] \in Int /\ hi[x] \in Int /\ lv[x] \in Nat /\ lo[x] < hi[x]
        /\ k \in Int /\ a # q /\ b # q
    BY PageByPage DEF KeysAt
  <1>2. /\ hi2[a] = hi[b] /\ \A x \in Live : x # a => hi2[x] = hi[x]
        /\ \A x \in Live \ {a, b, q} : Slots(x)' = Slots(x) /\ key'[x] = key[x]
    BY LiveIsPage DEF BoundGoes, ArraysStay, Slots
  <1>3. \A y \in Live \ {a, b} : lv[y] = lv[a] => hi[y] <= lo[a] \/ hi[b] <= lo[y]
    <2>1. SUFFICES ASSUME NEW y \in Live \ {a, b}, lv[y] = lv[a]
                   PROVE  hi[y] <= lo[a] \/ hi[b] <= lo[y]
      OBVIOUS
    <2>2. (hi[y] <= lo[a] \/ hi[a] <= lo[y]) /\ (hi[y] <= lo[b] \/ hi[b] <= lo[y])
      BY <2>1 DEF Good, Apart
    <2> QED BY <1>1, <2>2
  <1>4. ASSUME NEW x \in Live', NEW y \in Live', x # y, lv[x] = lv[y]
        PROVE  hi2[x] <= lo[y] \/ hi2[y] <= lo[x]
    <2>1. x \in Live \ {b} /\ y \in Live \ {b}
      OBVIOUS
    <2>2. CASE x # a /\ y # a
      BY <1>2, <1>4, <2>1, <2>2 DEF Good, Apart
    <2>3. CASE x = a
      BY <1>2, <1>3, <1>4, <2>1, <2>3
    <2>4. CASE y = a
      BY <1>2, <1>3, <1>4, <2>1, <2>4
    <2> QED BY <2>2, <2>3, <2>4
  <1>5. ASSUME NEW v \in Int, Outside(v, lo, hi, a), Outside(v, lo, hi, b), v # k
        PROVE  Outside(v, lo, hi2, a)
    <2>1. v <= lo[a] \/ hi[b] <= v
      BY <1>1, <1>5 DEF Outside
    <2> QED BY <1>2, <2>1 DEF Outside
  <1>6. ASSUME NEW x \in Live, NEW y \in Live, lv[x] > lv[y]
        PROVE  /\ Outside(lo[x], lo, hi, y) /\ Outside(hi[x], lo, hi, y)
               /\ \A i \in Slots(x) : Outside(key[x][i], lo, hi, y)
    BY <1>1, <1>6 DEF Good, Apart
  <1>7. ASSUME NEW x \in Live', lv[x] > lv[a]
        PROVE  /\ Outside(lo[x], lo, hi2, a) /\ Outside(hi2[x], lo, hi2, a)
               /\ \A i \in Slots(x)' : Outside(key'[x][i], lo, hi2, a)
    <2>1. x \in Live /\ lv[x] >= lv[q] /\ lv[x] > lv[b] /\ x \notin {a, b}
      BY <1>1, <1>7
    <2>2. /\ lo[x] # k /\ hi[x] # k
          /\ \A i \in Slots(x) : key[x][i] = k => x = q /\ i = h
      BY <2>1, Alone
    <2>3. /\ Outside(lo[x], lo, hi2, a) /\ Outside(hi[x], lo, hi2, a)
      BY <1>1, <1>5, <1>6, <1>7, <2>1, <2>2
    <2>4. \A i \in Slots(x) : x # q \/ i # h => Outside(key[x][i], lo, hi2, a)
      <3>1. \A i \in Slots(x) : key[x][i] \in Int
        BY <2>1, PageByPage
      <3> QED BY <1>5, <1>6, <1>7, <2>1, <2>2, <3>1
    <2>5. hi2[x] = hi[x]
      BY <1>2, <2>1
    <2>6. CASE x = q
      BY <2>3, <2>4, <2>5, <2>6 DEF KeyGoes
    <2>7. CASE x # q
      BY <1>2, <2>1, <2>3, <2>4, <2>5, <2>7
    <2> QED BY <2>6, <2>7
  <1>8. ASSUME NEW x \in Live', NEW y \in Live', y # a, lv[x] > lv[y]
        PROVE  /\ Outside(lo[x], lo, hi2, y) /\ Outside(hi2[x], lo, hi2, y)
               /\ \A i \in Slots(x)' : Outside(key'[x][i], lo, hi2, y)
    <2>1. x \in Live /\ y \in Live /\ x # b
      OBVIOUS
    <2>2. \A v : Outside(v, lo, hi, y) => Outside(v, lo, hi2, y)
      BY <1>2, <1>8, <2>1 DEF Outside
    <2>3. CASE x = a
      <3>1. Outside(lo[a], lo, hi, y) /\ Outside(hi[b], lo, hi, y)
        BY <1>6, <1>8, <2>1, <2>3
      <3>2. \A i \in Slots(a)' : Outside(key'[a][i], lo, hi, y)
        BY <1>8, <2>1, <2>3 DEF OutsideBelow
      <3> QED BY <1>2, <2>2, <2>3, <3>1, <3>2
    <2>4. CASE x = q
      <3>1. \A i \in Slots(q)' : Outside(key'[q][i], lo, hi, y)
        BY <1>6, <1>8, <2>1, <2>4 DEF KeyGoes
      <3> QED BY <1>1, <1>2, <1>6, <1>8, <2>1, <2>2, <2>4, <3>1
    <2>5. CASE x \notin {a, q}
      BY <1>2, <1>6, <1>8, <2>1, <2>2, <2>5
    <2> QED BY <2>3, <2>4, <2>5
  <1>9. ASSUME NEW x \in Live', NEW y \in Live', x # y, lv[x] > lv[y]
        PROVE  /\ Outside(lo[x], lo, hi2, y) /\ Outside(hi2[x], lo, hi2, y)
               /\ \A i \in Slots(x)' : Outside(key'[x][i], lo, hi2, y)
    BY <1>7, <1>8, <1>9
  <1> QED BY <1>4, <1>9 DEF Apart, Outside

\* What a merge does, in terms of a few numbers.
LEMMA MergeKeeps ==
    ASSUME NEW lo, NEW hi, NEW lv, TypeOK, FreeOK, Good(lo, hi, lv), job.do = "shrink",
           NEW q \in Live, NEW a \in Live, NEW b \in Live, NEW h \in Int, NEW g \in Int, NEW M,
           lv[q] > 0, Merge(a, q, h, g, b, M)
    PROVE  /\ TypeOK' /\ FreeOK' /\ \E lo2, hi2 : Good(lo2, hi2, lv)'
           /\ Contents' = Contents /\ answer' = answer
  <1>1. /\ h \in Slots(q) /\ g = h + 1 /\ a = kid[q][h] /\ b = kid[q][g] /\ job.page \in {a, b}
        /\ size(a) + size(b) + 1 <= 2 * INDEXMINR /\ INDEXMINR <= size(a) + size(b) + 1
        /\ q \in M /\ M \subseteq Live /\ MergeSibling(a, q, h, b, M)
    BY DEF Merge
  <1>2. /\ a # b /\ a # q /\ b # q /\ a # root /\ b # root
        /\ parent_index[a] = q /\ parent_pos[a] = h /\ parent_index[b] = q /\ parent_pos[b] = g
        /\ h \in Positions(q) /\ g \in Positions(q)
        /\ lv[a] = lv[b] /\ lv[q] = lv[a] + 1
        /\ hi[a] = key[q][h] /\ lo[b] = key[q][h]
        /\ lo[a] = LoAt(lo, q, h) /\ hi[b] = HiAt(hi, q, g)
    BY <1>1, Siblings
  <1>3. Live \subseteq Page /\ 0 \notin Live /\ a \in Page /\ q \in Page /\ b \in Page
    BY LiveIsPage
  <1>4. PICK l, r, ls, rs, lq, rq \in Int :
              /\ l = l_pos[a] /\ r = r_pos[a] /\ ls = l_pos[b] /\ rs = r_pos[b]
              /\ lq = l_pos[q] /\ rq = r_pos[q]
              /\ 0 <= l /\ l <= r /\ r <= INDEXCOUNT /\ 0 <= ls /\ ls <= rs /\ rs <= INDEXCOUNT
              /\ 0 <= lq /\ lq <= h /\ h < rq /\ rq <= INDEXCOUNT
              /\ (r - l) + (rs - ls) + 1 <= 2 * INDEXMINR
              /\ INDEXMINR <= (r - l) + (rs - ls) + 1
    <2>1. /\ l_pos[a] \in Nat /\ r_pos[a] \in Nat /\ l_pos[a] <= r_pos[a] /\ r_pos[a] <= INDEXCOUNT
          /\ l_pos[b] \in Nat /\ r_pos[b] \in Nat /\ l_pos[b] <= r_pos[b] /\ r_pos[b] <= INDEXCOUNT
          /\ l_pos[q] \in Nat /\ r_pos[q] \in Nat /\ r_pos[q] <= INDEXCOUNT
      BY LiveTyped
    <2>2. l_pos[q] <= h /\ h < r_pos[q]
      BY <1>1, <2>1 DEF Slots
    <2> QED BY <1>1, <2>1, <2>2 DEF size
  <1>5. /\ 0 <= l /\ l <= r /\ r <= INDEXCOUNT /\ 0 <= ls /\ ls <= rs /\ rs <= INDEXCOUNT
        /\ 0 <= lq /\ lq <= h /\ h < rq /\ rq <= INDEXCOUNT
    BY <1>4
  <1>6. INDEXCOUNT \in Int /\ INDEXMINR \in Int /\ 1 <= INDEXMINR /\ 2 * INDEXMINR + 1 <= INDEXCOUNT
    BY Sizes
  <1>7. PICK d \in Int : d = IF r + (rs - ls) + 1 > INDEXCOUNT THEN -l ELSE 0
    BY <1>4
  <1>8. PICK t, n, e, up \in Int : /\ t = r + d /\ n = l + d /\ e = t + (rs - ls) + 1 /\ up = t + 1 - ls
                                   /\ 0 <= n /\ n <= t /\ t < e /\ e <= INDEXCOUNT
    <2>1. PICK t \in Int : t = r + d
      OBVIOUS
    <2>2. PICK n \in Int : n = l + d
      OBVIOUS
    <2>3. PICK e \in Int : e = t + (rs - ls) + 1
      OBVIOUS
    <2>4. PICK up \in Int : up = t + 1 - ls
      OBVIOUS
    <2>5. 0 <= n /\ n <= t /\ t < e /\ e <= INDEXCOUNT
      <3>1. CASE r + (rs - ls) + 1 > INDEXCOUNT
        BY <1>4, <1>6, <1>7, <2>1, <2>2, <2>3, <3>1
      <3>2. CASE ~(r + (rs - ls) + 1 > INDEXCOUNT)
        BY <1>4, <1>6, <1>7, <2>1, <2>2, <2>3, <3>2
      <3> QED BY <3>1, <3>2
    <2> QED BY <2>1, <2>2, <2>3, <2>4, <2>5
  <1>9. PICK c : c = Closing(q, h)
    OBVIOUS
  <1>10. c \in {0, 1} /\ c \in Int
    BY <1>9 DEF Closing
  <1>11. PICK k, KQ, LQ : k = key[q][h] /\ KQ = KeysWithout(q, h) /\ LQ = KidsWithout(q, h)
    OBVIOUS
  <1>12. PICK K : K = [j \in n..(e - 1) |-> IF j < t THEN key[a][j - d]
                                            ELSE IF j = t THEN k ELSE key[b][j - up]]
    OBVIOUS
  <1>13. PICK L : L = [j \in n..e |-> IF j <= t THEN kid[a][j - d] ELSE kid[b][j - up]]
    OBVIOUS
  <1>14. PICK CA, CB, CQ : /\ CA = (IF d = 0 THEN {} ELSE Kids(a, Positions(a)))
                           /\ CB = Kids(b, Positions(b))
                           /\ CQ = (IF c = 0 THEN Kids(q, (h + 2)..rq) ELSE Kids(q, lq..h))
    OBVIOUS
  <1>15. PICK last \in BOOLEAN : last = (size(q) = 1 /\ parent_index[q] = 0)
    OBVIOUS
  <1>16. /\ l_pos' = [l_pos EXCEPT ![a] = n, ![q] = lq + c]
         /\ r_pos' = [r_pos EXCEPT ![a] = e, ![q] = rq - 1 + c]
         /\ key' = [key EXCEPT ![a] = K, ![q] = KQ]
         /\ kid' = [kid EXCEPT ![a] = L, ![q] = LQ]
         /\ parent_index' = [x \in Page |->
               IF x \in CB THEN a ELSE IF x = a /\ last THEN 0 ELSE parent_index[x]]
         /\ parent_pos' = [x \in Page |->
               IF x \in CA THEN PosOf(a, x) + d
               ELSE IF x \in CB THEN PosOf(b, x) + up
               ELSE IF x = a /\ last THEN 0
               ELSE IF x \in CQ THEN parent_pos[x] - 1 + 2 * c ELSE parent_pos[x]]
         /\ root' = (IF last THEN a ELSE root)
         /\ free' = (IF last THEN <<q>> ELSE <<>>) \o <<b>> \o free
         /\ dirty' = dirty \cup M \cup {b} \cup CA \cup CB \cup CQ
         /\ ShrinkIfSmall(q) /\ max' = max /\ answer' = answer
    <2>1. /\ (IF r_pos[a] + size(b) + 1 > INDEXCOUNT THEN -l_pos[a] ELSE 0) = d
          /\ r_pos[a] + d = t /\ t + size(b) + 1 = e /\ t + 1 - l_pos[b] = up
          /\ l_pos[a] + d = n
      BY <1>4, <1>7, <1>8 DEF size
    <2>2. /\ l_pos' = [l_pos EXCEPT ![a] = @ + d, ![q] = @ + c]
          /\ r_pos' = [r_pos EXCEPT ![a] = e, ![q] = @ - 1 + c]
          /\ key' = [key EXCEPT
                ![a] = [j \in n..(e - 1) |->
                           IF j < t THEN key[a][j - d]
                           ELSE IF j = t THEN key[q][h] ELSE key[b][j - up]],
                ![q] = KeysWithout(q, h)]
          /\ kid' = [kid EXCEPT
                ![a] = [j \in n..e |-> IF j <= t THEN kid[a][j - d] ELSE kid[b][j - up]],
                ![q] = KidsWithout(q, h)]
          /\ parent_index' = [x \in Page |->
               IF x \in CB THEN a ELSE IF x = a /\ last THEN 0 ELSE parent_index[x]]
          /\ parent_pos' = [x \in Page |->
               IF x \in CA THEN PosOf(a, x) + d
               ELSE IF x \in CB THEN PosOf(b, x) + up
               ELSE IF x = a /\ last THEN 0
               ELSE IF x \in CQ THEN parent_pos[x] - 1 + 2 * c ELSE parent_pos[x]]
          /\ root' = (IF last THEN a ELSE root)
          /\ free' = (IF last THEN <<q>> ELSE <<>>) \o <<b>> \o free
          /\ dirty' = dirty \cup M \cup {b} \cup CA \cup CB \cup CQ
          /\ ShrinkIfSmall(q) /\ max' = max /\ answer' = answer
      <3>1. /\ l_pos' = [l_pos EXCEPT ![a] = @ + d, ![q] = @ + c]
            /\ r_pos' = [r_pos EXCEPT ![a] = e, ![q] = @ - 1 + c]
        BY <1>1, <1>9, <2>1 DEF MergeSibling
      <3>2. /\ key' = [key EXCEPT
                  ![a] = [j \in n..(e - 1) |->
                             IF j < t THEN key[a][j - d]
                             ELSE IF j = t THEN key[q][h] ELSE key[b][j - up]],
                  ![q] = KeysWithout(q, h)]
        BY <1>1, <2>1 DEF MergeSibling
      <3>3. /\ kid' = [kid EXCEPT
                  ![a] = [j \in n..e |-> IF j <= t THEN kid[a][j - d] ELSE kid[b][j - up]],
                  ![q] = KidsWithout(q, h)]
        BY <1>1, <2>1 DEF MergeSibling
      <3>4. /\ parent_index' = [x \in Page |->
                 IF x \in CB THEN a ELSE IF x = a /\ last THEN 0 ELSE parent_index[x]]
        BY <1>1, <1>14, <1>15 DEF MergeSibling, Positions
      <3>5. /\ parent_pos' = [x \in Page |->
                 IF x \in CA THEN PosOf(a, x) + d
                 ELSE IF x \in CB THEN PosOf(b, x) + up
                 ELSE IF x = a /\ last THEN 0
                 ELSE IF x \in CQ THEN parent_pos[x] - 1 + 2 * c ELSE parent_pos[x]]
        BY <1>1, <1>4, <1>9, <1>14, <1>15, <2>1 DEF MergeSibling, Positions
      <3>6. /\ root' = (IF last THEN a ELSE root)
            /\ free' = (IF last THEN <<q>> ELSE <<>>) \o <<b>> \o free
        BY <1>1, <1>15 DEF MergeSibling
      <3>7. /\ dirty' = dirty \cup M \cup {b} \cup CA \cup CB \cup CQ
        BY <1>1, <1>4, <1>9, <1>14, <2>1 DEF MergeSibling, Positions
      <3>8. /\ ShrinkIfSmall(q) /\ max' = max /\ answer' = answer
        BY <1>1 DEF MergeSibling
      <3> QED BY <3>1, <3>2, <3>3, <3>4, <3>5, <3>6, <3>7, <3>8
    <2>3. l_pos' = [l_pos EXCEPT ![a] = n, ![q] = lq + c]
      BY <1>2, <1>3, <1>4, <2>1, <2>2 DEF TypeOK
    <2>4. r_pos' = [r_pos EXCEPT ![a] = e, ![q] = rq - 1 + c]
      BY <1>2, <1>3, <1>4, <2>2 DEF TypeOK
    <2> QED BY <1>11, <1>12, <1>13, <2>2, <2>3, <2>4
  <1>17. /\ l_pos'[a] = n /\ l_pos'[q] = lq + c /\ r_pos'[a] = e /\ r_pos'[q] = rq - 1 + c
         /\ key'[a] = K /\ key'[q] = KQ /\ kid'[a] = L /\ kid'[q] = LQ
    BY <1>2, <1>3, <1>16 DEF TypeOK
  <1>18. PICK T : T = {a, b, q}
    OBVIOUS
  <1>19. ArraysStay(T)
    BY <1>16, <1>18 DEF ArraysStay, TypeOK
  <1>20. /\ Slots(a)' = n..(e - 1) /\ Positions(a)' = n..e
         /\ Slots(q)' = (lq + c)..(rq + c - 2) /\ Positions(q)' = (lq + c)..(rq - 1 + c)
         /\ Slots(a) = l..(r - 1) /\ Positions(a) = l..r
         /\ Slots(b) = ls..(rs - 1) /\ Positions(b) = ls..rs
         /\ Slots(q) = lq..(rq - 1) /\ Positions(q) = lq..rq
    <2>1. (rq - 1 + c) - 1 = rq + c - 2
      BY <1>4, <1>10
    <2>2. /\ Slots(a)' = n..(e - 1) /\ Positions(a)' = n..e
          /\ Positions(q)' = (lq + c)..(rq - 1 + c)
      BY <1>17 DEF Slots, Positions
    <2>3. Slots(q)' = (lq + c)..((rq - 1 + c) - 1)
      BY <1>17 DEF Slots
    <2>4. /\ Slots(a) = l..(r - 1) /\ Positions(a) = l..r
          /\ Slots(b) = ls..(rs - 1) /\ Positions(b) = ls..rs
          /\ Slots(q) = lq..(rq - 1) /\ Positions(q) = lq..rq
      BY <1>4 DEF Slots, Positions
    <2> QED BY <2>1, <2>2, <2>3, <2>4
  <1>21. ASSUME NEW j \in n..(e - 1)
         PROVE  /\ j \in Int
                /\ j < t => j - d \in Slots(a) /\ K[j] = key[a][j - d]
                /\ j = t => K[j] = k
                /\ j > t => j - up \in Slots(b) /\ K[j] = key[b][j - up]
    <2>1. j \in Int /\ n <= j /\ j < e
      BY <1>8
    <2>2. j < t => j - d \in l..(r - 1)
      BY <1>4, <1>7, <1>8, <2>1
    <2>3. j > t => j - up \in ls..(rs - 1)
      BY <1>4, <1>7, <1>8, <2>1
    <2>4. K[j] = IF j < t THEN key[a][j - d] ELSE IF j = t THEN k ELSE key[b][j - up]
      BY <1>12
    <2>5. j < t => K[j] = key[a][j - d]
      BY <2>4
    <2>6. j = t => K[j] = k
      BY <1>8, <2>4
    <2>7. j > t => K[j] = key[b][j - up]
      BY <1>8, <2>1, <2>4
    <2> QED BY <1>20, <2>1, <2>2, <2>3, <2>5, <2>6, <2>7
  <1>22. ASSUME NEW j \in n..e
         PROVE  /\ j \in Int
                /\ j <= t => j - d \in Positions(a) /\ L[j] = kid[a][j - d]
                /\ j > t => j - up \in Positions(b) /\ L[j] = kid[b][j - up]
    <2>1. j \in Int /\ n <= j /\ j <= e
      BY <1>8
    <2>2. j <= t => j - d \in l..r
      BY <1>4, <1>7, <1>8, <2>1
    <2>3. j > t => j - up \in ls..rs
      BY <1>4, <1>7, <1>8, <2>1
    <2>4. L[j] = IF j <= t THEN kid[a][j - d] ELSE kid[b][j - up]
      BY <1>13
    <2>5. j <= t => L[j] = kid[a][j - d]
      BY <2>4
    <2>6. j > t => L[j] = kid[b][j - up]
      BY <1>8, <2>1, <2>4
    <2> QED BY <1>20, <2>1, <2>2, <2>3, <2>5, <2>6
  <1>23. ASSUME NEW u \in Positions(a)
         PROVE  u \in Int /\ u + d \in n..e /\ L[u + d] = kid[a][u]
    <2>1. u \in l..r
      BY <1>20
    <2>2. PICK j \in Int : j = u + d
      BY <1>4, <1>7, <2>1
    <2>3. u \in Int /\ l <= u /\ u <= r
      BY <1>4, <2>1
    <2>4. u \in Int /\ j \in n..e /\ j <= t /\ j - d = u
      BY <1>4, <1>7, <1>8, <2>2, <2>3
    <2> QED BY <1>22, <2>2, <2>4
  <1>24. ASSUME NEW u \in Positions(b)
         PROVE  u \in Int /\ u + up \in n..e /\ L[u + up] = kid[b][u]
    <2>1. u \in ls..rs
      BY <1>20
    <2>2. PICK j \in Int : j = u + up
      BY <1>4, <1>8, <2>1
    <2>3. u \in Int /\ ls <= u /\ u <= rs
      BY <1>4, <2>1
    <2>4. j = u + (t + 1 - ls)
      BY <1>8, <2>2
    <2>5. j > t /\ j <= e
      BY <1>4, <1>8, <2>3, <2>4
    <2>6. j - up = u
      BY <2>2, <2>3
    <2>7. j \in n..e /\ j > t
      BY <1>8, <2>5
    <2> QED BY <1>22, <2>2, <2>7, <2>3, <2>6
  <1>25. /\ \A x \in Live : lo[x] \in Int /\ hi[x] \in Int /\ lv[x] \in Nat
         /\ KeysAt(a, lo, hi) /\ KeysAt(b, lo, hi) /\ KeysAt(q, lo, hi)
         /\ DownAt(a, lo, hi, lv) /\ DownAt(b, lo, hi, lv) /\ DownAt(q, lo, hi, lv)
         /\ \A j \in Slots(a) : key[a][j] \in Key
         /\ \A j \in Slots(b) : key[b][j] \in Key
         /\ \A j \in Slots(q) : key[q][j] \in Key
         /\ lv[a] = 0 \/ lv[a] > 0
    BY PageByPage
  <1>26. /\ k \in Key /\ k \in Int /\ lo[b] = k /\ hi[a] = k
         /\ lo[a] < k /\ k < hi[b] /\ lo[a] < hi[b]
    <2>1. k \in Key /\ k \in Int /\ lo[b] = k /\ hi[a] = k
      BY <1>1, <1>2, <1>11, <1>25, KeyAssumption DEF Key
    <2>2. lo[a] < k /\ k < hi[b]
      BY <1>25, <2>1 DEF KeysAt
    <2> QED BY <1>25, <2>1, <2>2
  <1>27. /\ \A x \in CA : x \in Live /\ parent_index[x] = a /\ PosOf(a, x) = parent_pos[x]
         /\ \A x \in Live : parent_index[x] = a => x \in CA \/ d = 0
         /\ \A x \in CB : x \in Live /\ parent_index[x] = b /\ PosOf(b, x) = parent_pos[x]
         /\ \A x \in Live : parent_index[x] = b => x \in CB
    <2>1. a \notin Fresh /\ b \notin Fresh
      BY DEF Fresh
    <2>2. PICK S, SB : S = Positions(a) /\ SB = Positions(b)
      OBVIOUS
    <2>3. /\ Kids(a, S) \subseteq Live
          /\ \A x \in Live : x \in Kids(a, S) <=> parent_index[x] = a /\ parent_pos[x] \in S
          /\ \A x \in Kids(a, S) : PosOf(a, x) = parent_pos[x]
      BY <2>1, <2>2, KidsAre
    <2>4. /\ Kids(b, SB) \subseteq Live
          /\ \A x \in Live : x \in Kids(b, SB) <=> parent_index[x] = b /\ parent_pos[x] \in SB
          /\ \A x \in Kids(b, SB) : PosOf(b, x) = parent_pos[x]
      BY <2>1, <2>2, KidsAre
    <2>5. /\ \A x \in Live : parent_index[x] = a => parent_pos[x] \in S
          /\ \A x \in Live : parent_index[x] = b => parent_pos[x] \in SB
      BY <2>2, ChildSeat
    <2>6. CB = Kids(b, SB) /\ CA = IF d = 0 THEN {} ELSE Kids(a, S)
      BY <1>14, <2>2
    <2> QED BY <2>3, <2>4, <2>5, <2>6
  <1>28. /\ CQ \subseteq Live
         /\ \A x \in Live : x \in CQ <=> /\ parent_index[x] = q
                                        /\ IF c = 0 THEN h + 2 <= parent_pos[x] ELSE parent_pos[x] <= h
         /\ \A x \in Live : parent_index[x] = q => parent_pos[x] \in lq..rq
    <2>1. q \notin Fresh
      BY DEF Fresh
    <2>2. PICK S : S = IF c = 0 THEN (h + 2)..rq ELSE lq..h
      OBVIOUS
    <2>3. S \subseteq lq..rq
      BY <1>4, <2>2
    <2>4. CQ = Kids(q, S) /\ S \subseteq Positions(q)
      BY <1>14, <1>20, <2>2, <2>3
    <2>5. /\ Kids(q, S) \subseteq Live
          /\ \A x \in Live : x \in Kids(q, S) <=> parent_index[x] = q /\ parent_pos[x] \in S
      BY <2>1, <2>4, KidsAre
    <2>6. \A x \in Live : parent_index[x] = q => parent_pos[x] \in lq..rq
      BY <1>20, ChildSeat
    <2>7. \A i \in lq..rq : i \in S <=> IF c = 0 THEN h + 2 <= i ELSE i <= h
      BY <1>4, <2>2
    <2> QED BY <2>4, <2>5, <2>6, <2>7
  <1>29. \A x \in Live : parent_index[x] = a =>
            parent_index'[x] = a /\ parent_pos'[x] = parent_pos[x] + d
    <2>1. SUFFICES ASSUME NEW x \in Live, parent_index[x] = a
                   PROVE  parent_index'[x] = a /\ parent_pos'[x] = parent_pos[x] + d
      OBVIOUS
    <2>2. x \in Page /\ x \notin CB /\ x # a /\ x \notin CQ /\ parent_pos[x] \in Int
      BY <1>2, <1>3, <1>27, <1>28, <2>1, ChildSeat
    <2>3. CASE x \in CA
      BY <1>16, <1>27, <2>1, <2>2, <2>3
    <2>4. CASE x \notin CA
      <3>1. d = 0
        BY <1>27, <2>1, <2>4
      <3> QED BY <1>16, <2>1, <2>2, <2>4, <3>1
    <2> QED BY <2>3, <2>4
  <1>30. \A x \in Live : parent_index[x] = b =>
            parent_index'[x] = a /\ parent_pos'[x] = parent_pos[x] + up
    <2>1. SUFFICES ASSUME NEW x \in Live, parent_index[x] = b
                   PROVE  parent_index'[x] = a /\ parent_pos'[x] = parent_pos[x] + up
      OBVIOUS
    <2>2. x \in Page /\ x \notin CA /\ x \in CB /\ PosOf(b, x) = parent_pos[x]
      BY <1>2, <1>3, <1>27, <2>1
    <2> QED BY <1>16, <2>2
  <1>31. \A x \in Live : parent_index[x] = q /\ x # b /\ ~last =>
            /\ parent_index'[x] = q
            /\ parent_pos'[x] = IF parent_pos[x] <= h THEN parent_pos[x] + c ELSE parent_pos[x] - 1 + c
    <2>1. SUFFICES ASSUME NEW x \in Live, parent_index[x] = q, x # b, ~last
                   PROVE  /\ parent_index'[x] = q
                          /\ parent_pos'[x] = IF parent_pos[x] <= h THEN parent_pos[x] + c
                                              ELSE parent_pos[x] - 1 + c
      OBVIOUS
    <2>2. x \in Page /\ x \notin CA /\ x \notin CB
      BY <1>2, <1>3, <1>27, <2>1
    <2>3. parent_index'[x] = q
      BY <1>16, <2>1, <2>2
    <2>4. parent_pos'[x] = IF x \in CQ THEN parent_pos[x] - 1 + 2 * c ELSE parent_pos[x]
      BY <1>16, <2>1, <2>2
    <2>5. PICK u \in Int : u = parent_pos[x]
      BY <2>1, ChildSeat
    <2>6. u # g
      BY <1>1, <2>1, <2>5, ChildSeat
    <2>7. x \in CQ <=> IF c = 0 THEN h + 2 <= u ELSE u <= h
      BY <1>28, <2>1, <2>5
    <2>8. CASE c = 0
      BY <1>1, <2>3, <2>4, <2>5, <2>6, <2>7, <2>8
    <2>9. CASE c = 1
      BY <1>1, <2>3, <2>4, <2>5, <2>6, <2>7, <2>9
    <2> QED BY <1>10, <2>8, <2>9
  <1>32. last => parent_index'[a] = 0 /\ parent_pos'[a] = 0
    <2>1. a \notin CA /\ a \notin CB
      BY <1>2, <1>27
    <2> QED BY <1>3, <1>16, <2>1
  <1>33. \A x \in Live : parent_index[x] \notin T =>
            parent_index'[x] = parent_index[x] /\ parent_pos'[x] = parent_pos[x]
    <2>1. SUFFICES ASSUME NEW x \in Live, parent_index[x] \notin T
                   PROVE  parent_index'[x] = parent_index[x] /\ parent_pos'[x] = parent_pos[x]
      OBVIOUS
    <2>2. x \in Page /\ x \notin CA /\ x \notin CB /\ x \notin CQ /\ x # a
      BY <1>2, <1>3, <1>18, <1>27, <1>28, <2>1
    <2> QED BY <1>16, <2>2
  <1>34. /\ FreeOK' /\ free' \in Seq(1..max) /\ Live' = IF last THEN Live \ {b, q} ELSE Live \ {b}
    <2>1. CASE last
      <3>1. free' = <<q>> \o <<b>> \o free
        BY <1>16, <2>1
      <3> QED BY <1>2, <1>16, <2>1, <3>1, TwoFreed
    <2>2. CASE ~last
      <3>1. free' = <<>> \o <<b>> \o free
        BY <1>16, <2>2
      <3> QED BY <1>16, <2>2, <3>1, OneFreed
    <2> QED BY <2>1, <2>2
  <1>35. /\ a \in Live' /\ a # 0 /\ Live' \subseteq Live
         /\ ~last => q \in Live' /\ q # 0
    BY <1>2, <1>3, <1>34
  <1>36. last => /\ q = root /\ lo[a] = 0 /\ hi[b] = MaxKey + 1
                 /\ lo[q] = 0 /\ hi[q] = MaxKey + 1
                 /\ \A x \in Live : parent_index[x] = q => x \in {a, b}
    <2>1. SUFFICES ASSUME last
                   PROVE  /\ q = root /\ lo[a] = 0 /\ hi[b] = MaxKey + 1
                          /\ lo[q] = 0 /\ hi[q] = MaxKey + 1
                          /\ \A x \in Live : parent_index[x] = q => x \in {a, b}
      OBVIOUS
    <2>2. size(q) = 1 /\ parent_index[q] = 0
      BY <1>15, <2>1
    <2>3. q = root
      BY <2>2, PageByPage DEF UpAt
    <2>4. lo[q] = 0 /\ hi[q] = MaxKey + 1
      BY <2>3 DEF Good, RootOK
    <2>5. rq - lq = 1
      BY <1>4, <2>2 DEF size
    <2>6. g = h + 1
      BY <1>1
    <2>7. h = lq
      BY <1>5, <2>5
    <2>8. h = lq /\ g = rq
      BY <2>5, <2>6, <2>7
    <2>9. lo[a] = 0 /\ hi[b] = MaxKey + 1
      BY <1>2, <1>4, <2>4, <2>8 DEF LoAt, HiAt
    <2>10. ASSUME NEW x \in Live, parent_index[x] = q
           PROVE  x \in {a, b}
      <3>1. PICK u \in Int : u = parent_pos[x]
        BY <2>10, ChildSeat
      <3>2. kid[q][u] = x /\ u \in lq..rq
        BY <1>28, <2>10, <3>1, ChildSeat
      <3>3. u = h \/ u = g
        <4>1. u \in lq..rq
          BY <3>2
        <4>2. rq = lq + 1
          BY <2>5
        <4> QED BY <2>8, <4>1, <4>2
      <3> QED BY <1>1, <3>2, <3>3
    <2> QED BY <2>3, <2>4, <2>9, <2>10
  <1>37. PICK hi2 : hi2 = [x \in Page |-> IF x = a THEN hi[b] ELSE hi[x]]
    OBVIOUS
  <1>38. /\ hi2[a] = hi[b] /\ \A x \in Live : x # a => hi2[x] = hi[x]
    BY <1>3, <1>37
  <1>39. job' = IF size(q) - 1 < INDEXMINR /\ parent_index[q] # 0
                THEN [do |-> "shrink", page |-> q] ELSE Idle
    BY <1>16 DEF ShrinkIfSmall
  <1>40. KeysAt(a, lo, hi2)'
    <2>1. ASSUME NEW j \in n..(e - 1)
          PROVE  /\ K[j] \in Int /\ lo[a] < K[j] /\ K[j] < hi[b]
                 /\ j < t => K[j] < k
                 /\ j > t => k < K[j]
      <3>1. CASE j < t
        <4>1. PICK u \in Slots(a) : K[j] = key[a][u]
          BY <1>21, <3>1
        <4>2. key[a][u] \in Int /\ lo[a] < key[a][u] /\ key[a][u] < k
          BY <1>25, <1>26, <4>1, KeyAssumption DEF KeysAt, Key
        <4>3. j \in Int /\ lo[a] \in Int /\ hi[b] \in Int
          BY <1>21, <1>25
        <4> QED BY <1>8, <1>26, <3>1, <4>1, <4>2, <4>3
      <3>2. CASE j = t
        BY <1>8, <1>21, <1>26, <3>2
      <3>3. CASE j > t
        <4>1. PICK u \in Slots(b) : K[j] = key[b][u]
          BY <1>21, <3>3
        <4>2. key[b][u] \in Int /\ k < key[b][u] /\ key[b][u] < hi[b]
          BY <1>25, <1>26, <4>1, KeyAssumption DEF KeysAt, Key
        <4>3. j \in Int /\ lo[a] \in Int /\ hi[b] \in Int
          BY <1>21, <1>25
        <4> QED BY <1>8, <1>26, <3>3, <4>1, <4>2, <4>3
      <3>4. j \in Int
        BY <1>21
      <3> QED BY <1>8, <3>1, <3>2, <3>3, <3>4
    <2>2. ASSUME NEW i \in n..(e - 1), NEW j \in n..(e - 1), i < j
          PROVE  K[i] < K[j]
      <3>1. i \in Int /\ j \in Int
        BY <1>21
      <3>2. CASE j < t
        <4>1. PICK u \in Int : u = i - d
          BY <3>1
        <4>2. PICK v \in Int : v = j - d
          BY <3>1
        <4>3. u = i - d /\ v = j - d /\ u < v
          BY <2>2, <3>1, <4>1, <4>2
        <4>4. u \in Slots(a) /\ v \in Slots(a) /\ K[i] = key[a][u] /\ K[j] = key[a][v]
          BY <1>8, <1>21, <2>2, <3>1, <3>2, <4>3
        <4> QED BY <1>25, <4>3, <4>4 DEF KeysAt
      <3>3. CASE i > t
        <4>1. PICK u \in Int : u = i - up
          BY <3>1
        <4>2. PICK v \in Int : v = j - up
          BY <3>1
        <4>3. u = i - up /\ v = j - up /\ u < v
          BY <2>2, <3>1, <4>1, <4>2
        <4>4. u \in Slots(b) /\ v \in Slots(b) /\ K[i] = key[b][u] /\ K[j] = key[b][v]
          BY <1>8, <1>21, <2>2, <3>1, <3>3, <4>3
        <4> QED BY <1>25, <4>3, <4>4 DEF KeysAt
      <3>4. CASE i <= t /\ t <= j
        <4>1. K[t] = k /\ K[i] \in Int /\ K[j] \in Int
          <5>1. t \in n..(e - 1)
            BY <1>8
          <5> QED BY <1>8, <1>21, <2>1, <5>1
        <4>2. (i = t \/ K[i] < k) /\ (j = t \/ k < K[j])
          BY <1>8, <2>1, <3>1, <3>4
        <4> QED BY <1>8, <1>26, <2>2, <3>1, <4>1, <4>2
      <3> QED BY <1>8, <3>1, <3>2, <3>3, <3>4
    <2> QED BY <1>17, <1>20, <1>26, <1>38, <2>1, <2>2 DEF KeysAt
  <1>41. DownAt(a, lo, hi2, lv)'
    <2>1. ASSUME NEW i \in n..e, lv[a] = 0
          PROVE  L[i] = 0
      <3>1. CASE i <= t
        BY <1>22, <1>25, <2>1, <3>1 DEF DownAt
      <3>2. CASE i > t
        BY <1>2, <1>22, <1>25, <2>1, <3>2 DEF DownAt
      <3> QED BY <1>8, <1>22, <3>1, <3>2
    <2>2. ASSUME NEW i \in n..e, lv[a] > 0
          PROVE  /\ L[i] \in Live' /\ lv[L[i]] = lv[a] - 1
                 /\ parent_index'[L[i]] = a /\ parent_pos'[L[i]] = i
                 /\ lo[L[i]] = LoAt(lo, a, i)' /\ hi2[L[i]] = HiAt(hi2, a, i)'
      <3>1. i \in Int /\ n <= i /\ i <= e
        BY <1>8
      <3>2. CASE i <= t
        <4>1. PICK u \in Int : u = i - d
          BY <3>1
        <4>2. u \in Positions(a) /\ L[i] = kid[a][u] /\ u + d = i
          BY <1>7, <1>22, <3>1, <3>2, <4>1
        <4>3. PICK x \in Live : /\ x = kid[a][u] /\ lv[x] = lv[a] - 1
                                /\ parent_index[x] = a /\ parent_pos[x] = u
                                /\ lo[x] = LoAt(lo, a, u) /\ hi[x] = HiAt(hi, a, u)
          BY <1>25, <2>2, <4>2 DEF DownAt
        <4>4. x # a /\ x # b /\ x # q /\ x \in Live'
          BY <1>2, <1>25, <1>34, <4>3, SMTT(30)
        <4>5. parent_index'[x] = a /\ parent_pos'[x] = i
          BY <1>29, <4>2, <4>3
        <4>6. LoAt(lo, a, u) = LoAt(lo, a, i)'
          <5>1. CASE i = n
            <6>1. u = l
              BY <1>4, <1>7, <1>8, <4>1, <5>1
            <6> QED BY <1>4, <1>17, <5>1, <6>1 DEF LoAt
          <5>2. CASE i # n
            <6>1. PICK w \in Int : w = i - 1
              BY <3>1
            <6>2. w \in n..(e - 1) /\ w < t
              BY <1>8, <3>1, <3>2, <5>2, <6>1
            <6>3. w - d = u - 1 /\ u # l
              BY <1>4, <1>7, <1>8, <3>1, <4>1, <5>2, <6>1
            <6>4. K[w] = key[a][u - 1]
              BY <1>21, <6>2, <6>3
            <6> QED BY <1>4, <1>17, <5>2, <6>1, <6>3, <6>4 DEF LoAt
          <5> QED BY <5>1, <5>2
        <4>7. HiAt(hi, a, u) = HiAt(hi2, a, i)'
          <5>1. i # e /\ i \in n..(e - 1)
            BY <1>8, <3>1, <3>2
          <5>2. CASE i = t
            <6>1. u = r
              BY <1>4, <1>7, <1>8, <4>1, <5>2
            <6>2. K[i] = k
              BY <1>21, <5>2, <5>1
            <6> QED BY <1>4, <1>17, <1>26, <5>1, <6>1, <6>2 DEF HiAt
          <5>3. CASE i # t
            <6>1. u # r /\ i < t
              BY <1>4, <1>7, <1>8, <3>1, <3>2, <4>1, <5>3
            <6>2. K[i] = key[a][u]
              BY <1>21, <4>1, <5>1, <6>1
            <6> QED BY <1>4, <1>17, <5>1, <6>1, <6>2 DEF HiAt
          <5> QED BY <5>2, <5>3
        <4> QED BY <1>38, <4>2, <4>3, <4>4, <4>5, <4>6, <4>7
      <3>3. CASE i > t
        <4>1. PICK u \in Int : u = i - up
          BY <1>8, <3>1
        <4>2. u \in Positions(b) /\ L[i] = kid[b][u]
          BY <1>22, <3>3, <4>1
        <4>3. u + up = i
          BY <1>8, <3>1, <4>1
        <4>4. PICK x \in Live : /\ x = kid[b][u] /\ lv[x] = lv[b] - 1
                                /\ parent_index[x] = b /\ parent_pos[x] = u
                                /\ lo[x] = LoAt(lo, b, u) /\ hi[x] = HiAt(hi, b, u)
          BY <1>2, <1>25, <2>2, <4>2 DEF DownAt
        <4>5. x # a /\ x # b /\ x # q /\ x \in Live'
          BY <1>2, <1>25, <1>34, <4>4, SMTT(30)
        <4>6. parent_index'[x] = a /\ parent_pos'[x] = i
          BY <1>30, <4>4, <4>3
        <4>7. LoAt(lo, b, u) = LoAt(lo, a, i)'
          <5>1. PICK w \in Int : w = i - 1
            BY <3>1
          <5>2. w \in n..(e - 1) /\ i # n /\ w >= t
            BY <1>8, <3>1, <3>3, <5>1
          <5>3. CASE w = t
            <6>1. u = ls
              BY <1>8, <3>1, <4>1, <5>3, <5>1
            <6>2. K[w] = k
              BY <1>21, <5>3, <5>2
            <6> QED BY <1>4, <1>17, <1>26, <5>1, <5>2, <6>1, <6>2 DEF LoAt
          <5>4. CASE w # t
            <6>1. w > t
              BY <1>8, <5>4, <5>2
            <6>2. w - up = u - 1 /\ u # ls
              BY <1>4, <1>8, <3>1, <4>1, <5>4, <5>1
            <6>3. K[w] = key[b][u - 1]
              BY <1>21, <5>2, <6>1, <6>2
            <6> QED BY <1>4, <1>17, <5>1, <5>2, <6>2, <6>3 DEF LoAt
          <5> QED BY <5>3, <5>4
        <4>8. HiAt(hi, b, u) = HiAt(hi2, a, i)'
          <5>1. CASE i = e
            <6>1. u = rs
              BY <1>4, <1>8, <4>1, <5>1
            <6> QED BY <1>4, <1>17, <1>38, <5>1, <6>1 DEF HiAt
          <5>2. CASE i # e
            <6>1. u # rs
              BY <1>8, <3>1, <4>1, <5>2
            <6>2. u # rs /\ i \in n..(e - 1)
              BY <1>8, <3>1, <5>2, <6>1
            <6>3. K[i] = key[b][u]
              BY <1>21, <3>3, <4>1, <6>2
            <6> QED BY <1>4, <1>17, <5>2, <6>2, <6>3 DEF HiAt
          <5> QED BY <5>1, <5>2
        <4> QED BY <1>2, <1>38, <4>2, <4>4, <4>5, <4>6, <4>7, <4>8
      <3> QED BY <1>8, <3>1, <3>2, <3>3
    <2>3. \A i \in n..e : lv[a] = 0 => L[i] = 0
      BY <2>1
    <2> QED BY <1>17, <1>20, <2>2, <2>3 DEF DownAt
  <1>42. /\ lq + c <= INDEXCOUNT /\ 0 <= rq - 1 + c /\ rq - 1 + c <= INDEXCOUNT
         /\ lq + c <= rq - 1 + c
         /\ KQ \in [(lq + c)..(rq + c - 2) -> Key]
         /\ \A j \in (lq + c)..(rq + c - 2) :
               /\ j < h + c => j - c \in Slots(q) /\ j - c < h /\ KQ[j] = key[q][j - c]
               /\ j >= h + c => j - c + 1 \in Slots(q) /\ j - c + 1 > h /\ KQ[j] = key[q][j - c + 1]
    <2>1. /\ l_pos[q] + c <= INDEXCOUNT /\ 0 <= r_pos[q] - 1 + c /\ r_pos[q] - 1 + c <= INDEXCOUNT
          /\ l_pos[q] + c <= r_pos[q] - 1 + c
          /\ KQ \in [(l_pos[q] + c)..(r_pos[q] + c - 2) -> Key]
          /\ \A j \in (l_pos[q] + c)..(r_pos[q] + c - 2) :
               /\ j < h + c => j - c \in Slots(q) /\ j - c < h /\ KQ[j] = key[q][j - c]
               /\ j >= h + c => j - c + 1 \in Slots(q) /\ j - c + 1 > h /\ KQ[j] = key[q][j - c + 1]
      BY <1>1, <1>9, <1>11, ClosedKeys
    <2>2. lq = l_pos[q] /\ rq = r_pos[q]
      BY <1>4
    <2> QED BY <2>1, <2>2
  <1>43. \A i, j \in (lq + c)..(rq + c - 2) : i < j => KQ[i] < KQ[j]
    <2>1. \A i, j \in Slots(q) : i < j => key[q][i] < key[q][j]
      BY <1>25 DEF KeysAt
    <2>2. \A i, j \in (l_pos[q] + c)..(r_pos[q] + c - 2) : i < j => KQ[i] < KQ[j]
      BY <1>1, <1>9, <1>11, <2>1, ClosedInOrder
    <2> QED BY <1>4, <2>2
  <1>44. /\ LQ \in [(lq + c)..(rq - 1 + c) -> 0..max]
         /\ \A j \in (lq + c)..(rq - 1 + c) :
               /\ j <= h + c => j - c \in Positions(q) /\ j - c <= h /\ LQ[j] = kid[q][j - c]
               /\ j > h + c => /\ j - c + 1 \in Positions(q) /\ j - c + 1 > h + 1
                               /\ LQ[j] = kid[q][j - c + 1]
    <2>1. /\ LQ \in [(l_pos[q] + c)..(r_pos[q] - 1 + c) -> 0..max]
          /\ \A j \in (l_pos[q] + c)..(r_pos[q] - 1 + c) :
               /\ j <= h + c => j - c \in Positions(q) /\ j - c <= h /\ LQ[j] = kid[q][j - c]
               /\ j > h + c => /\ j - c + 1 \in Positions(q) /\ j - c + 1 > h + 1
                               /\ LQ[j] = kid[q][j - c + 1]
      BY <1>1, <1>9, <1>11, ClosedKids
    <2>2. lq = l_pos[q] /\ rq = r_pos[q]
      BY <1>4
    <2> QED BY <2>1, <2>2
  <1>45. \A j \in (lq + c)..(rq + c - 2) :
            \E u \in Slots(q) : u # h /\ KQ[j] = key[q][u]
    <2>1. SUFFICES ASSUME NEW j \in (lq + c)..(rq + c - 2)
                   PROVE  \E u \in Slots(q) : u # h /\ KQ[j] = key[q][u]
      OBVIOUS
    <2>2. j \in Int
      BY <1>10
    <2>3. CASE j < h + c
      <3>1. PICK u \in Int : u = j - c
        BY <1>10, <2>2
      <3>2. u \in Slots(q) /\ u < h /\ KQ[j] = key[q][u]
        BY <1>42, <2>3, <3>1
      <3> QED BY <3>2
    <2>4. CASE j >= h + c
      <3>1. PICK u \in Int : u = j - c + 1
        BY <1>10, <2>2
      <3>2. u \in Slots(q) /\ u > h /\ KQ[j] = key[q][u]
        BY <1>42, <2>4, <3>1
      <3> QED BY <3>2
    <2> QED BY <1>10, <2>2, <2>3, <2>4
  <1>46. KeysAt(q, lo, hi2)'
    <2>1. \A j \in (lq + c)..(rq + c - 2) : lo[q] < KQ[j] /\ KQ[j] < hi[q]
      BY <1>25, <1>45 DEF KeysAt
    <2>2. hi2[q] = hi[q] /\ lo[q] < hi[q]
      BY <1>2, <1>25, <1>38 DEF KeysAt
    <2> QED BY <1>17, <1>20, <1>43, <2>1, <2>2 DEF KeysAt
  <1>47. ASSUME ~last
         PROVE  DownAt(q, lo, hi2, lv)'
    <2>1. ASSUME NEW i \in (lq + c)..(rq - 1 + c)
          PROVE  /\ LQ[i] \in Live' /\ lv[LQ[i]] = lv[q] - 1
                 /\ parent_index'[LQ[i]] = q /\ parent_pos'[LQ[i]] = i
                 /\ lo[LQ[i]] = LoAt(lo, q, i)' /\ hi2[LQ[i]] = HiAt(hi2, q, i)'
      <3>1. i \in Int /\ lq + c <= i /\ i <= rq - 1 + c
        BY <1>10
      <3>2. PICK u \in Int : u = IF i <= h + c THEN i - c ELSE i - c + 1
        BY <1>10, <3>1
      <3>3. u \in Positions(q) /\ LQ[i] = kid[q][u] /\ u # g
        <4>1. g = h + 1 /\ ~(h + 1 <= h)
          BY <1>1
        <4>2. CASE i <= h + c
          <5>1. u = i - c
            BY <3>2, <4>2
          <5>2. u \in Positions(q) /\ u <= h /\ LQ[i] = kid[q][u]
            BY <1>44, <4>2, <5>1
          <5> QED BY <4>1, <5>2
        <4>3. CASE ~(i <= h + c)
          <5>1. u = i - c + 1 /\ i > h + c
            BY <1>10, <3>1, <3>2, <4>3
          <5>2. u \in Positions(q) /\ u > h + 1 /\ LQ[i] = kid[q][u]
            BY <1>44, <5>1
          <5> QED BY <4>1, <5>2
        <4> QED BY <4>2, <4>3
      <3>4. PICK x \in Live : /\ x = kid[q][u] /\ lv[x] = lv[q] - 1
                              /\ parent_index[x] = q /\ parent_pos[x] = u
                              /\ lo[x] = LoAt(lo, q, u) /\ hi[x] = HiAt(hi, q, u)
        BY <1>25, <3>3 DEF DownAt
      <3>5. x # b /\ x # q /\ x \in Live' /\ (x = a <=> u = h)
        <4>1. x # b
          BY <1>2, <3>3, <3>4
        <4>2. x # q
          BY <1>25, <3>4
        <4>3. x \in Live'
          BY <1>34, <1>47, <4>1
        <4>4. x = a <=> u = h
          BY <1>1, <1>2, <3>4
        <4> QED BY <4>1, <4>2, <4>3, <4>4
      <3>6. (u <= h <=> i <= h + c) /\ (u <= h => i = u + c) /\ (u > h => i = u - 1 + c)
        BY <1>10, <3>1, <3>2
      <3>7. parent_index'[x] = q /\ parent_pos'[x] = i
        BY <1>31, <1>47, <3>4, <3>5, <3>6
      <3>8. LoAt(lo, q, u) = LoAt(lo, q, i)'
        <4>1. CASE i = lq + c
          <5>1. u = lq
            BY <1>10, <1>5, <3>2, <4>1
          <5> QED BY <1>4, <1>17, <4>1, <5>1 DEF LoAt
        <4>2. CASE i # lq + c
          <5>1. PICK w \in Int : w = i - 1
            BY <3>1
          <5>2. w \in (lq + c)..(rq + c - 2)
            BY <1>10, <1>5, <3>1, <4>2, <5>1
          <5>3. PICK v \in Int : v = u - 1
            BY <3>2
          <5>4. u # lq
            BY <1>10, <1>5, <3>1, <3>2, <4>2
          <5>5. CASE i <= h + c
            <6>1. w < h + c /\ w - c = v
              BY <1>10, <3>1, <3>2, <5>1, <5>3, <5>5
            <6>2. KQ[w] = key[q][v]
              BY <1>42, <5>2, <6>1
            <6> QED BY <1>4, <1>17, <4>2, <5>1, <5>3, <5>4, <6>2 DEF LoAt
          <5>6. CASE ~(i <= h + c)
            <6>1. w >= h + c /\ w - c + 1 = v
              BY <1>10, <3>1, <3>2, <5>1, <5>3, <5>6
            <6>2. KQ[w] = key[q][v]
              BY <1>42, <5>2, <6>1
            <6> QED BY <1>4, <1>17, <4>2, <5>1, <5>3, <5>4, <6>2 DEF LoAt
          <5> QED BY <5>5, <5>6
        <4> QED BY <4>1, <4>2
      <3>9. hi2[x] = HiAt(hi2, q, i)'
        <4>1. hi2[q] = hi[q] /\ hi2[a] = hi[b] /\ (x # a => hi2[x] = hi[x]) /\ hi[b] = HiAt(hi, q, g)
          BY <1>2, <1>38
        <4>2. CASE i = rq - 1 + c
          <5>1. HiAt(hi2, q, i)' = hi[q]
            BY <1>17, <4>1, <4>2 DEF HiAt
          <5>2. CASE u = h
            <6>1. g = h + 1
              BY <1>1
            <6>2. g = rq
              BY <1>10, <1>5, <3>6, <4>2, <5>2, <6>1
            <6> QED BY <1>4, <3>5, <4>1, <5>1, <5>2, <6>2 DEF HiAt
          <5>3. CASE u # h
            <6>1. u \in lq..rq
              BY <1>20, <3>3
            <6>2. g = h + 1
              BY <1>1
            <6>3. u = rq
              BY <1>10, <1>5, <3>3, <3>6, <4>2, <5>3, <6>1, <6>2
            <6> QED BY <1>4, <3>4, <3>5, <4>1, <5>1, <5>3, <6>3 DEF HiAt
          <5> QED BY <5>2, <5>3
        <4>3. CASE i # rq - 1 + c
          <5>1. i \in (lq + c)..(rq + c - 2)
            BY <1>10, <1>5, <3>1, <4>3
          <5>2. HiAt(hi2, q, i)' = KQ[i]
            BY <1>17, <4>3 DEF HiAt
          <5>3. CASE u = h
            <6>1. g = h + 1
              BY <1>1
            <6>2. i >= h + c /\ i - c + 1 = g /\ g # rq
              BY <1>10, <1>5, <3>1, <3>6, <4>3, <5>3, <6>1
            <6>3. KQ[i] = key[q][g]
              BY <1>42, <5>1, <6>2
            <6> QED BY <1>4, <3>5, <4>1, <5>2, <5>3, <6>2, <6>3 DEF HiAt
          <5>4. CASE u # h /\ i <= h + c
            <6>1. i < h + c /\ i - c = u /\ u # rq
              BY <1>10, <1>5, <3>1, <3>2, <5>4
            <6>2. KQ[i] = key[q][u]
              BY <1>42, <5>1, <6>1
            <6> QED BY <1>4, <3>4, <3>5, <4>1, <5>2, <5>4, <6>1, <6>2 DEF HiAt
          <5>5. CASE u # h /\ ~(i <= h + c)
            <6>1. i >= h + c /\ i - c + 1 = u /\ u # rq
              BY <1>10, <1>5, <3>1, <3>2, <4>3, <5>5
            <6>2. KQ[i] = key[q][u]
              BY <1>42, <5>1, <6>1
            <6> QED BY <1>4, <3>4, <3>5, <4>1, <5>2, <5>5, <6>1, <6>2 DEF HiAt
          <5> QED BY <5>3, <5>4, <5>5
        <4> QED BY <4>2, <4>3
      <3>10. x # a => lo[x] = LoAt(lo, q, u)
        BY <3>4
      <3> QED BY <3>3, <3>4, <3>5, <3>7, <3>8, <3>9
    <2>2. lv[q] # 0
      BY <1>25
    <2> QED BY <1>17, <1>20, <2>1, <2>2 DEF DownAt
  <1>48. SizeAt(a, lv)'
    <2>1. size(a)' = (r - l) + (rs - ls) + 1
      <3>1. size(a)' = e - n
        BY <1>17 DEF size
      <3> QED BY <1>8, <3>1
    <2>2. (r - l) + (rs - ls) + 1 <= 2 * INDEXMINR /\ INDEXMINR <= (r - l) + (rs - ls) + 1
      BY <1>4
    <2>3. size(a)' < INDEXCOUNT /\ size(a)' >= INDEXMINR /\ size(a)' > 0
      BY <1>6, <2>1, <2>2
    <2> QED BY <2>3 DEF SizeAt
  <1>49. size(q) = rq - lq /\ size(q)' = size(q) - 1 /\ size(q) \in Int /\ size(q) > 0
    <2>1. size(q) = rq - lq
      BY <1>4 DEF size
    <2>2. size(q)' = (rq - 1 + c) - (lq + c)
      BY <1>17 DEF size
    <2> QED BY <1>10, <1>5, <2>1, <2>2
  <1>50. /\ size(q) < INDEXCOUNT
         /\ q # root => size(q) >= INDEXMINR
         /\ q # root => parent_index[q] # 0
         /\ q = root => parent_index[q] = 0
    <2>1. q # job.page
      BY <1>1, <1>2
    <2>2. SizeAt(q, lv) /\ UpAt(q)
      BY PageByPage
    <2>3. parent_index[root] = 0
      BY DEF Good, RootOK
    <2> QED BY <2>1, <2>2, <2>3 DEF SizeAt, UpAt
  <1>51. ASSUME ~last
         PROVE  SizeAt(q, lv)'
    <2>1. root' = root
      BY <1>16, <1>51
    <2>2. size(q) - 1 < INDEXMINR /\ parent_index[q] # 0 => job'.do = "shrink" /\ q = job'.page
      BY <1>39
    <2>3. parent_index[q] # 0 \/ size(q) > 1
      <3>1. ~(size(q) = 1 /\ parent_index[q] = 0)
        BY <1>15, <1>51
      <3>2. PICK z \in Int : z = size(q)
        BY <1>49
      <3>3. z > 0
        BY <1>49, <3>2
      <3>4. z = 1 \/ z > 1
        BY <3>2, <3>3
      <3> QED BY <3>1, <3>2, <3>4
    <2>4. size(q) - 1 > 0 \/ (job'.do = "shrink" /\ q = job'.page)
      BY <1>6, <1>49, <2>2, <2>3
    <2>5. q # root => size(q) - 1 >= INDEXMINR \/ (job'.do = "shrink" /\ q = job'.page)
      BY <1>6, <1>49, <1>50, <2>2
    <2>6. size(q) - 1 < INDEXCOUNT
      BY <1>6, <1>49, <1>50
    <2> QED BY <1>49, <2>1, <2>4, <2>5, <2>6 DEF SizeAt
  <1>52. ASSUME NEW x \in Live', parent_index[x] \in T
         PROVE  UpAt(x)'
    <2>1. x \in Live
      BY <1>35
    <2>2. CASE parent_index[x] = a
      <3>1. PICK u \in Positions(a) : u = parent_pos[x] /\ kid[a][u] = x
        BY <2>1, <2>2, ChildSeat
      <3>2. parent_index'[x] = a /\ parent_pos'[x] = u + d
        BY <1>29, <2>1, <2>2, <3>1
      <3>3. u + d \in Positions(a)' /\ kid'[a][u + d] = x
        BY <1>17, <1>20, <1>23, <3>1
      <3> QED BY <1>35, <3>2, <3>3 DEF UpAt
    <2>3. CASE parent_index[x] = b
      <3>1. PICK u \in Positions(b) : u = parent_pos[x] /\ kid[b][u] = x
        BY <2>1, <2>3, ChildSeat
      <3>2. parent_index'[x] = a /\ parent_pos'[x] = u + up
        BY <1>30, <2>1, <2>3, <3>1
      <3>3. u + up \in Positions(a)' /\ kid'[a][u + up] = x
        BY <1>17, <1>20, <1>24, <3>1
      <3> QED BY <1>35, <3>2, <3>3 DEF UpAt
    <2>4. CASE parent_index[x] = q /\ last
      <3>1. x = a
        BY <1>34, <1>36, <2>1, <2>4
      <3>2. root' = a
        BY <1>16, <2>4
      <3> QED BY <1>32, <2>4, <3>1, <3>2 DEF UpAt
    <2>5. CASE parent_index[x] = q /\ ~last
      <3>1. x # b
        BY <1>34, <2>5
      <3>2. PICK u \in Int : u \in Positions(q) /\ u = parent_pos[x] /\ kid[q][u] = x
        BY <2>1, <2>5, ChildSeat
      <3>3. PICK j \in Int : j = IF u <= h THEN u + c ELSE u - 1 + c
        BY <1>10, <3>2
      <3>4. parent_index'[x] = q /\ parent_pos'[x] = j
        BY <1>31, <2>1, <2>5, <3>1, <3>2, <3>3
      <3>5. u # g /\ u \in lq..rq
        BY <1>1, <1>20, <3>1, <3>2
      <3>6. g = h + 1
        BY <1>1
      <3>7. lq <= u /\ u <= rq /\ u # h + 1
        BY <3>5, <3>6
      <3>8. /\ j \in (lq + c)..(rq - 1 + c)
            /\ j <= h + c => j - c = u
            /\ j > h + c => j - c + 1 = u
        <4>1. CASE u <= h
          BY <1>10, <1>5, <3>3, <3>7, <4>1
        <4>2. CASE u > h
          BY <1>10, <1>5, <3>3, <3>7, <4>2
        <4> QED BY <3>2, <4>1, <4>2
      <3>9. LQ[j] = x
        <4>1. CASE j <= h + c
          BY <1>44, <3>2, <3>8, <4>1
        <4>2. CASE j > h + c
          BY <1>44, <3>2, <3>8, <4>2
        <4> QED BY <1>10, <4>1, <4>2
      <3>10. q \in Live' /\ q # 0
        BY <1>35, <2>5
      <3> QED BY <1>17, <1>20, <3>4, <3>8, <3>9, <3>10 DEF UpAt
    <2> QED BY <1>18, <1>52, <2>2, <2>3, <2>4, <2>5
  <1>53. Keys(lo, hi2)' /\ Down(lo, hi2, lv)' /\ Up' /\ Size(lv)'
    <2>1. /\ job.page \in T /\ T \subseteq Live /\ Live' \subseteq Live /\ Live \ Live' \subseteq T
      BY <1>1, <1>18, <1>34
    <2>2. \A x \in Live \ Live' : parent_index[x] \in T \cup {0}
      BY <1>2, <1>15, <1>18, <1>34
    <2>3. root' = root \/ root \notin Live'
      BY <1>16, <1>34, <1>36
    <2>4. job'.do \in {"idle", "shrink"}
      BY <1>39 DEF Idle
    <2>5. KinStay(T, lo, hi, lo, hi2)
      <3>1. \A x \in Live : parent_index[x] \notin T \/ x \notin T => lo[x] = lo[x] /\ hi2[x] = hi[x]
        BY <1>2, <1>18, <1>38
      <3> QED BY <1>33, <3>1 DEF KinStay
    <2>6. T \cap Live' = IF last THEN {a} ELSE {a, q}
      BY <1>2, <1>18, <1>34
    <2>7. \A x \in T \cap Live' : KeysAt(x, lo, hi2)'
      BY <1>40, <1>46, <2>6
    <2>8. \A x \in T \cap Live' : DownAt(x, lo, hi2, lv)'
      BY <1>41, <1>47, <2>6
    <2>9. \A x \in T \cap Live' : SizeAt(x, lv)'
      BY <1>48, <1>51, <2>6
    <2>10. \A x \in Live' : parent_index[x] \in T => UpAt(x)'
      BY <1>52
    <2> QED BY <1>19, <2>1, <2>2, <2>3, <2>4, <2>5, <2>7, <2>8, <2>9, <2>10, FrameKeeps
  <1>54. GhostType(lo, hi2, lv)'
    <2>1. \A x \in Live : lo[x] \in 0..(MaxKey + 1) /\ hi[x] \in 0..(MaxKey + 1) /\ lv[x] \in Nat
      BY PageByPage
    <2> QED BY <1>35, <1>38, <2>1 DEF GhostType
  <1>55. Job(lo, hi2, lv)'
    <2>1. CASE size(q) - 1 < INDEXMINR /\ parent_index[q] # 0
      <3>1. job' = [do |-> "shrink", page |-> q] /\ ~last
        BY <1>15, <1>39, <2>1
      <3>2. q \in Live' /\ q \in dirty'
        BY <1>1, <1>16, <1>35, <3>1
      <3>3. size(q)' = INDEXMINR - 1
        <4>1. q # root
          BY <1>50, <2>1
        <4> QED BY <1>6, <1>49, <1>50, <2>1, <4>1
      <3>4. parent_index'[q] # 0
        <4>1. q \notin CB /\ q # a
          BY <1>2, <1>25, <1>27, ChildSeat
        <4> QED BY <1>3, <1>16, <2>1, <4>1
      <3> QED BY <3>1, <3>2, <3>3, <3>4 DEF Job
    <2>2. CASE ~(size(q) - 1 < INDEXMINR /\ parent_index[q] # 0)
      BY <1>39, <2>2 DEF Job
    <2> QED BY <2>1, <2>2
  <1>56. RootOK(lo, hi2, lv)'
    <2>1. /\ root \in Live /\ parent_index[root] = 0 /\ lo[root] = 0 /\ hi[root] = MaxKey + 1
          /\ \A x \in Live : lv[x] <= lv[root]
      BY DEF Good, RootOK
    <2>2. CASE last
      <3>1. root' = a /\ a \in Live' /\ parent_index'[a] = 0 /\ lo[a] = 0 /\ hi2[a] = MaxKey + 1
        BY <1>16, <1>32, <1>35, <1>36, <1>38, <2>2
      <3>2. ASSUME NEW x \in Live'
            PROVE  lv[x] <= lv[a]
        <4>1. x \in Live /\ x # q /\ q = root
          BY <1>34, <1>35, <1>36, <2>2
        <4>2. /\ lo[x] \in 0..(MaxKey + 1) /\ hi[x] \in 0..(MaxKey + 1) /\ lo[x] < hi[x]
          BY <4>1, PageByPage DEF KeysAt
        <4>3. lv[x] # lv[q]
          <5>1. SUFFICES ASSUME lv[x] = lv[q] PROVE FALSE
            OBVIOUS
          <5>2. hi[x] <= lo[q] \/ hi[q] <= lo[x]
            BY <4>1, <5>1 DEF Good, Apart
          <5> QED BY <1>36, <2>2, <4>2, <5>2, KeyAssumption
        <4>4. lv[x] \in Nat /\ lv[q] \in Nat /\ lv[a] \in Nat /\ lv[x] <= lv[q] /\ lv[q] = lv[a] + 1
          BY <1>2, <1>25, <2>1, <4>1
        <4> QED BY <4>3, <4>4
      <3> QED BY <3>1, <3>2 DEF RootOK
    <2>3. CASE ~last
      <3>1. root' = root /\ root \in Live' /\ hi2[root] = hi[root]
        BY <1>2, <1>16, <1>34, <1>38, <2>1, <2>3
      <3>2. parent_index'[root] = 0
        <4>1. root \notin CB /\ root \in Page
          BY <1>3, <1>27, <2>1
        <4> QED BY <1>2, <1>16, <2>1, <2>3, <4>1
      <3> QED BY <1>35, <2>1, <3>1, <3>2 DEF RootOK
    <2> QED BY <2>2, <2>3
  <1>57. Apart(lo, hi2, lv)'
    <2>1. BoundGoes(a, b, hi, hi2)
      BY <1>38 DEF BoundGoes
    <2>2. KeyGoes(q, h)
      BY <1>17, <1>20, <1>45 DEF KeyGoes
    <2>3. Live' \subseteq Live /\ b \notin Live'
      BY <1>34
    <2>4. ASSUME NEW i \in Slots(a)'
          PROVE  OutsideBelow(key'[a][i], lv[a], lo, hi, lv)
      <3>1. lv[a] \in Int /\ lv[a] <= lv[a] /\ lv[a] <= lv[b] /\ lv[a] <= lv[q]
        BY <1>2, <1>25
      <3>2. i \in n..(e - 1) /\ key'[a][i] = K[i]
        BY <1>17, <1>20
      <3>3. CASE i < t
        <4>1. PICK u \in Slots(a) : K[i] = key[a][u]
          BY <1>21, <3>2, <3>3
        <4> QED BY <3>1, <3>2, <4>1, KeysOutside
      <3>4. CASE i = t
        <4>1. K[i] = key[q][h]
          BY <1>11, <1>21, <3>2, <3>4
        <4> QED BY <1>1, <3>1, <3>2, <4>1, KeysOutside
      <3>5. CASE i > t
        <4>1. PICK u \in Slots(b) : K[i] = key[b][u]
          BY <1>21, <3>2, <3>5
        <4> QED BY <3>1, <3>2, <4>1, KeysOutside
      <3>6. i \in Int
        BY <1>21, <3>2
      <3> QED BY <1>8, <3>3, <3>4, <3>5, <3>6
    <2>5. ArraysStay({a, b, q})
      BY <1>18, <1>19
    <2> QED BY <1>1, <1>2, <2>1, <2>2, <2>3, <2>4, <2>5, BoundaryGoes
  <1>58. Good(lo, hi2, lv)'
    BY <1>53, <1>54, <1>55, <1>56, <1>57 DEF Good
  <1>59. TypeOK'
    <2>1. TypedAt(a)'
      <3>1. \A j \in n..(e - 1) : K[j] \in Key
        <4>1. SUFFICES ASSUME NEW j \in n..(e - 1) PROVE K[j] \in Key
          OBVIOUS
        <4>2. j < t \/ j = t \/ j > t
          BY <1>8, <1>21
        <4> QED BY <1>21, <1>25, <1>26, <4>2
      <3>2. \A j \in n..e : L[j] \in 0..max
        <4>1. SUFFICES ASSUME NEW j \in n..e PROVE L[j] \in 0..max
          OBVIOUS
        <4>2. j <= t \/ j > t
          BY <1>8, <1>22
        <4>3. /\ \A i \in Positions(a) : kid[a][i] \in 0..max
              /\ \A i \in Positions(b) : kid[b][i] \in 0..max
          BY LiveTyped
        <4> QED BY <1>22, <4>2, <4>3
      <3>3. K \in [n..(e - 1) -> Key]
        BY <1>12, <3>1
      <3>4. L \in [n..e -> 0..max]
        BY <1>13, <3>2
      <3>5. n <= e
        BY <1>8
      <3> QED BY <1>16, <1>17, <3>3, <3>4, <3>5 DEF TypedAt
    <2>2. TypedAt(b)'
      <3>1. /\ l_pos[b] <= r_pos[b] /\ key[b] \in [l_pos[b]..(r_pos[b] - 1) -> Key]
            /\ kid[b] \in [l_pos[b]..r_pos[b] -> 0..max]
        BY <1>3 DEF TypeOK
      <3>2. l_pos'[b] = l_pos[b] /\ r_pos'[b] = r_pos[b] /\ key'[b] = key[b] /\ kid'[b] = kid[b]
        BY <1>2, <1>3, <1>16 DEF TypeOK
      <3> QED BY <1>16, <3>1, <3>2 DEF TypedAt
    <2>3. TypedAt(q)'
      <3>1. (rq - 1 + c) - 1 = rq + c - 2
        BY <1>10
      <3> QED BY <1>16, <1>17, <1>42, <1>44, <3>1 DEF TypedAt
    <2>4. \A x \in T : TypedAt(x)'
      BY <1>18, <2>1, <2>2, <2>3
    <2>5. l_pos' \in [Page -> 0..INDEXCOUNT]
      <3>1. n \in 0..INDEXCOUNT
        BY <1>6, <1>8
      <3>2. lq + c \in 0..INDEXCOUNT
        <4>1. lq + c \in Int /\ 0 <= lq + c
          BY <1>10, <1>5
        <4> QED BY <1>6, <1>42, <4>1
      <3> QED BY <1>16, <3>1, <3>2 DEF TypeOK
    <2>6. r_pos' \in [Page -> 0..INDEXCOUNT]
      <3>1. e \in 0..INDEXCOUNT
        BY <1>6, <1>8
      <3>2. rq - 1 + c \in 0..INDEXCOUNT
        BY <1>6, <1>10, <1>42
      <3> QED BY <1>16, <3>1, <3>2 DEF TypeOK
    <2>7. DOMAIN key' = Page /\ DOMAIN kid' = Page
      BY <1>16 DEF TypeOK
    <2>8. parent_index' \in [Page -> 0..max]
      <3>1. a \in 0..max /\ 0 \in 0..max
        BY DEF Live, TypeOK, Page
      <3> QED BY <1>16, <3>1 DEF TypeOK
    <2>9. parent_pos' \in [Page -> 0..INDEXCOUNT]
      <3>1. ASSUME NEW x \in Page
            PROVE  parent_pos'[x] \in 0..INDEXCOUNT
        <4>1. CASE x \in CA \cup CB
          <5>1. x \in Live /\ parent_index[x] \in {a, b}
            BY <1>27, <4>1
          <5>2. x \in Live'
            <6>1. x # b /\ (last => x # q)
              BY <1>2, <1>3, <1>15, <5>1
            <6> QED BY <1>34, <5>1, <6>1
          <5>3. parent_index'[x] = a /\ UpAt(x)'
            BY <1>18, <1>29, <1>30, <1>52, <5>1, <5>2
          <5>4. parent_pos'[x] \in n..e
            BY <1>20, <1>35, <5>3 DEF UpAt
          <5> QED BY <1>6, <1>8, <5>4
        <4>2. CASE x = a /\ last
          BY <1>6, <1>32, <4>2
        <4>3. CASE x \in CQ /\ x \notin CA \cup CB /\ ~(x = a /\ last)
          <5>1. parent_pos'[x] = parent_pos[x] - 1 + 2 * c
            BY <1>16, <4>3
          <5>2. PICK u \in Int : u = parent_pos[x]
            BY <1>28, <4>3, ChildSeat
          <5>3. u \in lq..rq /\ (IF c = 0 THEN h + 2 <= u ELSE u <= h)
            BY <1>28, <4>3, <5>2
          <5>4. lq <= u /\ u <= rq
            BY <5>3
          <5>5. u - 1 + 2 * c \in 0..INDEXCOUNT
            <6>1. CASE c = 0
              BY <1>1, <1>6, <1>5, <5>3, <5>4, <6>1
            <6>2. CASE c = 1
              BY <1>1, <1>6, <1>5, <5>3, <5>4, <6>2
            <6> QED BY <1>10, <6>1, <6>2
          <5> QED BY <5>1, <5>2, <5>5
        <4>4. CASE x \notin CA \cup CB \cup CQ /\ ~(x = a /\ last)
          BY <1>16, <4>4 DEF TypeOK
        <4> QED BY <4>1, <4>2, <4>3, <4>4
      <3> QED BY <1>16, <3>1
    <2>10. root' \in Page /\ max' = max /\ free' \in Seq(1..max) /\ answer' = answer
      BY <1>3, <1>16, <1>34 DEF TypeOK
    <2>11. dirty' \subseteq Page
      <3>1. CA \subseteq Page /\ CB \subseteq Page
        BY <1>3, <1>27
      <3>2. CQ \subseteq Page /\ M \subseteq Page
        BY <1>1, <1>3, <1>28
      <3>3. dirty \subseteq Page
        BY DEF TypeOK
      <3>4. dirty' = dirty \cup M \cup {b} \cup CA \cup CB \cup CQ
        BY <1>16
      <3> QED BY <1>3, <3>1, <3>2, <3>3, <3>4
    <2> QED BY <1>19, <2>4, <2>5, <2>6, <2>7, <2>8, <2>9, <2>10, <2>11, TypesKeep
  <1>60. Contents' = Contents
    <2>1. ASSUME NEW v PROVE Has(a, v)' <=> Has(a, v) \/ Has(b, v) \/ v = k
      <3>1. Has(a, v)' <=> \E j \in n..(e - 1) : K[j] = v
        BY <1>17, <1>20 DEF Has
      <3>2. ASSUME NEW j \in n..(e - 1), K[j] = v PROVE Has(a, v) \/ Has(b, v) \/ v = k
        <4>1. j < t \/ j = t \/ j > t
          BY <1>8, <1>21
        <4> QED BY <1>21, <3>2, <4>1 DEF Has
      <3>3. ASSUME NEW u \in Slots(a), key[a][u] = v PROVE \E j \in n..(e - 1) : K[j] = v
        <4>1. u \in Int /\ l <= u /\ u <= r - 1
          BY <1>4, <1>20
        <4>2. PICK j \in Int : j = u + d
          BY <4>1
        <4>3. j \in n..(e - 1) /\ j < t /\ j - d = u
          BY <1>4, <1>8, <4>1, <4>2
        <4> QED BY <1>21, <3>3, <4>3
      <3>4. ASSUME NEW u \in Slots(b), key[b][u] = v PROVE \E j \in n..(e - 1) : K[j] = v
        <4>1. u \in Int /\ ls <= u /\ u <= rs - 1
          BY <1>4, <1>20
        <4>2. PICK j \in Int : j = u + up
          BY <1>8, <4>1
        <4>3. j = u + (t + 1 - ls)
          BY <1>8, <4>2
        <4>4. j - up = u
          BY <4>1, <4>2
        <4>5. j > t /\ j <= e - 1
          BY <1>8, <4>1, <4>3
        <4>6. j \in n..(e - 1)
          BY <1>8, <4>5
        <4> QED BY <1>21, <3>4, <4>4, <4>5, <4>6
      <3>5. v = k => \E j \in n..(e - 1) : K[j] = v
        <4>1. t \in n..(e - 1)
          BY <1>8
        <4> QED BY <1>21, <4>1
      <3>6. (Has(a, v) => \E u \in Slots(a) : key[a][u] = v) /\ (Has(b, v) => \E u \in Slots(b) : key[b][u] = v)
        BY DEF Has
      <3> QED BY <3>1, <3>2, <3>3, <3>4, <3>5, <3>6
    <2>2. ASSUME last PROVE OnlyHas(q, k)
      <3>1. size(q) = 1
        BY <1>15, <2>2
      <3>2. rq - lq = 1
        BY <1>4, <3>1 DEF size
      <3>3. lq = h /\ rq - 1 = h /\ h..h = {h}
        BY <1>5, <3>2
      <3>4. Slots(q) = {h}
        BY <1>20, <3>3
      <3> QED BY <1>11, <3>4 DEF OnlyHas, Has
    <2>3. ASSUME ~last PROVE Loses(q, k)
      <3>1. l_pos'[q] = l_pos[q] + c /\ r_pos'[q] = r_pos[q] - 1 + c /\ key'[q] = KeysWithout(q, h)
        BY <1>4, <1>11, <1>17
      <3>2. \A v : Has(q, v)' <=> \E u \in Slots(q) : u # h /\ key[q][u] = v
        BY <1>1, <1>9, <3>1, ClosedHas
      <3> QED BY <1>1, <1>11, <3>2 DEF Loses, Has
    <2>4. JoinsIn(a, b, k)
      BY <2>1 DEF JoinsIn
    <2>5. job'.do # "insert_internal"
      BY <1>16 DEF ShrinkIfSmall, Idle
    <2>6. a # q /\ b # q /\ a # b /\ Live' = (IF last THEN Live \ {b, q} ELSE Live \ {b})
      BY <1>2, <1>34
    <2> QED BY <1>18, <1>19, <2>2, <2>3, <2>4, <2>5, <2>6, KeysTakenIn
  <1>61. answer' = answer
    BY <1>16
  <1> QED BY <1>34, <1>58, <1>59, <1>60, <1>61

-------------------------------------------------------------------------------
(* The inductive invariant.                                                *)

\* RShrink and LShrink keep the invariant and the keys.
LEMMA ShrinkKeeps ==
    ASSUME NEW lo, NEW hi, NEW lv, TypeOK, FreeOK, Good(lo, hi, lv), RShrink \/ LShrink
    PROVE  /\ TypeOK' /\ FreeOK' /\ \E lo2, hi2 : Good(lo2, hi2, lv)'
           /\ Contents' = Contents /\ answer' = answer
  <1>1. job.do = "shrink"
    BY DEF RShrink, LShrink
  <1>2. CASE RBorrow
    BY <1>1, <1>2, BorrowRightKeeps
  <1>3. CASE LBorrow
    BY <1>1, <1>3, BorrowLeftKeeps
  <1>4. CASE RMerge \/ LMerge
    <2>1. PICK q, a, b \in Live, h, g \in Int :
               \E M : lv[q] > 0 /\ Merge(a, q, h, g, b, M)
      BY <1>1, <1>4, EitherMerge
    <2>2. PICK M : lv[q] > 0 /\ Merge(a, q, h, g, b, M)
      BY <2>1
    <2> QED BY <1>1, <2>2, MergeKeeps
  <1>5. RShrink => RBorrow \/ RMerge
    <2>1. SUFFICES ASSUME RShrink PROVE RBorrow \/ RMerge
      OBVIOUS
    <2>2. PICK p, q, h, s : p = job.page /\ q = parent_index[p] /\ h = parent_pos[p] /\ s = kid[q][h + 1]
      OBVIOUS
    <2>3. /\ r_pos[q] # h
          /\ \/ CanLend(s) /\ BorrowRight(p, q, h, s)
             \/ ~CanLend(s) /\ MergeSibling(p, q, h, s, {q, s})
      BY <2>1, <2>2 DEF RShrink
    <2>4. CASE CanLend(s) /\ BorrowRight(p, q, h, s)
      BY <2>2, <2>3, <2>4 DEF RBorrow
    <2>5. CASE ~CanLend(s) /\ MergeSibling(p, q, h, s, {q, s})
      BY <2>2, <2>3, <2>5 DEF RMerge
    <2> QED BY <2>3, <2>4, <2>5
  <1>6. LShrink => LBorrow \/ LMerge
    <2>1. SUFFICES ASSUME LShrink PROVE LBorrow \/ LMerge
      OBVIOUS
    <2>2. PICK p, q, h, s : p = job.page /\ q = parent_index[p] /\ h = parent_pos[p] - 1 /\ s = kid[q][h]
      OBVIOUS
    <2>3. /\ r_pos[q] = parent_pos[p]
          /\ \/ CanLend(s) /\ BorrowLeft(p, q, h, s)
             \/ ~CanLend(s) /\ MergeSibling(s, q, h, p, {q, s})
      BY <2>1, <2>2 DEF LShrink
    <2>4. CASE CanLend(s) /\ BorrowLeft(p, q, h, s)
      BY <2>2, <2>3, <2>4 DEF LBorrow
    <2>5. CASE ~CanLend(s) /\ MergeSibling(s, q, h, p, {q, s})
      BY <2>2, <2>3, <2>5 DEF LMerge
    <2> QED BY <2>3, <2>4, <2>5
  <1> QED BY <1>2, <1>3, <1>4, <1>5, <1>6

\* The empty index is sound: one leaf, which is the root.
LEMMA InitInv == Init => IInv
  <1>1. SUFFICES ASSUME Init PROVE IInv
    OBVIOUS
  <1>2. Page # {} /\ 1 \in Page /\ Page \subseteq Int
    BY PageAssumption DEF Page
  <1>3. Free = {} /\ Live = {1} /\ root = 1
    <2>1. Free = {}
      BY <1>1 DEF Init, Free
    <2> QED BY <1>1, <2>1 DEF Init, Live
  <1>4. /\ l_pos[1] = 0 /\ r_pos[1] = 0 /\ key[1] = <<>> /\ kid[1] = [i \in {0} |-> 0]
        /\ parent_index[1] = 0 /\ parent_pos[1] = 0 /\ job = Idle
    BY <1>1, <1>2 DEF Init
  <1>5. Slots(1) = {} /\ Positions(1) = {0} /\ size(1) = 0 /\ kid[1][0] = 0
    BY <1>4 DEF Slots, Positions, size
  <1>6. Fresh = {} /\ Half = {}
    BY <1>4 DEF Fresh, Half, Idle
  <1>7. TypeOK
    <2>1. /\ l_pos \in [Page -> 0..INDEXCOUNT] /\ r_pos \in [Page -> 0..INDEXCOUNT]
          /\ parent_index \in [Page -> 0..max] /\ parent_pos \in [Page -> 0..INDEXCOUNT]
          /\ DOMAIN key = Page /\ DOMAIN kid = Page
          /\ free \in Seq(1..max) /\ root \in Page /\ max \in Page
      BY <1>1, <1>2, CountAssumption DEF Init
    <2>2. ASSUME NEW p \in Page
          PROVE  /\ l_pos[p] <= r_pos[p]
                 /\ key[p] \in [l_pos[p]..(r_pos[p] - 1) -> Key]
                 /\ kid[p] \in [l_pos[p]..r_pos[p] -> 0..max]
      <3>1. l_pos[p] = 0 /\ r_pos[p] = 0 /\ key[p] = <<>> /\ kid[p] = [i \in {0} |-> 0] /\ max = 1
        BY <1>1 DEF Init
      <3>2. 0..(0 - 1) = {} /\ 0..0 = {0}
        OBVIOUS
      <3>3. <<>> \in [0..(0 - 1) -> Key]
        BY <3>2
      <3>4. [i \in {0} |-> 0] \in [0..0 -> 0..1]
        BY <3>2
      <3> QED BY <3>1, <3>3, <3>4
    <2>3. dirty \subseteq Page /\ answer \in {<<>>} \cup (Key \X BOOLEAN)
      BY <1>1 DEF Init
    <2> QED BY <2>1, <2>2, <2>3 DEF TypeOK
  <1>8. FreeOK
    BY <1>1 DEF Init, FreeOK
  <1>9. PICK lo, hi, lv : lo = [p \in Page |-> 0] /\ hi = [p \in Page |-> MaxKey + 1] /\ lv = lo
    OBVIOUS
  <1>10. lo[1] = 0 /\ hi[1] = MaxKey + 1 /\ lv[1] = 0
    BY <1>2, <1>9
  <1>11. GhostType(lo, hi, lv)
    BY <1>3, <1>10, KeyAssumption DEF GhostType
  <1>12. Keys(lo, hi)
    BY <1>3, <1>5, <1>10, KeyAssumption DEF Keys
  <1>13. Down(lo, hi, lv)
    BY <1>3, <1>5, <1>10 DEF Down
  <1>14. Up
    BY <1>3, <1>4 DEF Up
  <1>15. RootOK(lo, hi, lv)
    BY <1>3, <1>4, <1>10 DEF RootOK
  <1>16. Size(lv)
    BY <1>3, <1>5, <1>10, CountAssumption DEF Size
  <1>17. Apart(lo, hi, lv)
    BY <1>3 DEF Apart
  <1>18. Job(lo, hi, lv)
    BY <1>4 DEF Job
  <1>19. Good(lo, hi, lv)
    BY <1>11, <1>12, <1>13, <1>14, <1>15, <1>16, <1>17, <1>18 DEF Good
  <1> QED BY <1>7, <1>8, <1>19 DEF IInv

\* What stays as it is when the variables of the index do.
LEMMA Untouched ==
    ASSUME UNCHANGED vars
    PROVE  /\ l_pos' = l_pos /\ r_pos' = r_pos /\ key' = key /\ kid' = kid
           /\ parent_index' = parent_index /\ parent_pos' = parent_pos
           /\ root' = root /\ max' = max /\ free' = free
           /\ dirty' = dirty /\ job' = job /\ answer' = answer
           /\ Live' = Live /\ Contents' = Contents
           /\ \A p : Slots(p)' = Slots(p) /\ (Leaf(p)' <=> Leaf(p))
  BY DEF vars, slots, links, pages, Live, Free, Contents, Slots, Leaf

\* A step that leaves the index as it is, and so what is known of it.
LEMMA Standstill ==
    ASSUME NEW lo, NEW hi, NEW lv, TypeOK, FreeOK, Good(lo, hi, lv), UNCHANGED vars
    PROVE  TypeOK' /\ FreeOK' /\ Good(lo, hi, lv)'
  <1>1. /\ l_pos' = l_pos /\ r_pos' = r_pos /\ key' = key /\ kid' = kid
        /\ parent_index' = parent_index /\ parent_pos' = parent_pos
        /\ root' = root /\ max' = max /\ free' = free
        /\ dirty' = dirty /\ job' = job /\ answer' = answer /\ Live' = Live
    BY Untouched
  <1>2. Fresh' = Fresh /\ Half' = Half
    BY <1>1 DEF Fresh, Half
  <1>3. TypeOK' /\ FreeOK'
    BY <1>1 DEF TypeOK, FreeOK
  <1>4. GhostType(lo, hi, lv)' /\ Keys(lo, hi)'
    BY <1>1 DEF Good, GhostType, Keys, Slots
  <1>5. Down(lo, hi, lv)'
    BY <1>1, <1>2 DEF Good, Down, Positions, LoAt, HiAt
  <1>6. Up' /\ RootOK(lo, hi, lv)' /\ Size(lv)'
    BY <1>1, <1>2 DEF Good, Up, RootOK, Size, size, Positions
  <1>7. Apart(lo, hi, lv)'
    BY <1>1 DEF Good, Apart, Outside, Slots
  <1>8. Job(lo, hi, lv)'
    BY <1>1 DEF Good, Job, Blank, size, Positions, HiAt, Outside, Slots
  <1> QED BY <1>3, <1>4, <1>5, <1>6, <1>7, <1>8 DEF Good

\* Every step keeps the invariant.
LEMMA NextInv == IInv /\ [Next]_vars => IInv'
  <1>1. SUFFICES ASSUME IInv, [Next]_vars PROVE IInv'
    OBVIOUS
  <1>2. PICK lo, hi, lv : Good(lo, hi, lv)
    BY <1>1 DEF IInv
  <1>3. TypeOK /\ FreeOK
    BY <1>1 DEF IInv
  <1>4. SUFFICES TypeOK' /\ FreeOK' /\ \E lo2, hi2, lv2 : Good(lo2, hi2, lv2)'
    BY DEF IInv
  <1>5. ASSUME NEW k \in Key, Put(k) \/ Del(k)
        PROVE  TypeOK' /\ FreeOK' /\ Good(lo, hi, lv)'
    <2>1. PICK op \in {"put", "del"} : Begin(op, k)
      BY <1>5 DEF Put, Del
    <2> QED BY <1>2, <1>3, <2>1, BeginKeeps
  <1>6. CASE \E k \in Key : Put(k) \/ Del(k)
    BY <1>5, <1>6
  <1>7. CASE FindKey
    BY <1>2, <1>3, <1>7, FindKeyKeeps
  <1>8. CASE NothingToDo
    BY <1>2, <1>3, <1>8, NothingToDoKeeps
  <1>9. CASE InsertInitNode
    BY <1>2, <1>3, <1>9, InsertInitNodeKeeps
  <1>10. CASE InsertLeaf
    BY <1>2, <1>3, <1>10, InsertLeafKeeps
  <1>11. CASE AllocRootIndexPage
    BY <1>2, <1>3, <1>11, AllocRootKeeps
  <1>12. CASE Split
    BY <1>2, <1>3, <1>12, SplitKeeps
  <1>13. CASE InsertInternal
    BY <1>2, <1>3, <1>13, InsertInternalKeeps
  <1>14. CASE RemoveLeaf
    BY <1>2, <1>3, <1>14, RemoveLeafKeeps
  <1>15. CASE FindRightMost
    BY <1>2, <1>3, <1>15, FindRightMostKeeps
  <1>16. CASE GoRightMost
    BY <1>2, <1>3, <1>16, GoRightMostKeeps
  <1>17. CASE RemoveInternal
    BY <1>2, <1>3, <1>17, RemoveInternalKeeps
  <1>18. CASE RShrink \/ LShrink
    BY <1>2, <1>3, <1>18, ShrinkKeeps
  <1>19. CASE UNCHANGED vars
    BY <1>2, <1>3, <1>19, Standstill
  <1> QED BY <1>1, <1>6, <1>7, <1>8, <1>9, <1>10, <1>11, <1>12, <1>13, <1>14, <1>15, <1>16,
       <1>17,
             <1>18, <1>19 DEF Next, Call

\* The index is sound in every state, also within the calls of an operation.
THEOREM TreeSound == Spec => []IInv
  BY InitInv, NextInv, PTL DEF Spec

\* Keys and links lie in the array of their page: a page never holds more than
\* INDEXCOUNT keys, whichever of its ends it grows at.
THEOREM Types == Spec => []TypeOK
  <1>1. IInv => TypeOK
    BY DEF IInv
  <1> QED BY <1>1, TreeSound, PTL

-------------------------------------------------------------------------------
(* Between two operations: the levels and the bounds of the pages are those *)
(* of the invariant.                                                        *)

\* What the invariant says of a page between two operations.
LEMMA AtRest ==
    ASSUME NEW lo, NEW hi, NEW lv, TypeOK, Good(lo, hi, lv), job = Idle, NEW x \in Live
    PROVE  /\ KeysAt(x, lo, hi) /\ DownAt(x, lo, hi, lv) /\ UpAt(x)
           /\ size(x) < INDEXCOUNT
           /\ x # root => size(x) >= INDEXMINR
           /\ lv[x] > 0 => size(x) > 0
           /\ Leaf(x) <=> lv[x] = 0
           /\ lo[x] \in Int /\ hi[x] \in Int /\ lv[x] \in Nat /\ lv[x] <= lv[root]
           /\ parent_index[x] # 0 => lv[parent_index[x]] = lv[x] + 1
  <1>1. job.do = "idle"
    BY DEF Idle
  <1>2. Fresh = {} /\ Half = {}
    BY <1>1 DEF Fresh, Half
  <1>3. KeysAt(x, lo, hi)
    BY DEF Good, Keys, KeysAt
  <1>4. \A p \in Live : DownAt(p, lo, hi, lv)
    BY <1>2 DEF Good, Down, DownAt
  <1>5. UpAt(x)
    BY <1>1, <1>2 DEF Good, Up, UpAt
  <1>6. \A p \in Live : lv[p] \in Nat /\ lo[p] \in 0..(MaxKey + 1) /\ hi[p] \in 0..(MaxKey + 1)
    BY DEF Good, GhostType
  <1>7. lo[x] \in Int /\ hi[x] \in Int /\ lv[x] \in Nat /\ lv[x] <= lv[root]
    BY <1>6 DEF Good, RootOK
  <1>8. /\ size(x) = INDEXCOUNT => FALSE
        /\ x # root => size(x) >= INDEXMINR
        /\ lv[x] > 0 => size(x) > 0
    BY <1>1, <1>2 DEF Good, Size
  <1>9. size(x) < INDEXCOUNT
    <2>1. size(x) \in Int /\ size(x) <= INDEXCOUNT /\ INDEXCOUNT \in Int
      BY LiveTyped, CountAssumption DEF size
    <2> QED BY <1>8, <2>1
  <1>10. Leaf(x) <=> lv[x] = 0
    BY <1>2, <1>7, LeafLevel
  <1>11. parent_index[x] # 0 => lv[parent_index[x]] = lv[x] + 1
    <2>1. SUFFICES ASSUME parent_index[x] # 0 PROVE lv[parent_index[x]] = lv[x] + 1
      OBVIOUS
    <2>2. PICK q \in Live : q = parent_index[x]
      BY <1>5, <2>1 DEF UpAt
    <2>3. PICK i \in Positions(q) : kid[q][i] = x
      BY <1>5, <2>1, <2>2 DEF UpAt
    <2>4. lv[q] = 0 \/ lv[q] > 0
      BY <1>6
    <2>5. lv[x] = lv[q] - 1
      BY <1>4, <2>3, <2>4, LiveIsPage DEF DownAt
    <2> QED BY <1>6, <2>5, <2>2
  <1> QED BY <1>3, <1>4, <1>5, <1>7, <1>8, <1>9, <1>10, <1>11

\* The order of numbers, as a set of pairs.
Less == {r \in Nat \X Nat : r[1] < r[2]}

\* A set of numbers that is not empty has a least member.
LEMMA Least ==
    ASSUME NEW S, S \subseteq Nat, S # {}
    PROVE  \E n \in S : \A m \in S : ~(m < n)
  <1>1. IsWellFoundedOn(Less, Nat)
    BY NatLessThanWellFounded DEF OpToRel, Less
  <1>2. PICK n \in S : \A m \in S : ~(<<m, n>> \in Less)
    BY <1>1, WFMin
  <1>3. \A m \in S : m < n => <<m, n>> \in Less
    BY DEF Less
  <1> QED BY <1>2, <1>3

\* The level of a page, as IsBTree defines it from the page's first leaf, is
\* its lv: for a page that is the lowest one for which it is not, it would
\* be.
LEMMA LevelIs ==
    ASSUME NEW lo, NEW hi, NEW lv, TypeOK, Good(lo, hi, lv), job = Idle
    PROVE  \A p \in Live : Level[p] = lv[p]
  <1>1. \A p \in Live : ~Leaf(p) =>
            kid[p][l_pos[p]] \in Live /\ lv[kid[p][l_pos[p]]] = lv[p] - 1 /\ lv[p] \in Nat
    <2>1. SUFFICES ASSUME NEW p \in Live, ~Leaf(p)
                   PROVE  kid[p][l_pos[p]] \in Live /\ lv[kid[p][l_pos[p]]] = lv[p] - 1 /\ lv[p] \in Nat
      OBVIOUS
    <2>2. lv[p] \in Nat /\ lv[p] > 0 /\ DownAt(p, lo, hi, lv)
      BY <2>1, AtRest
    <2>3. l_pos[p] \in Positions(p)
      BY LiveTyped DEF Positions
    <2> QED BY <2>2, <2>3 DEF DownAt
  <1>2. \A p \in Live : Leaf(p) => lv[p] = 0
    BY AtRest
  <1>3. PICK g : g = [p \in Live |-> lv[p]]
    OBVIOUS
  <1>4. g = [p \in Live |-> IF Leaf(p) THEN 0 ELSE 1 + g[kid[p][l_pos[p]]]]
    <2>1. \A p \in Live : lv[p] = IF Leaf(p) THEN 0 ELSE 1 + g[kid[p][l_pos[p]]]
      BY <1>1, <1>2, <1>3
    <2> QED BY <1>3, <2>1
  <1>5. Level = [p \in Live |-> IF Leaf(p) THEN 0 ELSE 1 + Level[kid[p][l_pos[p]]]]
    BY <1>4, Zenon DEF Level
  <1>6. PICK S : S = {n \in Nat : \E p \in Live : lv[p] = n /\ Level[p] # lv[p]}
    OBVIOUS
  <1>7. SUFFICES ASSUME NEW x \in Live, Level[x] # lv[x] PROVE FALSE
    OBVIOUS
  <1>8. S \subseteq Nat /\ S # {}
    <2>1. lv[x] \in Nat
      BY AtRest
    <2> QED BY <1>6, <1>7, <2>1
  <1>9. PICK n \in S : \A m \in S : ~(m < n)
    BY <1>8, Least
  <1>10. PICK p \in Live : lv[p] = n /\ Level[p] # lv[p]
    BY <1>6, <1>9
  <1>11. CASE Leaf(p)
    BY <1>2, <1>5, <1>10, <1>11
  <1>12. CASE ~Leaf(p)
    <2>1. PICK c \in Live : c = kid[p][l_pos[p]] /\ lv[c] = lv[p] - 1 /\ lv[p] \in Nat
      BY <1>1, <1>12
    <2>2. lv[c] \in Nat
      BY AtRest
    <2>3. lv[c] < n
      BY <1>10, <2>1, <2>2
    <2>4. Level[c] = lv[c]
      BY <1>6, <1>9, <2>2, <2>3
    <2>5. Level[p] = 1 + Level[c]
      BY <1>5, <1>12, <2>1
    <2> QED BY <1>10, <2>1, <2>4, <2>5
  <1> QED BY <1>11, <1>12

\* The bounds of a page, as IsBTree defines them from the pages above it, are
\* lo and hi: for a page that is the highest one for which they are not, they
\* would be.
LEMMA LowIs ==
    ASSUME NEW lo, NEW hi, NEW lv, TypeOK, Good(lo, hi, lv), job = Idle
    PROVE  \A p \in Live : Low[p] = lo[p] /\ High[p] = hi[p]
  <1>1. \A p \in Live : parent_index[p] = 0 => lo[p] = 0 /\ hi[p] = MaxKey + 1
    BY AtRest DEF UpAt, Good, RootOK
  <1>2. \A p \in Live : parent_index[p] # 0 =>
            /\ parent_index[p] \in Live /\ lv[parent_index[p]] = lv[p] + 1
            /\ lo[p] = IF parent_pos[p] = l_pos[parent_index[p]] THEN lo[parent_index[p]]
                       ELSE key[parent_index[p]][parent_pos[p] - 1]
            /\ hi[p] = IF parent_pos[p] = r_pos[parent_index[p]] THEN hi[parent_index[p]]
                       ELSE key[parent_index[p]][parent_pos[p]]
    <2>1. SUFFICES ASSUME NEW p \in Live, parent_index[p] # 0
                   PROVE  /\ parent_index[p] \in Live /\ lv[parent_index[p]] = lv[p] + 1
                          /\ lo[p] = IF parent_pos[p] = l_pos[parent_index[p]] THEN lo[parent_index[p]]
                                     ELSE key[parent_index[p]][parent_pos[p] - 1]
                          /\ hi[p] = IF parent_pos[p] = r_pos[parent_index[p]] THEN hi[parent_index[p]]
                                     ELSE key[parent_index[p]][parent_pos[p]]
      OBVIOUS
    <2>2. PICK q \in Live : q = parent_index[p] /\ lv[q] = lv[p] + 1
      BY <2>1, AtRest DEF UpAt
    <2>3. PICK i \in Positions(q) : i = parent_pos[p] /\ kid[q][i] = p
      BY <2>1, <2>2, AtRest DEF UpAt
    <2>4. DownAt(q, lo, hi, lv) /\ lv[q] \in Nat /\ lv[p] \in Nat
      BY AtRest
    <2>5. lo[p] = LoAt(lo, q, i) /\ hi[p] = HiAt(hi, q, i)
      BY <2>3, <2>4, <2>2 DEF DownAt
    <2> QED BY <2>3, <2>5, <2>2 DEF LoAt, HiAt
  <1>3. PICK f, g : f = [p \in Live |-> lo[p]] /\ g = [p \in Live |-> hi[p]]
    OBVIOUS
  <1>4. f = [p \in Live |->
                IF parent_index[p] = 0 THEN 0
                ELSE IF parent_pos[p] = l_pos[parent_index[p]] THEN f[parent_index[p]]
                ELSE key[parent_index[p]][parent_pos[p] - 1]]
    BY <1>1, <1>2, <1>3
  <1>5. g = [p \in Live |->
                IF parent_index[p] = 0 THEN MaxKey + 1
                ELSE IF parent_pos[p] = r_pos[parent_index[p]] THEN g[parent_index[p]]
                ELSE key[parent_index[p]][parent_pos[p]]]
    BY <1>1, <1>2, <1>3
  <1>6. Low = [p \in Live |->
                IF parent_index[p] = 0 THEN 0
                ELSE IF parent_pos[p] = l_pos[parent_index[p]] THEN Low[parent_index[p]]
                ELSE key[parent_index[p]][parent_pos[p] - 1]]
    BY <1>4, Zenon DEF Low
  <1>7. High = [p \in Live |->
                IF parent_index[p] = 0 THEN MaxKey + 1
                ELSE IF parent_pos[p] = r_pos[parent_index[p]] THEN High[parent_index[p]]
                ELSE key[parent_index[p]][parent_pos[p]]]
    BY <1>5, Zenon DEF High
  <1>8. PICK Wrong : Wrong = {p \in Live : Low[p] # lo[p] \/ High[p] # hi[p]}
    OBVIOUS
  <1>9. PICK S : S = {n \in Nat : \E p \in Wrong : lv[root] - lv[p] = n}
    OBVIOUS
  <1>10. SUFFICES ASSUME NEW x \in Wrong PROVE FALSE
    BY <1>8
  <1>11. \A p \in Live : lv[p] \in Nat /\ lv[root] \in Nat /\ lv[root] - lv[p] \in Nat
    <2>1. root \in Live
      BY DEF Good, RootOK
    <2>2. \A p \in Live : lv[p] \in Nat /\ lv[p] <= lv[root]
      BY AtRest
    <2> QED BY <2>1, <2>2
  <1>12. S \subseteq Nat /\ S # {}
    BY <1>8, <1>9, <1>10, <1>11
  <1>13. PICK n \in S : \A m \in S : ~(m < n)
    BY <1>12, Least
  <1>14. PICK p \in Wrong : lv[root] - lv[p] = n
    BY <1>9, <1>13
  <1>15. p \in Live
    BY <1>8
  <1>16. CASE parent_index[p] = 0
    BY <1>1, <1>6, <1>7, <1>8, <1>15, <1>16
  <1>17. CASE parent_index[p] # 0
    <2>1. PICK q \in Live : q = parent_index[p] /\ lv[q] = lv[p] + 1
      BY <1>2, <1>15, <1>17
    <2>2. lv[root] - lv[q] \in Nat /\ lv[root] - lv[q] < n
      BY <1>11, <1>14, <1>15, <2>1
    <2>3. q \notin Wrong
      BY <1>9, <1>13, <2>2
    <2>4. Low[q] = lo[q] /\ High[q] = hi[q]
      BY <1>8, <2>3
    <2>5. Low[p] = lo[p]
      BY <1>2, <1>6, <1>15, <1>17, <2>1, <2>4
    <2>6. High[p] = hi[p]
      BY <1>2, <1>7, <1>15, <1>17, <2>1, <2>4
    <2> QED BY <1>8, <2>5, <2>6
  <1> QED BY <1>16, <1>17

\* Whatever splits, merges, borrowed keys and shifted slots led to it, between
\* two operations the index is a B-tree in which the links lead both ways.
THEOREM AlwaysBTree == Spec => []IsBTree
  <1>1. IInv => IsBTree
    <2>1. SUFFICES ASSUME IInv, job = Idle
                   PROVE  LinksGoBothWays /\ Balanced /\ Ordered
      BY DEF IsBTree
    <2>2. PICK lo, hi, lv : TypeOK /\ Good(lo, hi, lv)
      BY <2>1 DEF IInv
    <2>3. \A p \in Live : Level[p] = lv[p] /\ Low[p] = lo[p] /\ High[p] = hi[p]
      BY <2>1, <2>2, LevelIs, LowIs
    <2>4. ASSUME NEW p \in Live, NEW i \in l_pos[p]..r_pos[p], ~Leaf(p)
          PROVE  /\ kid[p][i] \in Live /\ parent_index[kid[p][i]] = p /\ parent_pos[kid[p][i]] = i
                 /\ lv[kid[p][i]] = lv[p] - 1
      <3>1. DownAt(p, lo, hi, lv) /\ lv[p] > 0 /\ i \in Positions(p)
        BY <2>1, <2>2, <2>4, AtRest DEF Positions
      <3> QED BY <3>1 DEF DownAt
    <2>5. LinksGoBothWays
      BY <2>4 DEF LinksGoBothWays
    <2>6. Balanced
      <3>1. ASSUME NEW p \in Live
            PROVE  /\ size(p) < INDEXCOUNT
                   /\ p # root => size(p) >= INDEXMINR
                   /\ ~Leaf(p) => size(p) > 0
        BY <2>1, <2>2, AtRest
      <3> QED BY <2>3, <2>4, <3>1 DEF Balanced
    <2>7. Ordered
      <3>1. SUFFICES ASSUME NEW p \in Live, NEW i \in l_pos[p]..(r_pos[p] - 1)
                     PROVE  /\ lo[p] < key[p][i] /\ key[p][i] < hi[p]
                            /\ \A j \in l_pos[p]..(i - 1) : key[p][j] < key[p][i]
        BY <2>3 DEF Ordered
      <3>2. KeysAt(p, lo, hi) /\ i \in Slots(p)
        BY <2>1, <2>2, AtRest DEF Slots
      <3>3. ASSUME NEW j \in l_pos[p]..(i - 1)
            PROVE  j \in Slots(p) /\ j < i
        BY <2>2, LiveTyped DEF Slots
      <3> QED BY <3>2, <3>3 DEF KeysAt
    <2> QED BY <2>5, <2>6, <2>7
  <1> QED BY <1>1, TreeSound, PTL

\* Between two operations every page the file has is in the tree or, once, on
\* the free list.
THEOREM NeverLost == Spec => []NoPageLost
  <1>1. IInv => NoPageLost
    <2>1. SUFFICES ASSUME IInv PROVE NoPageLost
      OBVIOUS
    <2>2. PICK lo, hi, lv : TypeOK /\ FreeOK /\ Good(lo, hi, lv)
      BY <2>1 DEF IInv
    <2>3. root \in Live /\ parent_index[root] = 0
      BY <2>2 DEF Good, RootOK
    <2>4. ASSUME job = Idle, NEW p \in Live \ {root}, NEW q, q = parent_index[p]
          PROVE  q \in Live /\ ~Leaf(q) /\ kid[q][parent_pos[p]] = p /\ Level[q] = Level[p] + 1
      <3>1. UpAt(p) /\ (parent_index[p] # 0 => lv[parent_index[p]] = lv[p] + 1) /\ lv[p] \in Nat
        BY <2>2, <2>4, AtRest
      <3>2. q \in Live /\ kid[q][parent_pos[p]] = p /\ lv[q] = lv[p] + 1
        BY <2>4, <3>1 DEF UpAt
      <3>3. Leaf(q) <=> lv[q] = 0
        BY <2>2, <2>4, <3>2, AtRest
      <3>4. Level[q] = lv[q] /\ Level[p] = lv[p]
        BY <2>2, <2>4, <3>2, LevelIs
      <3> QED BY <3>1, <3>2, <3>3, <3>4
    <2> QED BY <2>2, <2>3, <2>4 DEF NoPageLost, FreeOK
  <1> QED BY <1>1, TreeSound, PTL

-------------------------------------------------------------------------------
(* What a step changes it marks dirty, or an earlier step has done so.      *)

\* The pages that a call is going to change have been marked, as far as it
\* does not mark them itself.
LEMMA JobDirty ==
    ASSUME NEW lo, NEW hi, NEW lv, Job(lo, hi, lv)
    PROVE  /\ job.do \in {"split", "shrink", "remove_internal"} => job.page \in dirty
           /\ job.do = "insert_internal" => {job.page, job.l_child, job.r_child} \subseteq dirty
  BY DEF Job, Idle

\* What the steps of an insertion change is marked.
LEMMA MarksInsert ==
    ASSUME TypeOK, NEW lo, NEW hi, NEW lv, Job(lo, hi, lv),
           InsertInitNode \/ InsertLeaf \/ AllocRootIndexPage \/ Split \/ InsertInternal
    PROVE  MarksChanges
  <1>1. SUFFICES ASSUME NEW x \in Page, x \notin dirty'
                 PROVE  Content(x)' = Content(x)
    BY DEF MarksChanges
  <1>2. SUFFICES /\ l_pos'[x] = l_pos[x] /\ r_pos'[x] = r_pos[x]
                 /\ key'[x] = key[x] /\ kid'[x] = kid[x]
                 /\ parent_index'[x] = parent_index[x] /\ parent_pos'[x] = parent_pos[x]
    BY DEF Content
  <1>3. CASE InsertInitNode
    <2>1. x # root
      BY <1>1, <1>3 DEF InsertInitNode
    <2> QED BY <1>3, <2>1 DEF InsertInitNode, links, TypeOK
  <1>4. CASE InsertLeaf
    <2>1. x # job.page
      BY <1>1, <1>4 DEF InsertLeaf
    <2> QED BY <1>4, <2>1 DEF InsertLeaf, links, TypeOK
  <1>5. CASE AllocRootIndexPage
    <2>1. x # NewPage
      BY <1>1, <1>5 DEF AllocRootIndexPage
    <2> QED BY <1>5, <2>1 DEF AllocRootIndexPage, TypeOK
  <1>6. CASE Split
    <2>1. PICK C : C = Kids(job.page, (INDEXMINL + 1)..INDEXCOUNT)
      OBVIOUS
    <2>2. job.page \in dirty
      BY <1>6, JobDirty DEF Split
    <2>3. dirty' = dirty \cup {job.parent, NewPage} \cup C
      BY <1>6, <2>1 DEF Split
    <2>4. x # job.page /\ x # NewPage /\ x \notin C
      BY <1>1, <2>2, <2>3
    <2> QED BY <1>6, <2>1, <2>4 DEF Split, TypeOK
  <1>7. CASE InsertInternal
    <2>1. PICK C : C = IF Gap(job.page, job.pos) = 0
                       THEN Kids(job.page, (job.pos + 1)..r_pos[job.page])
                       ELSE Kids(job.page, l_pos[job.page]..(job.pos - 1))
      OBVIOUS
    <2>2. job.page \in dirty /\ job.l_child \in dirty /\ job.r_child \in dirty
      BY <1>7, JobDirty DEF InsertInternal
    <2>3. dirty' = dirty \cup C
      BY <1>7, <2>1 DEF InsertInternal
    <2>4. x # job.page /\ x # job.l_child /\ x # job.r_child /\ x \notin C
      BY <1>1, <2>2, <2>3
    <2> QED BY <1>7, <2>1, <2>4 DEF InsertInternal, TypeOK
  <1> QED BY <1>3, <1>4, <1>5, <1>6, <1>7

\* What a removal changes in a leaf and above is marked.
LEMMA MarksRemove ==
    ASSUME TypeOK, NEW lo, NEW hi, NEW lv, Job(lo, hi, lv), RemoveLeaf \/ RemoveInternal
    PROVE  MarksChanges
  <1>1. SUFFICES ASSUME NEW x \in Page, x \notin dirty'
                 PROVE  Content(x)' = Content(x)
    BY DEF MarksChanges
  <1>2. SUFFICES /\ l_pos'[x] = l_pos[x] /\ r_pos'[x] = r_pos[x]
                 /\ key'[x] = key[x] /\ kid'[x] = kid[x]
                 /\ parent_index'[x] = parent_index[x] /\ parent_pos'[x] = parent_pos[x]
    BY DEF Content
  <1>3. CASE RemoveLeaf
    <2>1. x # job.page
      BY <1>1, <1>3 DEF RemoveLeaf
    <2> QED BY <1>3, <2>1 DEF RemoveLeaf, links, TypeOK
  <1>4. CASE RemoveInternal
    <2>1. job.page \in dirty /\ dirty' = dirty \cup {job.leaf}
      BY <1>4, JobDirty DEF RemoveInternal
    <2>2. x # job.page /\ x # job.leaf
      BY <1>1, <2>1
    <2> QED BY <1>4, <2>2 DEF RemoveInternal, links, TypeOK
  <1> QED BY <1>3, <1>4

\* What borrowing and merging change is marked.
LEMMA MarksShrink ==
    ASSUME TypeOK, NEW lo, NEW hi, NEW lv, Job(lo, hi, lv), RShrink \/ LShrink
    PROVE  MarksChanges
  <1>1. SUFFICES ASSUME NEW x \in Page, x \notin dirty'
                 PROVE  Content(x)' = Content(x)
    BY DEF MarksChanges
  <1>2. SUFFICES /\ l_pos'[x] = l_pos[x] /\ r_pos'[x] = r_pos[x]
                 /\ key'[x] = key[x] /\ kid'[x] = kid[x]
                 /\ parent_index'[x] = parent_index[x] /\ parent_pos'[x] = parent_pos[x]
    BY DEF Content
  <1>3. job.page \in dirty
    BY JobDirty DEF RShrink, LShrink
  <1>4. ASSUME NEW p, NEW q, NEW h, NEW s, p \in dirty, BorrowRight(p, q, h, s)
        PROVE  /\ l_pos'[x] = l_pos[x] /\ r_pos'[x] = r_pos[x]
               /\ key'[x] = key[x] /\ kid'[x] = kid[x]
               /\ parent_index'[x] = parent_index[x] /\ parent_pos'[x] = parent_pos[x]
    <2>1. PICK C, c0 : /\ C = IF r_pos[p] = INDEXCOUNT THEN Kids(p, l_pos[p]..r_pos[p]) ELSE {}
                       /\ c0 = kid[s][l_pos[s]]
      OBVIOUS
    <2>2. dirty' = dirty \cup {q, s} \cup C \cup ({c0} \ {0})
      BY <1>4, <2>1 DEF BorrowRight
    <2>3. x # p /\ x # q /\ x # s /\ x \notin C /\ x # c0
      BY <1>1, <1>4, <2>2 DEF Page
    <2> QED BY <1>4, <2>1, <2>3 DEF BorrowRight, TypeOK
  <1>5. ASSUME NEW p, NEW q, NEW h, NEW s, p \in dirty, BorrowLeft(p, q, h, s)
        PROVE  /\ l_pos'[x] = l_pos[x] /\ r_pos'[x] = r_pos[x]
               /\ key'[x] = key[x] /\ kid'[x] = kid[x]
               /\ parent_index'[x] = parent_index[x] /\ parent_pos'[x] = parent_pos[x]
    <2>1. PICK C, c0 : /\ C = IF l_pos[p] = 0 THEN Kids(p, l_pos[p]..r_pos[p]) ELSE {}
                       /\ c0 = kid[s][r_pos[s]]
      OBVIOUS
    <2>2. dirty' = dirty \cup {q, s} \cup C \cup ({c0} \ {0})
      BY <1>5, <2>1 DEF BorrowLeft
    <2>3. x # p /\ x # q /\ x # s /\ x \notin C /\ x # c0
      BY <1>1, <1>5, <2>2 DEF Page
    <2> QED BY <1>5, <2>1, <2>3 DEF BorrowLeft, TypeOK
  <1>6. ASSUME NEW p, NEW q, NEW h, NEW s, NEW M, p \in dirty \cup M, q \in M, MergeSibling(p, q, h, s, M)
        PROVE  /\ l_pos'[x] = l_pos[x] /\ r_pos'[x] = r_pos[x]
               /\ key'[x] = key[x] /\ kid'[x] = kid[x]
               /\ parent_index'[x] = parent_index[x] /\ parent_pos'[x] = parent_pos[x]
    <2>1. PICK CA, CB, CQ :
              /\ CA = (IF (IF r_pos[p] + size(s) + 1 > INDEXCOUNT THEN -l_pos[p] ELSE 0) = 0 THEN {}
                       ELSE Kids(p, l_pos[p]..r_pos[p]))
              /\ CB = Kids(s, l_pos[s]..r_pos[s])
              /\ CQ = (IF Closing(q, h) = 0 THEN Kids(q, (h + 2)..r_pos[q]) ELSE Kids(q, l_pos[q]..h))
      OBVIOUS
    <2>2. dirty' = dirty \cup M \cup {s} \cup CA \cup CB \cup CQ
      BY <1>6, <2>1 DEF MergeSibling
    <2>3. x # p /\ x # q /\ x \notin CA /\ x \notin CB /\ x \notin CQ
      BY <1>1, <1>6, <2>2
    <2> QED BY <1>6, <2>1, <2>3 DEF MergeSibling, TypeOK
  <1>7. CASE RShrink
    <2>1. PICK p, q, h, s : p = job.page /\ q = parent_index[p] /\ h = parent_pos[p] /\ s = kid[q][h + 1]
      OBVIOUS
    <2>2. BorrowRight(p, q, h, s) \/ MergeSibling(p, q, h, s, {q, s})
      BY <1>7, <2>1 DEF RShrink
    <2>3. p \in dirty
      BY <1>3, <2>1
    <2>4. CASE BorrowRight(p, q, h, s)
      BY <1>4, <2>3, <2>4
    <2>5. CASE MergeSibling(p, q, h, s, {q, s})
      BY <1>6, <2>3, <2>5
    <2> QED BY <2>2, <2>4, <2>5
  <1>8. CASE LShrink
    <2>1. PICK p, q, h, s : p = job.page /\ q = parent_index[p] /\ h = parent_pos[p] - 1 /\ s = kid[q][h]
      OBVIOUS
    <2>2. BorrowLeft(p, q, h, s) \/ MergeSibling(s, q, h, p, {q, s})
      BY <1>8, <2>1 DEF LShrink
    <2>3. p \in dirty
      BY <1>3, <2>1
    <2>4. CASE BorrowLeft(p, q, h, s)
      BY <1>5, <2>3, <2>4
    <2>5. CASE MergeSibling(s, q, h, p, {q, s})
      BY <1>6, <2>5
    <2> QED BY <2>2, <2>4, <2>5
  <1> QED BY <1>7, <1>8

\* A step marks dirty every page it changes, or an earlier step of the operation
\* has done so: the checkpoint saves what an operation changed.
THEOREM DirtyIsEnough == Spec => ChangesAreDirty
  <1>1. ASSUME IInv, [Next]_vars PROVE MarksChanges \/ UNCHANGED vars
    <2>1. PICK lo, hi, lv : TypeOK /\ Job(lo, hi, lv)
      BY <1>1 DEF IInv, Good
    <2>2. CASE InsertInitNode \/ InsertLeaf \/ AllocRootIndexPage \/ Split \/ InsertInternal
      BY <2>1, <2>2, MarksInsert
    <2>3. CASE RemoveLeaf \/ RemoveInternal
      BY <2>1, <2>3, MarksRemove
    <2>4. CASE RShrink \/ LShrink
      BY <2>1, <2>4, MarksShrink
    <2>5. CASE \/ FindKey \/ NothingToDo \/ FindRightMost \/ GoRightMost
               \/ \E k \in Key : Put(k) \/ Del(k)
      <3>1. UNCHANGED <<slots, links>>
        BY <2>5 DEF FindKey, NothingToDo, FindRightMost, GoRightMost, Put, Del, Begin
      <3> QED BY <3>1 DEF MarksChanges, Content, slots, links
    <2> QED BY <1>1, <2>2, <2>3, <2>4, <2>5 DEF Next, Call
  <1>2. IInv /\ [Next]_vars => [MarksChanges]_vars
    BY <1>1
  <1> QED BY <1>2, TreeSound, PTL DEF Spec, ChangesAreDirty

-------------------------------------------------------------------------------
(* The steps that change no page, and those that put a key into a leaf or   *)
(* take one out.                                                            *)

\* A search changes nothing of what KeySet sees.
LEMMA SearchRefines ==
    ASSUME NEW lo, NEW hi, NEW lv, TypeOK, Good(lo, hi, lv),
           FindKey \/ FindRightMost \/ GoRightMost \/ \E k \in Key : Put(k) \/ Del(k)
    PROVE  Contents' = Contents /\ answer' = answer
  <1>1. /\ UNCHANGED <<slots, links, pages>> /\ answer' = answer
    BY DEF FindKey, FindRightMost, GoRightMost, Put, Del, Begin
  <1>2. Live' = Live /\ \A x, v : Has(x, v)' <=> Has(x, v)
    BY <1>1 DEF pages, slots, Live, Free, Has, Slots
  <1>3. job.do # "insert_internal" /\ job'.do # "insert_internal"
    <2>1. CASE FindKey
      <3>1. job.do = "find_key"
        BY <2>1 DEF FindKey
      <3>2. PICK op \in {"put", "del"}, k \in Key, p \in Live :
                job = [do |-> "find_key", op |-> op, key |-> k, page |-> p]
        BY <3>1, SearchJob DEF Good
      <3>3. PICK i : job' = [job EXCEPT !.page = kid[job.page][i]]
        BY <2>1 DEF FindKey
      <3> QED BY <3>2, <3>3
    <2>2. CASE FindRightMost
      BY <2>2 DEF FindRightMost
    <2>3. CASE GoRightMost
      <3>1. job.do = "remove_internal"
        BY <2>3 DEF GoRightMost
      <3>2. PICK p, leaf \in Live, i \in 0..INDEXCOUNT, k \in Key :
                job = [do |-> "remove_internal", page |-> p, pos |-> i, key |-> k, leaf |-> leaf]
        BY <3>1, DescentJob DEF Good
      <3>3. job' = [job EXCEPT !.leaf = kid[job.leaf][r_pos[job.leaf]]]
        BY <2>3 DEF GoRightMost
      <3> QED BY <3>2, <3>3
    <2>4. CASE \E k \in Key : Put(k) \/ Del(k)
      BY <2>4 DEF Put, Del, Begin, Idle
    <2> QED BY <2>1, <2>2, <2>3, <2>4
  <1>4. \A v : v \in Contents' <=> v \in Contents
    BY <1>2, <1>3, InContents, InContentsNext DEF Waiting
  <1> QED BY <1>1, <1>4

\* A put that finds its key and a del that does not: steps of KeySet that
\* leave the set alone.
LEMMA NothingToDoRefines ==
    ASSUME NEW lo, NEW hi, NEW lv, TypeOK, Good(lo, hi, lv), NothingToDo
    PROVE  \E k \in Key : /\ Contents' = Contents
                          /\ \/ k \in Contents /\ answer' = <<k, TRUE>>
                             \/ k \notin Contents /\ answer' = <<k, FALSE>>
  <1>1. PICK op \in {"put", "del"}, k \in Key, p \in Live :
              /\ job = [do |-> "find_key", op |-> op, key |-> k, page |-> p]
              /\ lo[p] < k /\ k < hi[p]
    BY SearchJob DEF NothingToDo, Good
  <1>2. /\ job.do = "find_key" /\ job.op = op /\ job.key = k /\ job.page = p
    BY <1>1
  <1>3. PICK i \in l_pos[p]..r_pos[p] :
              /\ EndsAt(p, k, i)
              /\ \/ op = "put" /\ Found(p, k, i)
                 \/ op = "del" /\ ~Found(p, k, i) /\ Leaf(p)
              /\ answer' = <<k, Found(p, k, i)>>
    BY <1>2 DEF NothingToDo
  <1>4. job' = Idle /\ UNCHANGED <<slots, links, pages>>
    BY DEF NothingToDo
  <1>5. Live' = Live /\ \A x, v : Has(x, v)' <=> Has(x, v)
    BY <1>4 DEF pages, slots, Live, Free, Has, Slots
  <1>6. \A v : v \in Contents' <=> v \in Contents
    BY <1>2, <1>4, <1>5, InContents, InContentsNext DEF Waiting, Idle
  <1>7. l_pos[p] \in Int /\ r_pos[p] \in Int
    BY LiveTyped
  <1>8. CASE Found(p, k, i)
    <2>1. i \in Slots(p) /\ key[p][i] = k
      BY <1>3, <1>7, <1>8 DEF Found, Slots
    <2>2. k \in Contents
      BY <2>1, InContents DEF Has
    <2>3. Found(p, k, i) = TRUE
      BY <1>7, <1>8 DEF Found
    <2>4. answer' = <<k, TRUE>>
      BY <1>3, <2>3
    <2> QED BY <1>6, <2>2, <2>4
  <1>9. CASE ~Found(p, k, i)
    <2>1. Leaf(p)
      BY <1>3, <1>9
    <2>2. p \notin Fresh
      BY <1>2 DEF Fresh
    <2>3. lv[p] = 0
      BY <2>1, <2>2, LeafLevel
    <2>4. ~Has(p, k)
      <3>1. /\ \A j \in Slots(p) : j < i => key[p][j] < k
            /\ \A j \in Slots(p) : j >= i => k < key[p][j]
        BY <1>3, <1>9, Searched
      <3>2. \A j \in Slots(p) : j \in Int /\ (j < i \/ j >= i)
        BY <1>7 DEF Slots
      <3>3. k \in Int
        BY KeyAssumption DEF Key
      <3> QED BY <3>1, <3>2, <3>3 DEF Has
    <2>5. k \notin Contents
      BY <1>1, <1>2, <2>3, <2>4, Nowhere
    <2>6. Found(p, k, i) = FALSE
      BY <1>7, <1>9 DEF Found
    <2>7. answer' = <<k, FALSE>>
      BY <1>3, <2>6
    <2> QED BY <1>6, <2>5, <2>7
  <1> QED BY <1>8, <1>9

\* The insertion of a key in a leaf is a Put of KeySet.
LEMMA InsertRefines ==
    ASSUME NEW lo, NEW hi, NEW lv, TypeOK, Good(lo, hi, lv), InsertInitNode \/ InsertLeaf
    PROVE  \E k \in Key : /\ k \notin Contents /\ Contents' = Contents \cup {k}
                          /\ answer' = <<k, FALSE>>
  <1>1. job.do = "find_key"
    BY DEF InsertInitNode, InsertLeaf
  <1>2. PICK op \in {"put", "del"}, k \in Key, p \in Live :
              /\ job = [do |-> "find_key", op |-> op, key |-> k, page |-> p]
              /\ lo[p] < k /\ k < hi[p]
    BY <1>1, SearchJob DEF Good
  <1>3. /\ job.key = k /\ job.page = p /\ p \in Page /\ p \notin Fresh
        /\ l_pos[p] \in Int /\ r_pos[p] \in Int
    BY <1>1, <1>2, LiveTyped DEF Fresh
  <1>4. Live' = Live /\ answer' = <<k, FALSE>>
    <2>1. answer' = <<job.key, FALSE>> /\ UNCHANGED pages
      BY DEF InsertInitNode, InsertLeaf
    <2>2. Live' = Live
      BY <2>1 DEF pages, Live, Free
    <2> QED BY <1>3, <2>1, <2>2
  <1>5. PICK T : T = {p}
    OBVIOUS
  <1>6. ArraysStay(T) /\ job'.do # "insert_internal"
    <2>1. CASE InsertInitNode
      BY <1>3, <1>5, <2>1 DEF InsertInitNode, ArraysStay, TypeOK, Idle
    <2>2. CASE InsertLeaf
      BY <1>3, <1>5, <2>2 DEF InsertLeaf, SplitIfFull, ArraysStay, TypeOK, Idle
    <2> QED BY <2>1, <2>2
  <1>7. ~Has(p, k) /\ lv[p] = 0 /\ \A v : Has(p, v)' <=> Has(p, v) \/ v = k
    <2>1. CASE InsertInitNode
      <3>1. /\ p = root /\ size(p) = 0
            /\ l_pos' = [l_pos EXCEPT ![p] = INDEXMINR]
            /\ r_pos' = [r_pos EXCEPT ![p] = INDEXMINR + 1]
            /\ key' = [key EXCEPT ![p] = [i \in {INDEXMINR} |-> k]]
        BY <1>3, <2>1 DEF InsertInitNode
      <3>2. Slots(p) = {}
        BY <1>3, <3>1 DEF Slots, size
      <3>3. lv[p] = 0
        <4>1. lv[p] > 0 => size(p) > 0
          BY <1>1, <1>3 DEF Good, Size
        <4>2. lv[p] \in Nat
          BY DEF Good, GhostType
        <4> QED BY <3>1, <4>1, <4>2
      <3>4. Slots(p)' = {INDEXMINR}
        <4>1. l_pos'[p] = INDEXMINR /\ r_pos'[p] = INDEXMINR + 1 /\ INDEXMINR \in Int
          BY <1>3, <3>1, Sizes DEF TypeOK
        <4>2. INDEXMINR..((INDEXMINR + 1) - 1) = {INDEXMINR}
          BY <4>1
        <4> QED BY <4>1, <4>2 DEF Slots
      <3>5. key'[p][INDEXMINR] = k
        BY <1>3, <3>1 DEF TypeOK
      <3>6. ASSUME NEW v PROVE Has(p, v)' <=> Has(p, v) \/ v = k
        <4>1. Has(p, v)' <=> v = k
          BY <3>4, <3>5 DEF Has
        <4>2. ~Has(p, v)
          BY <3>2 DEF Has
        <4> QED BY <4>1, <4>2
      <3>7. ~Has(p, k)
        BY <3>2 DEF Has
      <3> QED BY <3>3, <3>6, <3>7
    <2>2. CASE InsertLeaf
      <3>1. PICK i \in l_pos[p]..r_pos[p] :
              /\ EndsAt(p, k, i) /\ ~Found(p, k, i) /\ Leaf(p)
              /\ l_pos' = [l_pos EXCEPT ![p] = @ - Gap(p, i)]
              /\ r_pos' = [r_pos EXCEPT ![p] = @ + 1 - Gap(p, i)]
              /\ key' = [key EXCEPT ![p] = KeysWith(p, i, k)]
        BY <1>3, <2>2 DEF InsertLeaf
      <3>2. lv[p] = 0
        BY <1>3, <3>1, LeafLevel
      <3>3. PICK d : d = Gap(p, i)
        OBVIOUS
      <3>4. /\ l_pos'[p] = l_pos[p] - d /\ r_pos'[p] = r_pos[p] + 1 - d
            /\ key'[p] = KeysWith(p, i, k)
        BY <1>3, <3>1, <3>3 DEF TypeOK
      <3>5. i \in Positions(p) /\ size(p) < INDEXCOUNT
        <4>1. size(p) # INDEXCOUNT
          BY <1>1, <1>3 DEF Good, Size
        <4>2. size(p) \in Int /\ size(p) <= INDEXCOUNT
          BY LiveTyped, CountAssumption DEF size
        <4> QED BY <3>1, <4>1, <4>2, CountAssumption DEF Positions
      <3>6. \A v : Has(p, v)' <=> Has(p, v) \/ v = k
        BY <3>3, <3>4, <3>5, InsertedHas
      <3>7. ~Has(p, k)
        <4>1. /\ \A j \in Slots(p) : j < i => key[p][j] < k
              /\ \A j \in Slots(p) : j >= i => k < key[p][j]
          BY <3>1, Searched
        <4>2. \A j \in Slots(p) : j \in Int /\ (j < i \/ j >= i)
          BY <1>3 DEF Slots
        <4>3. k \in Int
          BY KeyAssumption DEF Key
        <4> QED BY <4>1, <4>2, <4>3 DEF Has
      <3> QED BY <3>2, <3>6, <3>7
    <2> QED BY <2>1, <2>2
  <1>8. k \notin Contents
    BY <1>1, <1>2, <1>7, Nowhere
  <1>9. ASSUME NEW v PROVE v \in Contents' <=> v \in Contents \/ v = k
    <2>1. ~Waiting(v) /\ ~Waiting(v)'
      BY <1>1, <1>6 DEF Waiting
    <2>2. /\ v \in Contents <=> (\E x \in Live \ T : Has(x, v)) \/ (\E x \in Live \cap T : Has(x, v))
          /\ v \in Contents' <=> (\E x \in Live \ T : Has(x, v)) \/ (\E x \in Live' \cap T : Has(x, v)')
      BY <1>4, <1>6, <2>1, ContentsFrame
    <2>3. /\ (\E x \in Live \cap T : Has(x, v)) <=> Has(p, v)
          /\ (\E x \in Live' \cap T : Has(x, v)') <=> Has(p, v)'
      BY <1>4, <1>5
    <2> QED BY <1>7, <2>2, <2>3
  <1> QED BY <1>4, <1>8, <1>9

\* A key is in no other slot than the one where it was found.
LEMMA FoundOnce ==
    ASSUME NEW lo, NEW hi, NEW lv, TypeOK, Good(lo, hi, lv), NEW p \in Live, NEW i \in Slots(p)
    PROVE  /\ \A x \in Live : x # p => ~Has(x, key[p][i])
           /\ \A u \in Slots(p) : key[p][u] = key[p][i] => u = i
  BY KeyOnce DEF Has

\* The removal of a key from a leaf is a Del of KeySet.
LEMMA RemoveLeafRefines ==
    ASSUME NEW lo, NEW hi, NEW lv, TypeOK, Good(lo, hi, lv), RemoveLeaf
    PROVE  \E k \in Key : /\ k \in Contents /\ Contents' = Contents \ {k}
                          /\ answer' = <<k, TRUE>>
  <1>1. job.do = "find_key"
    BY DEF RemoveLeaf
  <1>2. PICK op \in {"put", "del"}, k \in Key, p \in Live :
              /\ job = [do |-> "find_key", op |-> op, key |-> k, page |-> p]
              /\ lo[p] < k /\ k < hi[p]
    BY <1>1, SearchJob DEF Good
  <1>3. /\ job.key = k /\ job.page = p /\ p \in Page /\ l_pos[p] \in Int /\ r_pos[p] \in Int
    BY <1>2, LiveTyped
  <1>4. PICK i \in l_pos[p]..r_pos[p] :
              /\ EndsAt(p, k, i) /\ Found(p, k, i)
              /\ l_pos' = [l_pos EXCEPT ![p] = @ + Closing(p, i)]
              /\ r_pos' = [r_pos EXCEPT ![p] = @ - 1 + Closing(p, i)]
              /\ key' = [key EXCEPT ![p] = KeysWithout(p, i)]
              /\ kid' = [kid EXCEPT ![p] = KidsWithout(p, i)]
    BY <1>3 DEF RemoveLeaf
  <1>5. i \in Slots(p) /\ key[p][i] = k
    BY <1>3, <1>4 DEF Found, Slots
  <1>6. Live' = Live /\ answer' = <<k, TRUE>>
    <2>1. UNCHANGED pages /\ answer' = <<job.key, TRUE>>
      BY DEF RemoveLeaf
    <2>2. Live' = Live
      BY <2>1 DEF pages, Live, Free
    <2> QED BY <1>3, <2>1, <2>2
  <1>7. PICK T : T = {p}
    OBVIOUS
  <1>8. ArraysStay(T) /\ job'.do # "insert_internal"
    <2>1. ArraysStay(T)
      BY <1>3, <1>4, <1>7 DEF ArraysStay, TypeOK
    <2>2. job'.do # "insert_internal"
      BY <1>3 DEF RemoveLeaf, ShrinkIfSmall, Idle
    <2> QED BY <2>1, <2>2
  <1>9. PICK d : d = Closing(p, i)
    OBVIOUS
  <1>10. l_pos'[p] = l_pos[p] + d /\ r_pos'[p] = r_pos[p] - 1 + d /\ key'[p] = KeysWithout(p, i)
    BY <1>3, <1>4, <1>9 DEF TypeOK
  <1>11. \A v : Has(p, v)' <=> \E u \in Slots(p) : u # i /\ key[p][u] = v
    BY <1>5, <1>9, <1>10, ClosedHas
  <1>12. /\ \A x \in Live : x # p => ~Has(x, k)
         /\ \A u \in Slots(p) : key[p][u] = k => u = i
    BY <1>5, FoundOnce
  <1>13. \A v : Has(p, v)' <=> Has(p, v) /\ v # k
    BY <1>5, <1>11, <1>12 DEF Has
  <1>14. ASSUME NEW v PROVE v \in Contents' <=> v \in Contents /\ v # k
    <2>1. ~Waiting(v) /\ ~Waiting(v)'
      BY <1>1, <1>8 DEF Waiting
    <2>2. /\ v \in Contents <=> (\E x \in Live \ T : Has(x, v)) \/ (\E x \in Live \cap T : Has(x, v))
          /\ v \in Contents' <=> (\E x \in Live \ T : Has(x, v)) \/ (\E x \in Live' \cap T : Has(x, v)')
      BY <1>6, <1>8, <2>1, ContentsFrame
    <2>3. /\ (\E x \in Live \cap T : Has(x, v)) <=> Has(p, v)
          /\ (\E x \in Live' \cap T : Has(x, v)') <=> Has(p, v)'
      BY <1>6, <1>7
    <2>4. v = k => ~\E x \in Live \ T : Has(x, v)
      BY <1>7, <1>12
    <2> QED BY <1>13, <2>2, <2>3, <2>4
  <1>15. k \in Contents
    BY <1>5, InContents DEF Has
  <1> QED BY <1>6, <1>14, <1>15

\* The removed key of an inner slot gives way to the last one of a leaf.
LEMMA RemoveInternalRefines ==
    ASSUME NEW lo, NEW hi, NEW lv, TypeOK, Good(lo, hi, lv), RemoveInternal
    PROVE  \E k \in Key : /\ k \in Contents /\ Contents' = Contents \ {k}
                          /\ answer' = <<k, TRUE>>
  <1>1. PICK g \in Live, p \in Live, h \in 0..INDEXCOUNT, k \in Key :
              /\ job = [do |-> "remove_internal", page |-> g, pos |-> h, key |-> k, leaf |-> p]
              /\ h \in Slots(g) /\ key[g][h] = k
              /\ lv[p] < lv[g]
    BY DescentJob DEF RemoveInternal, Good
  <1>2. /\ job.do = "remove_internal" /\ job.page = g /\ job.pos = h /\ job.key = k /\ job.leaf = p
    BY <1>1
  <1>3. Leaf(p) /\ Fresh = {}
    BY <1>2 DEF RemoveInternal, Fresh
  <1>4. lv[p] = 0 /\ p # g /\ p # root
    <2>1. lv[p] = 0
      BY <1>3, LeafLevel
    <2>2. lv[g] \in Nat /\ lv[root] \in Nat /\ lv[g] <= lv[root]
      BY DEF Good, GhostType, RootOK
    <2> QED BY <1>1, <2>1, <2>2
  <1>5. p \in Page /\ g \in Page /\ l_pos[p] \in Nat /\ r_pos[p] \in Nat
    BY LiveTyped
  <1>6. size(p) > 0
    <2>1. size(p) >= INDEXMINR
      BY <1>2, <1>3, <1>4 DEF Good, Size
    <2> QED BY <1>5, <2>1, Sizes DEF size
  <1>7. PICK i : i = r_pos[p] - 1
    OBVIOUS
  <1>8. i \in Slots(p)
    BY <1>5, <1>6, <1>7 DEF Slots, size
  <1>9. PICK d, K, v : d = Closing(p, i) /\ K = KeysWithout(p, i) /\ v = key[p][i]
    OBVIOUS
  <1>10. /\ l_pos' = [l_pos EXCEPT ![p] = @ + d] /\ r_pos' = [r_pos EXCEPT ![p] = @ - 1 + d]
         /\ key' = [key EXCEPT ![g] = [@ EXCEPT ![h] = v], ![p] = K]
         /\ kid' = [kid EXCEPT ![p] = KidsWithout(p, i)]
         /\ UNCHANGED pages /\ answer' = <<k, TRUE>>
         /\ job'.do # "insert_internal"
    BY <1>2, <1>7, <1>9 DEF RemoveInternal, ShrinkIfSmall, Idle
  <1>11. Live' = Live
    BY <1>10 DEF pages, Live, Free
  <1>12. PICK T : T = {g, p}
    OBVIOUS
  <1>13. ArraysStay(T)
    BY <1>5, <1>10, <1>12 DEF ArraysStay, TypeOK
  <1>14. l_pos'[p] = l_pos[p] + d /\ r_pos'[p] = r_pos[p] - 1 + d /\ key'[p] = KeysWithout(p, i)
    BY <1>4, <1>5, <1>9, <1>10 DEF TypeOK
  <1>15. \A w : Has(p, w)' <=> \E u \in Slots(p) : u # i /\ key[p][u] = w
    BY <1>8, <1>9, <1>14, ClosedHas
  <1>16. /\ \A x \in Live : x # p => ~Has(x, v)
         /\ \A u \in Slots(p) : key[p][u] = v => u = i
    BY <1>8, <1>9, FoundOnce
  <1>17. \A w : Has(p, w)' <=> Has(p, w) /\ w # v
    BY <1>8, <1>9, <1>15, <1>16 DEF Has
  <1>18. /\ \A x \in Live : x # g => ~Has(x, k)
         /\ \A u \in Slots(g) : key[g][u] = k => u = h
    BY <1>1, FoundOnce
  <1>19. \A w : Has(g, w)' <=> (Has(g, w) /\ w # k) \/ w = v
    <2>1. Slots(g)' = Slots(g)
      BY <1>4, <1>5, <1>10 DEF Slots, TypeOK
    <2>2. key[g] \in [Slots(g) -> Key]
      BY <1>5 DEF TypeOK, Slots
    <2>3. key'[g] = [key[g] EXCEPT ![h] = v]
      BY <1>4, <1>5, <1>10 DEF TypeOK
    <2>4. \A u \in Slots(g) : key'[g][u] = IF u = h THEN v ELSE key[g][u]
      BY <1>1, <2>2, <2>3
    <2>5. \A w : Has(g, w)' <=> \E u \in Slots(g) : key'[g][u] = w
      BY <2>1 DEF Has
    <2>6. \A w : (\E u \in Slots(g) : key'[g][u] = w) <=> (\E u \in Slots(g) : u # h /\ key[g][u] = w) \/ w = v
      BY <1>1, <2>4
    <2>7. \A w : (\E u \in Slots(g) : u # h /\ key[g][u] = w) <=> Has(g, w) /\ w # k
      BY <1>1, <1>18 DEF Has
    <2> QED BY <2>5, <2>6, <2>7
  <1>20. k # v
    BY <1>4, <1>8, <1>9, <1>18 DEF Has
  <1>21. ASSUME NEW w PROVE w \in Contents' <=> w \in Contents /\ w # k
    <2>1. ~Waiting(w) /\ ~Waiting(w)'
      BY <1>2, <1>10 DEF Waiting
    <2>2. /\ w \in Contents <=> (\E x \in Live \ T : Has(x, w)) \/ (\E x \in Live \cap T : Has(x, w))
          /\ w \in Contents' <=> (\E x \in Live \ T : Has(x, w)) \/ (\E x \in Live' \cap T : Has(x, w)')
      BY <1>11, <1>13, <2>1, ContentsFrame
    <2>3. /\ (\E x \in Live \cap T : Has(x, w)) <=> Has(g, w) \/ Has(p, w)
          /\ (\E x \in Live' \cap T : Has(x, w)') <=> Has(g, w)' \/ Has(p, w)'
      BY <1>11, <1>12
    <2>4. w = k => (~\E x \in Live \ T : Has(x, w)) /\ ~Has(p, w)
      BY <1>4, <1>12, <1>18
    <2>5. Has(p, v)
      BY <1>8, <1>9 DEF Has
    <2> QED BY <1>17, <1>19, <1>20, <2>2, <2>3, <2>4, <2>5
  <1>22. k \in Contents
    BY <1>1, InContents DEF Has
  <1> QED BY <1>10, <1>21, <1>22

-------------------------------------------------------------------------------
(* Splits and merges move keys and lose none.                              *)

\* A new root changes nothing of what KeySet sees.
LEMMA AllocRootRefines ==
    ASSUME NEW lo, NEW hi, NEW lv, TypeOK, FreeOK, Good(lo, hi, lv), AllocRootIndexPage
    PROVE  Contents' = Contents /\ answer' = answer
  <1>1. PICK n : n = NewPage
    OBVIOUS
  <1>2. n \in Page /\ n \notin Live /\ Live' = Live \cup {n}
    BY <1>1, Allocated DEF AllocRootIndexPage
  <1>3. /\ l_pos' = [l_pos EXCEPT ![n] = 0] /\ r_pos' = [r_pos EXCEPT ![n] = 0]
        /\ key' = [key EXCEPT ![n] = <<>>] /\ kid' = [kid EXCEPT ![n] = [i \in {0} |-> 0]]
        /\ job' = [job EXCEPT !.parent = n] /\ answer' = answer /\ job.do = "split"
    BY <1>1 DEF AllocRootIndexPage
  <1>4. PICK p \in Live, q \in Live \cup {0} : job = [do |-> "split", page |-> p, parent |-> q]
    BY <1>3, SplitJob DEF Good
  <1>5. job'.do = "split"
    BY <1>3, <1>4
  <1>6. PICK T : T = {n}
    OBVIOUS
  <1>7. ArraysStay(T)
    BY <1>3, <1>6 DEF ArraysStay, TypeOK
  <1>8. Slots(n)' = {}
    BY <1>2, <1>3 DEF Slots, TypeOK
  <1>9. ASSUME NEW v PROVE v \in Contents' <=> v \in Contents
    <2>1. ~Waiting(v) /\ ~Waiting(v)'
      BY <1>3, <1>5 DEF Waiting
    <2>2. /\ v \in Contents <=> (\E x \in Live \ T : Has(x, v)) \/ (\E x \in Live \cap T : Has(x, v))
          /\ v \in Contents' <=> (\E x \in Live \ T : Has(x, v)) \/ (\E x \in Live' \cap T : Has(x, v)')
      BY <1>2, <1>6, <1>7, <2>1, ContentsFrame
    <2>3. Live \cap T = {} /\ Live' \cap T = {n}
      BY <1>2, <1>6
    <2>4. ~Has(n, v)'
      BY <1>8 DEF Has
    <2> QED BY <2>2, <2>3, <2>4
  <1> QED BY <1>3, <1>9

\* Nor does a split: a key is in one of the halves or on its way to the
\* parent.
LEMMA SplitRefines ==
    ASSUME NEW lo, NEW hi, NEW lv, TypeOK, FreeOK, Good(lo, hi, lv), Split
    PROVE  Contents' = Contents /\ answer' = answer
  <1>1. PICK p \in Live, q \in Live \cup {0} :
          /\ job = [do |-> "split", page |-> p, parent |-> q]
          /\ size(p) = INDEXCOUNT
    BY SplitJob DEF Split, Good
  <1>2. job.do = "split" /\ job.page = p
    BY <1>1
  <1>3. PICK n : n = NewPage
    OBVIOUS
  <1>4. n \in Page /\ n \notin Live /\ Live' = Live \cup {n}
    BY <1>3, Allocated DEF Split
  <1>5. PICK M, R, KP, LP, KS, LS :
              /\ M = INDEXMINL /\ R = INDEXMINR
              /\ KP = Moved(key[p], l_pos[p]..(INDEXMINL - 1), 0)
              /\ LP = Moved(kid[p], l_pos[p]..INDEXMINL, 0)
              /\ KS = Moved(key[p], ((INDEXMINL + 1)..INDEXCOUNT) \ {INDEXCOUNT}, -(INDEXMINL + 1))
              /\ LS = Moved(kid[p], (INDEXMINL + 1)..INDEXCOUNT, -(INDEXMINL + 1))
              /\ HalvesAre(p, M, R, KP, LP, KS, LS)
    BY <1>1, Halves
  <1>6. PICK mid : mid = key[p][M]
    OBVIOUS
  <1>7. /\ l_pos' = [l_pos EXCEPT ![n] = 0]
        /\ r_pos' = [r_pos EXCEPT ![n] = R, ![p] = M]
        /\ key' = [key EXCEPT ![n] = KS, ![p] = KP]
        /\ kid' = [kid EXCEPT ![n] = LS, ![p] = LP]
        /\ answer' = answer
    BY <1>2, <1>3, <1>5 DEF Split
  <1>8. job'.do = "insert_internal" /\ job'.key = mid
    BY <1>2, <1>5, <1>6 DEF Split
  <1>9. p \in Page /\ p # n
    BY <1>4, LiveIsPage
  <1>10. PICK T : T = {p, n}
    OBVIOUS
  <1>11. ArraysStay(T) /\ Live' \ T = Live \ T
    <2>1. ArraysStay(T)
      BY <1>7, <1>10 DEF ArraysStay, TypeOK
    <2>2. Live' \ T = Live \ T
      BY <1>4, <1>10
    <2> QED BY <2>1, <2>2
  <1>12. /\ l_pos[p] = 0 /\ r_pos[p] = INDEXCOUNT /\ M \in Int /\ R \in Int /\ M + R + 1 = INDEXCOUNT
         /\ 1 <= R /\ R <= M
    BY <1>5 DEF HalvesAre
  <1>13. /\ \A j \in 0..(M - 1) : KP[j] = key[p][j]
         /\ \A j \in 0..(R - 1) : KS[j] = key[p][j + M + 1]
    BY <1>5 DEF HalvesAre
  <1>14. Slots(p)' = 0..(M - 1) /\ Slots(n)' = 0..(R - 1) /\ Slots(p) = 0..(M + R)
    <2>1. l_pos'[p] = 0 /\ r_pos'[p] = M /\ l_pos'[n] = 0 /\ r_pos'[n] = R
      BY <1>4, <1>7, <1>9, <1>12 DEF TypeOK
    <2>2. INDEXCOUNT - 1 = M + R
      BY <1>12
    <2> QED BY <1>12, <2>1, <2>2 DEF Slots
  <1>15. key'[p] = KP /\ key'[n] = KS
    BY <1>4, <1>7, <1>9 DEF TypeOK
  <1>16. ASSUME NEW v PROVE Has(p, v) <=> Has(p, v)' \/ Has(n, v)' \/ v = mid
    <2>1. /\ Has(p, v)' <=> \E j \in 0..(M - 1) : key[p][j] = v
          /\ Has(n, v)' <=> \E j \in 0..(R - 1) : key[p][j + M + 1] = v
          /\ Has(p, v) <=> \E j \in 0..(M + R) : key[p][j] = v
      BY <1>13, <1>14, <1>15 DEF Has
    <2>2. ASSUME NEW j \in 0..(M + R)
          PROVE  j \in 0..(M - 1) \/ j = M \/ \E u \in 0..(R - 1) : j = u + M + 1
      <3>1. j > M => /\ j - M - 1 \in 0..(R - 1) /\ j = (j - M - 1) + M + 1
        BY <1>12
      <3> QED BY <1>12, <3>1
    <2>3. ASSUME NEW j \in 0..(R - 1) PROVE j + M + 1 \in 0..(M + R)
      BY <1>12
    <2>4. 0..(M - 1) \subseteq 0..(M + R) /\ M \in 0..(M + R)
      BY <1>12
    <2>5. Has(p, v) => Has(p, v)' \/ Has(n, v)' \/ v = mid
      BY <1>6, <2>1, <2>2
    <2>6. Has(p, v)' \/ Has(n, v)' \/ v = mid => Has(p, v)
      BY <1>6, <2>1, <2>3, <2>4
    <2> QED BY <2>5, <2>6
  <1>17. ASSUME NEW v PROVE v \in Contents' <=> v \in Contents
    <2>1. ~Waiting(v) /\ (Waiting(v)' <=> v = mid)
      BY <1>2, <1>8 DEF Waiting
    <2>2. /\ v \in Contents <=> (\E x \in Live \ T : Has(x, v)) \/ (\E x \in Live \cap T : Has(x, v))
          /\ v \in Contents' <=> \/ \E x \in Live \ T : Has(x, v)
                                 \/ \E x \in Live' \cap T : Has(x, v)'
                                 \/ v = mid
      BY <1>11, <2>1, ContentsFrame
    <2>3. Live \cap T = {p} /\ Live' \cap T = {p, n}
      BY <1>4, <1>10
    <2>4. /\ (\E x \in Live \cap T : Has(x, v)) <=> Has(p, v)
          /\ (\E x \in Live' \cap T : Has(x, v)') <=> Has(p, v)' \/ Has(n, v)'
      BY <2>3
    <2> QED BY <1>16, <2>2, <2>4
  <1> QED BY <1>7, <1>17

\* Nor does the arrival of a key in the parent.
LEMMA InsertInternalRefines ==
    ASSUME NEW lo, NEW hi, NEW lv, TypeOK, Good(lo, hi, lv), InsertInternal
    PROVE  Contents' = Contents /\ answer' = answer
  <1>1. PICK g, a, b \in Live, k \in Key, i \in 0..INDEXCOUNT :
          /\ job = [do |-> "insert_internal", page |-> g, pos |-> i, key |-> k,
                    l_child |-> a, r_child |-> b]
          /\ i \in Positions(g)
          /\ size(g) < INDEXCOUNT
    <2>1. PICK g, a, b \in Live, k \in Key, i \in 0..INDEXCOUNT :
          /\ job = [do |-> "insert_internal", page |-> g, pos |-> i, key |-> k,
                    l_child |-> a, r_child |-> b]
          /\ i \in Positions(g)
          /\ \/ size(g) < INDEXCOUNT
             \/ Blank(g)
      BY EnteringJob DEF InsertInternal, Good
    <2>2. Blank(g) => size(g) < INDEXCOUNT
      BY CountAssumption DEF Blank, size
    <2> QED BY <2>1, <2>2
  <1>2. job.do = "insert_internal" /\ job.page = g /\ job.pos = i /\ job.key = k
    BY <1>1
  <1>3. PICK d : d = Gap(g, i)
    OBVIOUS
  <1>4. /\ l_pos' = [l_pos EXCEPT ![g] = @ - d] /\ r_pos' = [r_pos EXCEPT ![g] = @ + 1 - d]
        /\ key' = [key EXCEPT ![g] = KeysWith(g, i, k)]
        /\ kid' = [kid EXCEPT ![g] = KidsWith(g, i, job.l_child, job.r_child)]
        /\ UNCHANGED pages /\ answer' = answer
    BY <1>2, <1>3 DEF InsertInternal
  <1>5. job'.do # "insert_internal"
    BY DEF InsertInternal, SplitIfFull, Idle
  <1>6. Live' = Live /\ g \in Page
    BY <1>4, LiveIsPage DEF pages, Live, Free
  <1>7. PICK T : T = {g}
    OBVIOUS
  <1>8. ArraysStay(T)
    BY <1>4, <1>7 DEF ArraysStay, TypeOK
  <1>9. l_pos'[g] = l_pos[g] - d /\ r_pos'[g] = r_pos[g] + 1 - d /\ key'[g] = KeysWith(g, i, k)
    BY <1>4, <1>6 DEF TypeOK
  <1>10. \A v : Has(g, v)' <=> Has(g, v) \/ v = k
    BY <1>1, <1>3, <1>9, InsertedHas
  <1>11. ASSUME NEW v PROVE v \in Contents' <=> v \in Contents
    <2>1. (Waiting(v) <=> v = k) /\ ~Waiting(v)'
      BY <1>2, <1>5 DEF Waiting
    <2>2. /\ v \in Contents <=> \/ \E x \in Live \ T : Has(x, v)
                                \/ \E x \in Live \cap T : Has(x, v)
                                \/ v = k
          /\ v \in Contents' <=> (\E x \in Live \ T : Has(x, v)) \/ (\E x \in Live' \cap T : Has(x, v)')
      BY <1>6, <1>8, <2>1, ContentsFrame
    <2>3. /\ (\E x \in Live \cap T : Has(x, v)) <=> Has(g, v)
          /\ (\E x \in Live' \cap T : Has(x, v)') <=> Has(g, v)'
      BY <1>6, <1>7
    <2> QED BY <1>10, <2>2, <2>3
  <1> QED BY <1>4, <1>11

-------------------------------------------------------------------------------
(* The index is the set of its keys.                                       *)

\* The empty index is the empty set.
LEMMA InitRefines == Init => Index!Init
  <1>1. SUFFICES ASSUME Init PROVE Contents = {} /\ answer = <<>>
    BY DEF Index!Init
  <1>2. job.do = "idle" /\ \A v : ~Waiting(v)
    BY <1>1 DEF Init, Idle, Waiting
  <1>3. Free = {} /\ Live = {1}
    <2>1. Free = {}
      BY <1>1 DEF Init, Free
    <2> QED BY <1>1, <2>1 DEF Init, Live
  <1>4. Slots(1) = {}
    <2>1. 1 \in Page
      BY PageAssumption DEF Page
    <2>2. l_pos[1] = 0 /\ r_pos[1] = 0
      BY <1>1, <2>1 DEF Init
    <2> QED BY <2>2 DEF Slots
  <1>5. \A v : v \notin Contents
    BY <1>2, <1>3, <1>4, InContents DEF Has
  <1> QED BY <1>1, <1>5 DEF Init

\* Every step of the index is one of KeySet, or changes nothing of what it
\* sees.
LEMMA NextRefines == IInv /\ [Next]_vars => [Index!Next]_(Index!vars)
  <1>1. SUFFICES ASSUME IInv, [Next]_vars
                 PROVE  Index!Next \/ (Contents' = Contents /\ answer' = answer)
    BY DEF Index!vars
  <1>2. PICK lo, hi, lv : TypeOK /\ FreeOK /\ Good(lo, hi, lv)
    BY <1>1 DEF IInv
  <1>3. ASSUME NEW k \in Key, k \in Contents, answer' = <<k, TRUE>>,
               Contents' = Contents \/ Contents' = Contents \ {k}
        PROVE  Index!Next
    <2>1. (k \in Contents) = TRUE
      BY <1>3
    <2>2. answer' = <<k, k \in Contents>>
      BY <1>3, <2>1
    <2>3. CASE Contents' = Contents
      <3>1. Contents' = Contents \cup {k}
        BY <1>3, <2>3
      <3> QED BY <2>2, <3>1 DEF Index!Next, Index!Put
    <2>4. CASE Contents' = Contents \ {k}
      BY <2>2, <2>4 DEF Index!Next, Index!Del
    <2> QED BY <1>3, <2>3, <2>4
  <1>4. ASSUME NEW k \in Key, k \notin Contents, answer' = <<k, FALSE>>,
               Contents' = Contents \/ Contents' = Contents \cup {k}
        PROVE  Index!Next
    <2>1. (k \in Contents) = FALSE
      BY <1>4
    <2>2. answer' = <<k, k \in Contents>>
      BY <1>4, <2>1
    <2>3. CASE Contents' = Contents
      <3>1. Contents' = Contents \ {k}
        BY <1>4, <2>3
      <3> QED BY <2>2, <3>1 DEF Index!Next, Index!Del
    <2>4. CASE Contents' = Contents \cup {k}
      BY <2>2, <2>4 DEF Index!Next, Index!Put
    <2> QED BY <1>4, <2>3, <2>4
  <1>5. CASE FindKey \/ FindRightMost \/ GoRightMost \/ \E k \in Key : Put(k) \/ Del(k)
    BY <1>2, <1>5, SearchRefines
  <1>6. CASE NothingToDo
    <2>1. PICK k \in Key : /\ Contents' = Contents
                           /\ \/ k \in Contents /\ answer' = <<k, TRUE>>
                              \/ k \notin Contents /\ answer' = <<k, FALSE>>
      BY <1>2, <1>6, NothingToDoRefines
    <2> QED BY <1>3, <1>4, <2>1
  <1>7. CASE InsertInitNode \/ InsertLeaf
    <2>1. PICK k \in Key : /\ k \notin Contents /\ Contents' = Contents \cup {k}
                           /\ answer' = <<k, FALSE>>
      BY <1>2, <1>7, InsertRefines
    <2> QED BY <1>4, <2>1
  <1>8. CASE RemoveLeaf \/ RemoveInternal
    <2>1. PICK k \in Key : /\ k \in Contents /\ Contents' = Contents \ {k}
                           /\ answer' = <<k, TRUE>>
      BY <1>2, <1>8, RemoveLeafRefines, RemoveInternalRefines
    <2> QED BY <1>3, <2>1
  <1>9. CASE AllocRootIndexPage
    BY <1>2, <1>9, AllocRootRefines
  <1>10. CASE Split
    BY <1>2, <1>10, SplitRefines
  <1>11. CASE InsertInternal
    BY <1>2, <1>11, InsertInternalRefines
  <1>12. CASE RShrink \/ LShrink
    BY <1>2, <1>12, ShrinkKeeps
  <1>13. CASE UNCHANGED vars
    <2>1. /\ l_pos' = l_pos /\ r_pos' = r_pos /\ key' = key /\ max' = max /\ free' = free
          /\ job' = job /\ answer' = answer
      BY <1>13 DEF vars, slots, pages
    <2>2. Live' = Live /\ \A x, v : Has(x, v)' <=> Has(x, v)
      BY <2>1 DEF Live, Free, Has, Slots
    <2>3. \A v : Waiting(v)' <=> Waiting(v)
      BY <2>1 DEF Waiting
    <2>4. \A v : v \in Contents' <=> v \in Contents
      BY <2>2, <2>3, InContents, InContentsNext
    <2> QED BY <2>1, <2>4
  <1> QED BY <1>1, <1>5, <1>6, <1>7, <1>8, <1>9, <1>10, <1>11, <1>12, <1>13 DEF Next, Call

\* The index is the set of its keys: put and del change it and answer as KeySet
\* says, wherever a key goes on its way, and no split, merge or borrowed key
\* loses one or makes one up.
THEOREM Refinement == Spec => ImplementsKeySet
  BY InitRefines, NextRefines, TreeSound, PTL DEF Spec, ImplementsKeySet, Index!Spec

===============================================================================
