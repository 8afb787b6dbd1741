-------------------------------- MODULE BTree ---------------------------------
(***************************************************************************)
(* The index of a table: a B-tree of pages (class Page, znet/common/db.h). *)
(* An index page holds its keys in the slots from l_pos up to r_pos of an  *)
(* array of INDEXCOUNT slots, so that it can grow at both ends; the slot   *)
(* at position i has a link at i to its left child and one at i + 1 to its *)
(* right child, and the links of a leaf are 0.  A page knows its parent by *)
(* the pair (parent_index, parent_pos): the page, and the position there   *)
(* of the link to it.  Whatever moves a link moves the child's parent_pos. *)
(*                                                                         *)
(* An operation is a chain of calls of one page's functions after another: *)
(* find_key goes down page by page, insert_leaf and insert_internal split  *)
(* a full page, which inserts into its parent, and remove_leaf shrinks a   *)
(* page, which may shrink its parent.  Each call is the last thing that    *)
(* its caller does.  A step of this module is a call, or a round of a loop *)
(* that goes down one page, and job is the call to be made.  The storage   *)
(* is locked: a chain ends before the next one starts.                     *)
(*                                                                         *)
(* Abstractions.  A key is its rank among all keys, and stands for the key *)
(* and the data position of a slot, which copy_key moves together;         *)
(* replacing the value of a key leaves the index alone.  The binary search *)
(* of a page is its outcome.  What the array holds outside of              *)
(* l_pos .. r_pos is not kept.  The data pages, which come from the same   *)
(* free list, are left out.                                                *)
(***************************************************************************)
EXTENDS Integers, Sequences

CONSTANTS MaxKey,      \* the number of keys
          MaxPage,     \* the number of pages a file can have
          INDEXCOUNT   \* slots of an index page

ASSUME KeyAssumption   == MaxKey \in Nat
ASSUME PageAssumption  == MaxPage \in Nat \ {0}
ASSUME CountAssumption == INDEXCOUNT \in Nat /\ INDEXCOUNT >= 3

Key  == 1..MaxKey
Page == 1..MaxPage     \* page 0 is the magic page: 0 stands for no page

INDEXMINL  == INDEXCOUNT \div 2
INDEXMINR  == INDEXCOUNT - INDEXMINL - 1
INDEXSLIPR == (INDEXCOUNT - INDEXMINR) \div 2 + 1
INDEXSLIPL == (INDEXCOUNT - INDEXMINR) \div 2

VARIABLES l_pos, r_pos,   \* the slots of a page that are in use
          key, kid,       \* its keys and its links, by position
          parent_index, parent_pos,
          root,           \* root_index_idx of the magic page
          max,            \* max_page_idx of the magic page
          free,           \* the list from free_page_list
          dirty,          \* the pages marked dirty since the operation began
          job,            \* the call to be made
          answer          \* what the last put or del answered

slots == <<l_pos, r_pos, key, kid>>
links == <<parent_index, parent_pos>>
pages == <<root, max, free>>
vars  == <<slots, links, pages, dirty, job, answer>>

Idle == [do |-> "idle"]

size(p)  == r_pos[p] - l_pos[p]
m_pos(p) == (r_pos[p] + l_pos[p]) \div 2
Leaf(p)  == kid[p][l_pos[p]] = 0

\* The children of p at the positions S.
Kids(p, S) == {kid[p][i] : i \in S} \ {0}

MutPosOf(p, x) ==
    (CHOOSE i \in l_pos[p]..r_pos[p] : kid[p][i] = x) - l_pos[p]

\* The position in p of the link to x.
PosOf(p, x) == CHOOSE i \in l_pos[p]..r_pos[p] : kid[p][i] = x

Init ==
    /\ l_pos = [p \in Page |-> 0] /\ r_pos = l_pos
    /\ key = [p \in Page |-> <<>>] /\ kid = [p \in Page |-> [i \in {0} |-> 0]]
    /\ parent_index = [p \in Page |-> 0] /\ parent_pos = parent_index
    /\ root = 1 /\ max = 1 /\ free = <<>>
    /\ dirty = {} /\ job = Idle /\ answer = <<>>

-------------------------------------------------------------------------------
(* Pages: alloc and free, and the slots of a page                          *)

\* The page that alloc() returns.
NewPage == IF free = <<>> THEN max + 1 ELSE Head(free)

MutAlloc ==
    /\ NewPage \in Page
    /\ max' = IF free = <<>> THEN max + 1 ELSE max
    /\ free' = free

Alloc ==
    /\ NewPage \in Page
    /\ max' = IF free = <<>> THEN max + 1 ELSE max
    /\ free' = IF free = <<>> THEN free ELSE Tail(free)

\* A new slot for position i of page p is made by moving the slots from there
\* on up, or else those before it down: 0 or 1, what its position loses by it.
MutGap(p, i) == IF m_pos(p) < i /\ r_pos[p] < INDEXCOUNT THEN 0 ELSE 1

Gap(p, i) == IF l_pos[p] = 0 \/ (m_pos(p) < i /\ r_pos[p] < INDEXCOUNT) THEN 0 ELSE 1

\* The arrays of p with key k, and the links l and r, in the new slot i - Gap.
KeysWith(p, i, k) ==
    LET d == Gap(p, i)
    IN  [j \in (l_pos[p] - d)..(r_pos[p] - d) |->
            IF j < i - d THEN key[p][j + d] ELSE IF j = i - d THEN k ELSE key[p][j + d - 1]]

KidsWith(p, i, l, r) ==
    LET d == Gap(p, i)
    IN  [j \in (l_pos[p] - d)..(r_pos[p] - d + 1) |->
            IF j < i - d THEN kid[p][j + d] ELSE IF j = i - d THEN l
            ELSE IF j = i - d + 1 THEN r ELSE kid[p][j + d - 1]]

\* The slot at position i is closed by moving the slots after it down, or else
\* those before it up: 0 or 1, what the slots before it gain by it.
Closing(p, i) == IF m_pos(p) < i THEN 0 ELSE 1

\* The arrays of p without the slot at position i and its right link.
KeysWithout(p, i) ==
    LET d == Closing(p, i)
    IN  [j \in (l_pos[p] + d)..(r_pos[p] + d - 2) |->
            IF j < i + d THEN key[p][j - d] ELSE key[p][j - d + 1]]

MutKidsWithout(p, i) ==
    LET d == Closing(p, i)
    IN  [j \in (l_pos[p] + d)..(r_pos[p] + d - 1) |->
            IF j < i + d THEN kid[p][j - d] ELSE kid[p][j - d + 1]]

KidsWithout(p, i) ==
    LET d == Closing(p, i)
    IN  [j \in (l_pos[p] + d)..(r_pos[p] + d - 1) |->
            IF j <= i + d THEN kid[p][j - d] ELSE kid[p][j - d + 1]]

\* The part of an array at the positions S, moved by d.
Moved(f, S, d) == [j \in {i + d : i \in S} |-> f[j - d]]

-------------------------------------------------------------------------------
(* Search *)

\* An operation begins, perhaps with all pages saved by a checkpoint before.
Begin(op, k) ==
    /\ job = Idle
    /\ job' = [do |-> "find_key", op |-> op, key |-> k, page |-> root]
    /\ dirty' = {}
    /\ UNCHANGED <<slots, links, pages, answer>>

Put(k) == Begin("put", k)
Del(k) == Begin("del", k)

MutEndsAt(p, k, i) ==
    /\ \A j \in l_pos[p]..(i - 1) : key[p][j] <= k
    /\ \A j \in i..(r_pos[p] - 1) : key[p][j] > k

\* The search for k in page p ends at position i.
EndsAt(p, k, i) ==
    /\ \A j \in l_pos[p]..(i - 1) : key[p][j] < k
    /\ \A j \in i..(r_pos[p] - 1) : key[p][j] >= k

Found(p, k, i) == i < r_pos[p] /\ key[p][i] = k

\* The search goes on in a child.
FindKey ==
    /\ job.do = "find_key"
    /\ LET p == job.page
       IN  \E i \in l_pos[p]..r_pos[p] :
              /\ EndsAt(p, job.key, i) /\ ~Found(p, job.key, i)
              /\ ~Leaf(p)
              /\ job' = [job EXCEPT !.page = kid[p][i]]
    /\ UNCHANGED <<slots, links, pages, dirty, answer>>

\* A put of a key that is there, or a del of one that is not.
NothingToDo ==
    /\ job.do = "find_key"
    /\ LET p == job.page
       IN  \E i \in l_pos[p]..r_pos[p] :
              /\ EndsAt(p, job.key, i)
              /\ \/ job.op = "put" /\ Found(p, job.key, i)
                 \/ job.op = "del" /\ ~Found(p, job.key, i) /\ Leaf(p)
              /\ answer' = <<job.key, Found(p, job.key, i)>>
    /\ job' = Idle
    /\ UNCHANGED <<slots, links, pages, dirty>>

-------------------------------------------------------------------------------
(* Insertion *)

\* After a key has entered page p, which had one less.
SplitIfFull(p) ==
    job' = IF size(p) + 1 = INDEXCOUNT
           THEN [do |-> "split", page |-> p, parent |-> parent_index[p]] ELSE Idle

InsertInitNode ==
    /\ job.do = "find_key" /\ job.op = "put"
    /\ job.page = root /\ size(root) = 0
    /\ l_pos' = [l_pos EXCEPT ![root] = INDEXMINR]
    /\ r_pos' = [r_pos EXCEPT ![root] = INDEXMINR + 1]
    /\ key' = [key EXCEPT ![root] = [i \in {INDEXMINR} |-> job.key]]
    /\ kid' = [kid EXCEPT ![root] = [i \in {INDEXMINR, INDEXMINR + 1} |-> 0]]
    /\ dirty' = dirty \cup {root}
    /\ answer' = <<job.key, FALSE>>
    /\ job' = Idle
    /\ UNCHANGED <<links, pages>>

InsertLeaf ==
    /\ job.do = "find_key" /\ job.op = "put"
    /\ LET p == job.page
       IN  /\ size(p) > 0 /\ Leaf(p)
           /\ \E i \in l_pos[p]..r_pos[p] :
                 /\ EndsAt(p, job.key, i) /\ ~Found(p, job.key, i)
                 /\ l_pos' = [l_pos EXCEPT ![p] = @ - Gap(p, i)]
                 /\ r_pos' = [r_pos EXCEPT ![p] = @ + 1 - Gap(p, i)]
                 /\ key' = [key EXCEPT ![p] = KeysWith(p, i, job.key)]
                 /\ kid' = [kid EXCEPT ![p] = KidsWith(p, i, 0, 0)]
           /\ SplitIfFull(p)
           /\ dirty' = dirty \cup {p}
    /\ answer' = <<job.key, FALSE>>
    /\ UNCHANGED <<links, pages>>

\* The root splits: it gets a parent first.
AllocRootIndexPage ==
    /\ job.do = "split" /\ job.parent = 0
    /\ Alloc
    /\ l_pos' = [l_pos EXCEPT ![NewPage] = 0]
    /\ r_pos' = [r_pos EXCEPT ![NewPage] = 0]
    /\ key' = [key EXCEPT ![NewPage] = <<>>]
    /\ kid' = [kid EXCEPT ![NewPage] = [i \in {0} |-> 0]]
    /\ parent_index' = [parent_index EXCEPT ![NewPage] = 0]
    /\ parent_pos' = [parent_pos EXCEPT ![NewPage] = 0]
    /\ root' = NewPage
    /\ dirty' = dirty \cup {NewPage}
    /\ job' = [job EXCEPT !.parent = NewPage]
    /\ UNCHANGED answer

\* A full page keeps INDEXMINL keys, gives the next one to its parent and the
\* others to a new sibling.
Split ==
    /\ job.do = "split" /\ job.parent # 0
    /\ Alloc
    /\ LET p       == job.page
           sibling == NewPage
           above   == (INDEXMINL + 1)..INDEXCOUNT
           kids    == Kids(p, above)
       IN  /\ l_pos' = [l_pos EXCEPT ![sibling] = 0]
           /\ r_pos' = [r_pos EXCEPT ![sibling] = INDEXMINR, ![p] = INDEXMINL]
           /\ key' = [key EXCEPT
                 ![sibling] = Moved(key[p], above \ {INDEXCOUNT}, -(INDEXMINL + 1)),
                 ![p] = Moved(@, l_pos[p]..(INDEXMINL - 1), 0)]
           /\ kid' = [kid EXCEPT ![sibling] = Moved(kid[p], above, -(INDEXMINL + 1)),
                                 ![p] = Moved(@, l_pos[p]..INDEXMINL, 0)]
           /\ parent_index' = [x \in Page |->
                 IF x = sibling THEN 0 ELSE IF x \in kids THEN sibling ELSE parent_index[x]]
           /\ parent_pos' = [x \in Page |->
                 IF x = sibling THEN 0
                 ELSE IF x \in kids THEN PosOf(p, x) - (INDEXMINL + 1) ELSE parent_pos[x]]
           /\ dirty' = dirty \cup {job.parent, sibling} \cup kids
           /\ job' = [do |-> "insert_internal", page |-> job.parent, pos |-> parent_pos[p],
                      key |-> key[p][INDEXMINL], l_child |-> p, r_child |-> sibling]
    /\ UNCHANGED <<root, answer>>

\* In the parent the two halves take the place of the page that was split.
InsertInternal ==
    /\ job.do = "insert_internal"
    /\ LET p    == job.page
           i    == job.pos
           d    == Gap(p, i)
           kids == IF d = 0 THEN Kids(p, (i + 1)..r_pos[p]) ELSE Kids(p, l_pos[p]..(i - 1))
       IN  /\ l_pos' = [l_pos EXCEPT ![p] = @ - d]
           /\ r_pos' = [r_pos EXCEPT ![p] = @ + 1 - d]
           /\ key' = [key EXCEPT ![p] = KeysWith(p, i, job.key)]
           /\ kid' = [kid EXCEPT ![p] = KidsWith(p, i, job.l_child, job.r_child)]
           /\ parent_index' = [parent_index EXCEPT ![job.l_child] = p, ![job.r_child] = p]
           /\ parent_pos' = [x \in Page |->
                 IF x = job.l_child THEN i - d ELSE IF x = job.r_child THEN i - d + 1
                 ELSE IF x \in kids THEN parent_pos[x] + 1 - 2 * d ELSE parent_pos[x]]
           /\ dirty' = dirty \cup kids
           /\ SplitIfFull(p)
    /\ UNCHANGED <<pages, answer>>

-------------------------------------------------------------------------------
(* Removal *)

\* After a key has left page p, which had one more.
ShrinkIfSmall(p) ==
    job' = IF size(p) - 1 < INDEXMINR /\ parent_index[p] # 0
           THEN [do |-> "shrink", page |-> p] ELSE Idle

RemoveLeaf ==
    /\ job.do = "find_key" /\ job.op = "del"
    /\ LET p == job.page
       IN  /\ Leaf(p)
           /\ \E i \in l_pos[p]..r_pos[p] :
                 /\ EndsAt(p, job.key, i) /\ Found(p, job.key, i)
                 /\ l_pos' = [l_pos EXCEPT ![p] = @ + Closing(p, i)]
                 /\ r_pos' = [r_pos EXCEPT ![p] = @ - 1 + Closing(p, i)]
                 /\ key' = [key EXCEPT ![p] = KeysWithout(p, i)]
                 /\ kid' = [kid EXCEPT ![p] = KidsWithout(p, i)]
           /\ ShrinkIfSmall(p)
           /\ dirty' = dirty \cup {p}
    /\ answer' = <<job.key, TRUE>>
    /\ UNCHANGED <<links, pages>>

MutFindRightMost ==
    /\ job.do = "find_key" /\ job.op = "del"
    /\ LET p == job.page
       IN  \E i \in l_pos[p]..r_pos[p] :
              /\ EndsAt(p, job.key, i) /\ Found(p, job.key, i)
              /\ ~Leaf(p)
              /\ job' = [do |-> "remove_internal", page |-> p, pos |-> i, key |-> job.key,
                         leaf |-> kid[p][i]]
    /\ UNCHANGED <<slots, links, pages, dirty, answer>>

\* The key of an internal slot will be replaced by the one before it: the last
\* of the rightmost leaf below the slot's left link.
FindRightMost ==
    /\ job.do = "find_key" /\ job.op = "del"
    /\ LET p == job.page
       IN  \E i \in l_pos[p]..r_pos[p] :
              /\ EndsAt(p, job.key, i) /\ Found(p, job.key, i)
              /\ ~Leaf(p)
              /\ job' = [do |-> "remove_internal", page |-> p, pos |-> i, key |-> job.key,
                         leaf |-> kid[p][i]]
              /\ dirty' = dirty \cup {p}
    /\ UNCHANGED <<slots, links, pages, answer>>

GoRightMost ==
    /\ job.do = "remove_internal"
    /\ ~Leaf(job.leaf)
    /\ job' = [job EXCEPT !.leaf = kid[job.leaf][r_pos[job.leaf]]]
    /\ UNCHANGED <<slots, links, pages, dirty, answer>>

RemoveInternal ==
    /\ job.do = "remove_internal"
    /\ Leaf(job.leaf)
    /\ LET p == job.leaf
           i == r_pos[p] - 1
       IN  /\ l_pos' = [l_pos EXCEPT ![p] = @ + Closing(p, i)]
           /\ r_pos' = [r_pos EXCEPT ![p] = @ - 1 + Closing(p, i)]
           /\ key' = [key EXCEPT ![job.page] = [@ EXCEPT ![job.pos] = key[p][i]],
                                 ![p] = KeysWithout(p, i)]
           /\ kid' = [kid EXCEPT ![p] = KidsWithout(p, i)]
           /\ ShrinkIfSmall(p)
           /\ dirty' = dirty \cup {p}
    /\ answer' = <<job.key, TRUE>>
    /\ UNCHANGED <<links, pages>>

-------------------------------------------------------------------------------
(* A page with too few keys borrows one from a sibling or merges with it.  *)

CanLend(p) == size(p) > INDEXMINR

\* Page p takes in the key of its parent q at position h and its right sibling
\* s, after moving its own slots to the beginning if there is no room.  A root
\* that is left without keys gives way to p.
MergeSibling(p, q, h, s, marked) ==
    LET d       == IF r_pos[p] + size(s) + 1 > INDEXCOUNT THEN -l_pos[p] ELSE 0
        tail    == r_pos[p] + d
        end     == tail + size(s) + 1
        up      == tail + 1 - l_pos[s]
        c       == Closing(q, h)
        kids    == IF d = 0 THEN {} ELSE Kids(p, l_pos[p]..r_pos[p])
        adopted == Kids(s, l_pos[s]..r_pos[s])
        shifted == IF c = 0 THEN Kids(q, (h + 2)..r_pos[q]) ELSE Kids(q, l_pos[q]..h)
        last    == size(q) = 1 /\ parent_index[q] = 0
    IN  /\ l_pos' = [l_pos EXCEPT ![p] = @ + d, ![q] = @ + c]
        /\ r_pos' = [r_pos EXCEPT ![p] = end, ![q] = @ - 1 + c]
        /\ key' = [key EXCEPT
              ![p] = [j \in (l_pos[p] + d)..(end - 1) |->
                         IF j < tail THEN key[p][j - d]
                         ELSE IF j = tail THEN key[q][h] ELSE key[s][j - up]],
              ![q] = KeysWithout(q, h)]
        /\ kid' = [kid EXCEPT
              ![p] = [j \in (l_pos[p] + d)..end |->
                         IF j <= tail THEN kid[p][j - d] ELSE kid[s][j - up]],
              ![q] = KidsWithout(q, h)]
        /\ parent_index' = [x \in Page |->
              IF x \in adopted THEN p ELSE IF x = p /\ last THEN 0 ELSE parent_index[x]]
        /\ parent_pos' = [x \in Page |->
              IF x \in kids THEN PosOf(p, x) + d
              ELSE IF x \in adopted THEN PosOf(s, x) + up
              ELSE IF x = p /\ last THEN 0
              ELSE IF x \in shifted THEN parent_pos[x] - 1 + 2 * c ELSE parent_pos[x]]
        /\ root' = IF last THEN p ELSE root
        /\ free' = (IF last THEN <<q>> ELSE <<>>) \o <<s>> \o free
        /\ dirty' = dirty \cup marked \cup {s} \cup kids \cup adopted \cup shifted
        /\ ShrinkIfSmall(q)
        /\ UNCHANGED <<max, answer>>

\* p borrows from its right sibling s, across the key of q at position h.
BorrowRight(p, q, h, s) ==
    LET slides == r_pos[p] = INDEXCOUNT
        d      == IF slides THEN INDEXSLIPL - l_pos[p] ELSE 0
        tail   == IF slides THEN INDEXSLIPL + INDEXMINR - 1 ELSE r_pos[p]
        kids   == IF slides THEN Kids(p, l_pos[p]..r_pos[p]) ELSE {}
        first  == kid[s][l_pos[s]]
    IN  /\ l_pos' = [l_pos EXCEPT ![p] = @ + d, ![s] = @ + 1]
        /\ r_pos' = [r_pos EXCEPT ![p] = tail + 1]
        /\ key' = [key EXCEPT
              ![p] = [j \in (l_pos[p] + d)..tail |-> IF j < tail THEN key[p][j - d] ELSE key[q][h]],
              ![q] = [@ EXCEPT ![h] = key[s][l_pos[s]]],
              ![s] = Moved(@, (l_pos[s] + 1)..(r_pos[s] - 1), 0)]
        /\ kid' = [kid EXCEPT
              ![p] = [j \in (l_pos[p] + d)..(tail + 1) |-> IF j <= tail THEN kid[p][j - d] ELSE first],
              ![s] = Moved(@, (l_pos[s] + 1)..r_pos[s], 0)]
        /\ parent_index' = [x \in Page |-> IF x = first THEN p ELSE parent_index[x]]
        /\ parent_pos' = [x \in Page |->
              IF x = first THEN tail + 1
              ELSE IF x \in kids THEN PosOf(p, x) + d ELSE parent_pos[x]]
        /\ dirty' = dirty \cup {q, s} \cup kids \cup ({first} \ {0})
        /\ job' = Idle
        /\ UNCHANGED <<pages, answer>>

\* p borrows from its left sibling s, across the key of q at position h.
BorrowLeft(p, q, h, s) ==
    LET slides == l_pos[p] = 0
        d      == IF slides THEN INDEXSLIPR ELSE 0
        first  == IF slides THEN INDEXSLIPR - 1 ELSE l_pos[p] - 1
        tail   == IF slides THEN INDEXSLIPR + INDEXMINR - 1 ELSE r_pos[p]
        kids   == IF slides THEN Kids(p, l_pos[p]..r_pos[p]) ELSE {}
        last   == kid[s][r_pos[s]]
    IN  /\ l_pos' = [l_pos EXCEPT ![p] = first]
        /\ r_pos' = [r_pos EXCEPT ![p] = tail, ![s] = @ - 1]
        /\ key' = [key EXCEPT
              ![p] = [j \in first..(tail - 1) |-> IF j = first THEN key[q][h] ELSE key[p][j - d]],
              ![q] = [@ EXCEPT ![h] = key[s][r_pos[s] - 1]],
              ![s] = Moved(@, l_pos[s]..(r_pos[s] - 2), 0)]
        /\ kid' = [kid EXCEPT
              ![p] = [j \in first..tail |-> IF j = first THEN last ELSE kid[p][j - d]],
              ![s] = Moved(@, l_pos[s]..(r_pos[s] - 1), 0)]
        /\ parent_index' = [x \in Page |-> IF x = last THEN p ELSE parent_index[x]]
        /\ parent_pos' = [x \in Page |->
              IF x = last THEN first
              ELSE IF x \in kids THEN parent_pos[x] + INDEXSLIPR ELSE parent_pos[x]]
        /\ dirty' = dirty \cup {q, s} \cup kids \cup ({last} \ {0})
        /\ job' = Idle
        /\ UNCHANGED <<pages, answer>>

RShrink ==
    /\ job.do = "shrink"
    /\ LET p == job.page
           q == parent_index[p]
           h == parent_pos[p]
           s == kid[q][h + 1]
       IN  /\ r_pos[q] # h
           /\ \/ CanLend(s) /\ BorrowRight(p, q, h, s)
              \/ ~CanLend(s) /\ MergeSibling(p, q, h, s, {q, s})

LShrink ==
    /\ job.do = "shrink"
    /\ LET p == job.page
           q == parent_index[p]
           h == parent_pos[p] - 1
           s == kid[q][h]
       IN  /\ r_pos[q] = parent_pos[p]
           /\ \/ CanLend(s) /\ BorrowLeft(p, q, h, s)
              \/ ~CanLend(s) /\ MergeSibling(s, q, h, p, {q, s})

Call ==
    \/ FindKey \/ NothingToDo
    \/ InsertInitNode \/ InsertLeaf \/ AllocRootIndexPage \/ Split \/ InsertInternal
    \/ RemoveLeaf \/ FindRightMost \/ GoRightMost \/ RemoveInternal
    \/ RShrink \/ LShrink

Next == Call \/ \E k \in Key : Put(k) \/ Del(k)

Spec == Init /\ [][Next]_vars

-------------------------------------------------------------------------------
(* Properties *)

\* The pages of the index.
Free == {free[i] : i \in DOMAIN free}
Live == (1..max) \ Free

\* Keys and links lie in the array of their page.
TypeOK ==
    /\ root \in Page /\ max \in Page /\ free \in Seq(1..max)
    /\ dirty \subseteq Page
    /\ l_pos \in [Page -> 0..INDEXCOUNT] /\ r_pos \in [Page -> 0..INDEXCOUNT]
    /\ DOMAIN key = Page /\ DOMAIN kid = Page
    /\ \A p \in Page : /\ l_pos[p] <= r_pos[p]
                       /\ key[p] \in [l_pos[p]..(r_pos[p] - 1) -> Key]
                       /\ kid[p] \in [l_pos[p]..r_pos[p] -> 0..max]
    /\ parent_index \in [Page -> 0..max] /\ parent_pos \in [Page -> 0..INDEXCOUNT]
    /\ answer \in {<<>>} \cup (Key \X BOOLEAN)

\* The level of a page, seen from its first leaf; the bounds of the keys that
\* belong under a page, seen from above.
Level ==
    LET level[p \in Live] == IF Leaf(p) THEN 0 ELSE 1 + level[kid[p][l_pos[p]]]
    IN  level

Low ==
    LET low[p \in Live] ==
            IF parent_index[p] = 0 THEN 0
            ELSE IF parent_pos[p] = l_pos[parent_index[p]] THEN low[parent_index[p]]
            ELSE key[parent_index[p]][parent_pos[p] - 1]
    IN  low

High ==
    LET high[p \in Live] ==
            IF parent_index[p] = 0 THEN MaxKey + 1
            ELSE IF parent_pos[p] = r_pos[parent_index[p]] THEN high[parent_index[p]]
            ELSE key[parent_index[p]][parent_pos[p]]
    IN  high

\* Every page knows its parent and the position there of the link to it: a
\* split, a merge or a borrowed key that moved links moved what their pages
\* say of them (parent_pos is what find-the-parent, next() and every later
\* split or merge trust).
LinksGoBothWays ==
    \A p \in Live : ~Leaf(p) =>
        \A i \in l_pos[p]..r_pos[p] :
            kid[p][i] \in Live /\ parent_index[kid[p][i]] = p /\ parent_pos[kid[p][i]] = i

\* No page is full or, but for the root, has fewer than INDEXMINR keys, and
\* the leaves are on one level.
Balanced ==
    \A p \in Live : /\ size(p) < INDEXCOUNT
                    /\ p # root => size(p) >= INDEXMINR
                    /\ ~Leaf(p) => /\ size(p) > 0
                                   /\ \A i \in l_pos[p]..r_pos[p] : Level[kid[p][i]] = Level[p] - 1

\* The keys of a page are in order, and between the keys above it.
Ordered ==
    \A p \in Live : \A i \in l_pos[p]..(r_pos[p] - 1) :
        /\ Low[p] < key[p][i] /\ key[p][i] < High[p]
        /\ \A j \in l_pos[p]..(i - 1) : key[p][j] < key[p][i]

\* Whatever splits, merges, borrowed keys and shifted slots led to it, between
\* two operations the index is a B-tree in which the links lead both ways.
IsBTree == job = Idle => LinksGoBothWays /\ Balanced /\ Ordered

\* Between two operations a page is either in the tree, linked by a page of
\* the next level or as the root, or, once, on the free list: a merge or a root
\* that gives way to its only child loses no page and frees none twice.
NoPageLost ==
    /\ \A i, j \in DOMAIN free : free[i] = free[j] => i = j
    /\ root \in Live /\ parent_index[root] = 0
    /\ job = Idle =>
          \A p \in Live \ {root} :
              LET q == parent_index[p]
              IN  q \in Live /\ ~Leaf(q) /\ kid[q][parent_pos[p]] = p /\ Level[q] = Level[p] + 1

\* What a page holds that the checkpoint saves.
Content(p) == <<l_pos[p], r_pos[p], key[p], kid[p], parent_index[p], parent_pos[p]>>

\* What a step changes is marked.
MarksChanges == \A p \in Page : Content(p)' # Content(p) => p \in dirty'

\* A step marks dirty every page it changes, or an earlier step of the operation
\* has done so: a forgotten set_dirty shows only after a restart.
ChangesAreDirty == [][MarksChanges]_vars

\* The keys of the index, with the one on the way from a page to its parent.
Contents ==
    (UNION {{key[p][i] : i \in l_pos[p]..(r_pos[p] - 1)} : p \in Live})
        \cup (IF job.do = "insert_internal" THEN {job.key} ELSE {})

\* The index is the set of its keys: put and del do what KeySet says and
\* answer what it says, whichever page the key is in and goes through.
Index == INSTANCE KeySet WITH keys <- Contents
ImplementsKeySet == Index!Spec

===============================================================================
