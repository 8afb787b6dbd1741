------------------------------- MODULE BTreeWalk ------------------------------
(***************************************************************************)
(* Walks over the index of a table (walk, next, left_most and              *)
(* great_equal_key, znet/common/db.h).  A walk delivers the records of the *)
(* slots one after the other, all or those from a key on, until the query  *)
(* that receives them has enough.  It holds the storage's lock, so that no *)
(* put or del runs before it ends.                                         *)
(*                                                                         *)
(* A step is a round of a loop that goes down or up one page, or the       *)
(* record of a slot; walk is the slot, or the page, where the walk is.     *)
(***************************************************************************)
EXTENDS BTree

VARIABLES walk,
          passed,  \* not in the code: the keys up to this one are done with
          begun    \* not in the code: a record was delivered

walkVars == <<walk, passed, begun>>

Rest == [do |-> "rest"]
End  == [do |-> "end"]     \* there is no next slot

At(p, i) == [do |-> "at", page |-> p, pos |-> i]

Start(w, n) ==
    /\ job = Idle /\ walk = Rest
    /\ walk' = w
    /\ passed' = n
    /\ begun' = FALSE
    /\ UNCHANGED vars

\* A walk over all records, and one from key k, which may be absent.
WalkAll     == Start([do |-> "left_most", page |-> root], 0)
WalkFrom(k) == Start([do |-> "great_equal_key", page |-> root, key |-> k], k - 1)

MutSlotOf(p, i) == IF i = r_pos[p] THEN End ELSE At(p, i)

\* Where a walk starts when the search for its key ends in leaf p.  Past the
\* last slot of a leaf that is not the root is not recognized as past the end.
SlotOf(p, i) == IF p = root /\ i = r_pos[root] THEN End ELSE At(p, i)

GreatEqualKey ==
    /\ walk.do = "great_equal_key"
    /\ LET p == walk.page
       IN  \E i \in l_pos[p]..r_pos[p] :
              /\ EndsAt(p, walk.key, i)
              /\ \/ /\ Found(p, walk.key, i)
                    /\ walk' = At(p, i)
                 \/ /\ ~Found(p, walk.key, i) /\ ~Leaf(p)
                    /\ walk' = [walk EXCEPT !.page = kid[p][i]]
                 \/ /\ ~Found(p, walk.key, i) /\ Leaf(p)
                    /\ walk' = SlotOf(p, i)
    /\ UNCHANGED <<vars, passed, begun>>

LeftMost ==
    /\ walk.do = "left_most"
    /\ LET p == walk.page
       IN  \/ /\ ~Leaf(p)
              /\ walk' = [walk EXCEPT !.page = kid[p][l_pos[p]]]
           \/ /\ Leaf(p)
              /\ walk' = IF size(p) > 0 THEN At(p, l_pos[p]) ELSE End
    /\ UNCHANGED <<vars, passed, begun>>

\* From slot i of page p on to the next one: down into the right child, or to
\* the slot beside it, or up.
GoOn(p, i) ==
    \/ /\ ~Leaf(p)
       /\ walk' = [do |-> "left_most", page |-> kid[p][i + 1]]
    \/ /\ Leaf(p) /\ i + 1 < r_pos[p]
       /\ walk' = At(p, i + 1)
    \/ /\ Leaf(p) /\ i + 1 >= r_pos[p]
       /\ walk' = [do |-> "climb", page |-> p]

\* The record of a slot is delivered.  That of a slot outside its page's keys is
\* a stale one: whatever was left there.
Deliver ==
    /\ walk.do = "at"
    /\ LET p == walk.page
           i == walk.pos
       IN  /\ passed' = IF i < r_pos[p] THEN key[p][i] ELSE passed
           /\ \/ walk' = Rest
              \/ GoOn(p, i)
    /\ begun' = TRUE
    /\ UNCHANGED vars

\* The loop of next(): up to a page with a slot to the right of the link.
Climb ==
    /\ walk.do = "climb"
    /\ LET p == walk.page
           q == parent_index[p]
       IN  \/ /\ q = 0
              /\ walk' = End
           \/ /\ q # 0 /\ parent_pos[p] < r_pos[q]
              /\ walk' = At(q, parent_pos[p])
           \/ /\ q # 0 /\ parent_pos[p] >= r_pos[q]
              /\ walk' = [walk EXCEPT !.page = q]
    /\ UNCHANGED <<vars, passed, begun>>

Ends ==
    /\ walk = End
    /\ walk' = Rest
    /\ UNCHANGED <<vars, passed, begun>>

WalkStep ==
    \/ WalkAll \/ \E k \in Key : WalkFrom(k)
    \/ GreatEqualKey \/ LeftMost \/ Deliver \/ Climb \/ Ends

WalkInit == Init /\ walk = Rest /\ passed = 0 /\ begun = FALSE

WalkNext ==
    \/ walk = Rest /\ Next /\ UNCHANGED walkVars
    \/ WalkStep

WalkSpec == WalkInit /\ [][WalkNext]_<<vars, walkVars>>

\* Key k is the next one after passed.
IsNext(k) == passed < k /\ \A x \in Contents : x <= passed \/ k <= x

\* A walk from any key, present or not, delivers the keys from there on, each
\* once and in order, climbing by the parent links, and ends when there are no
\* more: a walk that goes on from a key deleted in between misses nothing and,
\* but for one stale record before all others, delivers nothing else.
WalkMissesNothing ==
    /\ walk.do = "at" =>
          IF walk.pos < r_pos[walk.page] THEN IsNext(key[walk.page][walk.pos]) ELSE ~begun
    /\ walk = End => \A x \in Contents : x <= passed
===============================================================================
