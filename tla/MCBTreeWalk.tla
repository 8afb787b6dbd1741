----------------------------- MODULE MCBTreeWalk ------------------------------
(***************************************************************************)
(* BTreeWalk for TLC.  No two pages hold the same key: the first one tells *)
(* in which page a walk is, whatever the number of the page.  A walk takes *)
(* no notice of which pages are dirty.                                     *)
(***************************************************************************)
EXTENDS BTreeWalk, MCBTree

Mark(p) == IF size(p) = 0 THEN 0 ELSE key[p][l_pos[p]]

RECURSIVE Tree(_)
Tree(p) == [l_pos |-> l_pos[p], key |-> key[p],
            kid |-> IF Leaf(p) THEN <<>> ELSE [i \in DOMAIN kid[p] |-> Tree(kid[p][i])]]

WalkView ==
    IF walk = Rest THEN View
    ELSE <<Tree(root), max - Len(free), passed, begun,
           IF "page" \in DOMAIN walk THEN [walk EXCEPT !.page = Mark(@)] ELSE walk>>
===============================================================================
