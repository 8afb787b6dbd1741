------------------------------- MODULE MCBTree --------------------------------
(***************************************************************************)
(* BTree for TLC.  Which numbers its pages have does not matter: trees     *)
(* that differ only in them are one state (VIEW).                          *)
(***************************************************************************)
EXTENDS BTree, TLC

\* What job says of page p.
Role(p) ==
    {f \in DOMAIN job \cap {"page", "parent", "leaf", "l_child", "r_child"} : job[f] = p}

\* The subtree of p without the numbers of its pages.
RECURSIVE Shape(_, _)
Shape(p, q) ==
    [l_pos |-> l_pos[p], key |-> key[p], parent |-> parent_index[p] = q,
     pos |-> parent_pos[p], dirty |-> p \in dirty, role |-> Role(p),
     kid |-> IF Leaf(p) THEN <<>> ELSE [i \in DOMAIN kid[p] |-> Shape(kid[p][i], p)]]

Shapes == {Shape(p, 0) : p \in {root} \cup
                              {job[f] : f \in DOMAIN job \cap {"page", "l_child", "r_child"}}}

View == <<Shapes, max - Len(free),
          [f \in DOMAIN job \ {"page", "parent", "leaf", "l_child", "r_child"} |-> job[f]]>>
===============================================================================
