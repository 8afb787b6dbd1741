----------------------------- MODULE MCFragments ------------------------------
(***************************************************************************)
(* Fragments for TLC: a page of 104 bytes holds three small records.  Two  *)
(* keys are short, of 4 and of 36 bytes; one fills a page with the lengths *)
(* before it.  A small value, one of half a page, and one that fills two   *)
(* pages; after a short key it leaves some bytes for a third.              *)
(***************************************************************************)
EXTENDS Fragments, SequencesExt

CONSTANTS k1, k2, long, small, half, pages

MCKeyLen == [k \in Key |-> IF k = long THEN 92 ELSE IF k = k2 THEN 36 ELSE 4]
MCValLen == [v \in Val |-> IF v = small THEN 4 ELSE IF v = half THEN 40 ELSE 175]

\* The blocks that are met on the way along the links from a, after those seen.
RECURSIVE Along(_, _)
Along(seen, a) ==
    IF a \notin DOMAIN blk \/ Contains(seen, a) THEN seen
    ELSE Along(Append(seen, a), blk[a].link)

\* The blocks, those of records first, in an order that does not depend on the
\* numbers of their pages.
Keys   == SetToSeq(Key)
Roots  == [i \in DOMAIN Keys |-> index[Keys[i]]]
       \o (IF "at" \in DOMAIN job THEN <<job.at>> ELSE <<>>)
       \o (IF "rest" \in DOMAIN job THEN <<job.rest>> ELSE <<>>)
       \o [i \in 1..Cardinality(Classes) |-> frag[i - 1]]
Blocks == FoldLeft(Along, <<>>, Roots)

\* Tables that differ only in the numbers of their pages are one state.
View ==
    LET order    == Blocks
        PageOf(i)  == SelectInSeq(order, LAMBDA x : x[1] = order[i][1])
        BlockAt(a) == IF a = Null THEN -1 ELSE SelectInSeq(order, LAMBDA x : x = a)
    IN  <<[i \in DOMAIN order |->
              <<PageOf(i), order[i][2],
                [blk[order[i]] EXCEPT !.link = BlockAt(@),
                                      !.prev = IF blk[order[i]].size > 0 THEN 0 ELSE BlockAt(@)]>>],
          [i \in DOMAIN Roots |-> BlockAt(Roots[i])],
          job.do, IF job = Idle THEN <<>> ELSE <<job.key>>,
          IF "left" \in DOMAIN job THEN job.left ELSE 0,
          put, max - Len(free), Cardinality(DOMAIN blk)>>
===============================================================================
