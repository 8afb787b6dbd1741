---------------------------- MODULE MCGlobalLogger ----------------------------
(* GlobalLogger on small instances. *)
EXTENDS GlobalLogger, TLC

CONSTANT MaxLateWrites  \* bound: pages changed while a checkpoint is in progress

Symmetry == Permutations(Val)

\* All pages hold the same contents at first; writes tell them apart.
MCInit == Init /\ \E v \in Val : data = [t \in Table |-> [p \in PageSet |-> v]]

\* Writes after the snapshot matter for not reaching the checkpoint: a few do.
LateWrites ==
    IF pc \in {"down", "run"} THEN {}
    ELSE {tp \in Table \X PageSet : ~redoing /\ tp[2] \in dirty[tp[1]]}
MCNext == Next /\ Cardinality(LateWrites') <= MaxLateWrites

MCSpec == MCInit /\ [][MCNext]_vars
MCFairSpec == MCSpec /\ Fairness
===============================================================================
