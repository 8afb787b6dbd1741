---------------------------- MODULE MCUniqueNames ----------------------------
(* UniqueNames on small instances. *)
EXTENDS UniqueNames, TLC

Symmetry == Permutations(Zone) \cup Permutations(Name) \cup Permutations(Creation)
=============================================================================
