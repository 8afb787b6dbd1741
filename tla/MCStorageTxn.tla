----------------------------- MODULE MCStorageTxn -----------------------------
(* StorageTxn on small instances. *)
EXTENDS StorageTxn, TLC

Symmetry == Permutations(Thread) \cup Permutations(Val)
===============================================================================
