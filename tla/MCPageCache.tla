----------------------------- MODULE MCPageCache ------------------------------
(***************************************************************************)
(* PageCache for TLC.  The history of uses is kept of cached pages only:   *)
(* the others come last when they are loaded again.                        *)
(***************************************************************************)
EXTENDS PageCache, TLC

Symmetry == Permutations(Page) \cup Permutations(Value)

View == <<layout, dirty, [p \in cached |-> after[p] \cap cached], lru_of, lru, copy, saved,
          deleted, data, pc, hdr, latest, torn>>
===============================================================================
