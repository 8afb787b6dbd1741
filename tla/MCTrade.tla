------------------------------- MODULE MCTrade -------------------------------
(* Trade on small instances. *)
EXTENDS Trade, TLC

CONSTANTS a, b, g
MCPairs == {<<a, b>>}
MCOwner == g :> a

Within == doubt => lastTid <= 1
=============================================================================
