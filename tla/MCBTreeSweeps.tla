----------------------------- MODULE MCBTreeSweeps ----------------------------
(* BTreeSweeps for TLC.                                                     *)
EXTENDS BTreeSweeps, MCBTree

SweepView == <<View, sweep>>
===============================================================================
