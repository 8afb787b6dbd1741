----------------------------- MODULE BTreeSweeps ------------------------------
(***************************************************************************)
(* Pages that shift their slots to make room at an end are rare: a tree of *)
(* three levels has to lose or gain many keys on one side.  The behaviours *)
(* of this module are sweeps: they put all keys, in ascending or in        *)
(* descending order, and from then on put or delete neighbouring keys one  *)
(* after the other.  A sweep turns at most MaxTurns times, to any key of   *)
(* Pivot.                                                                  *)
(***************************************************************************)
EXTENDS BTree

CONSTANTS Pivot, MaxTurns

VARIABLES keys,    \* the keys put and not deleted since
          last,    \* the key of the last operation
          by,      \* 1 or -1: the sweep goes up or down
          turns,   \* turns taken
          built    \* all keys have been put

sweep == <<keys, last, by, turns, built>>

SweepInit ==
    /\ Init
    /\ keys = {} /\ turns = 0 /\ built = FALSE
    /\ \/ by = 1 /\ last = 0
       \/ by = -1 /\ last = MaxKey + 1

\* Key k is deleted if it is there and put if it is not.
Flip(k) ==
    /\ k \in Key
    /\ last' = k
    /\ \/ k \in keys /\ Del(k) /\ keys' = keys \ {k}
       \/ k \notin keys /\ Put(k) /\ keys' = keys \cup {k}

Build ==
    /\ ~built
    /\ Flip(last + by)
    /\ built' = (keys' = Key)
    /\ UNCHANGED <<by, turns>>

\* The next key, as long as it is there, or is not, like the last one was.
Onward ==
    /\ built
    /\ last \in keys <=> last + by \notin keys
    /\ Flip(last + by)
    /\ UNCHANGED <<by, turns, built>>

Turn ==
    /\ built /\ turns < MaxTurns
    /\ turns' = turns + 1
    /\ by' \in {1, -1}
    /\ \E k \in Pivot : Flip(k)
    /\ UNCHANGED built

SweepNext == Build \/ Onward \/ Turn \/ (Call /\ UNCHANGED sweep)

SweepSpec == SweepInit /\ [][SweepNext]_<<vars, sweep>>

\* The index is a B-tree that holds the keys it should: no link goes wrong and
\* no key is lost or left behind when an operation splits, merges or shifts
\* pages on every level.
SweepsKeepTheTree == job = Idle => IsBTree /\ Contents = keys
===============================================================================
