-------------------------------- MODULE KeySet --------------------------------
(***************************************************************************)
(* What the index of a table promises (class DB, znet/common/db.h): it is  *)
(* the set of the keys that were put and not deleted since, and put and    *)
(* del answer whether the key was there.                                   *)
(***************************************************************************)
CONSTANT Key
VARIABLES keys, answer

vars == <<keys, answer>>

Init == keys = {} /\ answer = <<>>

Put(k) == keys' = keys \cup {k} /\ answer' = <<k, k \in keys>>
Del(k) == keys' = keys \ {k} /\ answer' = <<k, k \in keys>>

Next == \E k \in Key : Put(k) \/ Del(k)

Spec == Init /\ [][Next]_vars
===============================================================================
