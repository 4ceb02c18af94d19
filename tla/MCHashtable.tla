----------------------------- MODULE MCHashtable -----------------------------
(***************************************************************************)
(* Hashtable on small instances: hash codes that collide before and after  *)
(* the table has grown, one of them the reserved code; a key whose value   *)
(* becomes less and greater than that of the two others.                   *)
(***************************************************************************)
EXTENDS Hashtable

Colliding == [k \in Keys |-> CASE k = 1 -> 7 [] k = 2 -> 3 [] k = 3 -> 1]
AmongEquals == [k \in Keys |-> IF k = 1 THEN {1, 3} ELSE {2}]
=============================================================================
