-------------------------- MODULE MCTransferQueue --------------------------
(***************************************************************************)
(* TransferQueue on small instances.                                       *)
(***************************************************************************)
EXTENDS TransferQueue

Options(up, upPerUser, down, downPerUser, shortest, autoClear) ==
  [max |-> [d \in Directions |-> IF d = "up" THEN up ELSE down],
   perUser |-> [d \in Directions |-> IF d = "up" THEN upPerUser ELSE downPerUser],
   shortest |-> shortest, autoClear |-> autoClear]

OneEach == Options(1, 1, 1, 1, "off", "off")
OneOfAnybody == Options(1, 2, 1, 2, "off", "off")
Shortest == Options(1, 1, 1, 1, "on", "off")

OnlySessions == Permutations(Sessions)
=============================================================================
