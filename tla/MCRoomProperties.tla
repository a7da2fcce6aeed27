-------------------------- MODULE MCRoomProperties --------------------------
(* Instances of RoomProperties for TLC. *)
EXTENDS RoomProperties, TLC

CONSTANTS k1, v1, v2, w1, w2, w3

Keys1 == {k1}
Values2 == {v1, v2}
Writes3 == {w1, w2, w3}
Symmetry == Permutations(Values2) \cup Permutations(Writes3)
=============================================================================
