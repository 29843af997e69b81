---------------------------- MODULE MCRoomIndex ----------------------------
(* RoomIndex for TLC. *)
EXTENDS RoomIndex, TLC

CONSTANTS a, b, w1, w2, w3

OneRoom == {a}
TwoRooms == {a, b}
TwoWorkers == {w1, w2}
ThreeWorkers == {w1, w2, w3}
Symmetric == Permutations(Rooms) \cup Permutations(Workers)
=============================================================================
