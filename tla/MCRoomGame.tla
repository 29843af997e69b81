----------------------------- MODULE MCRoomGame -----------------------------
(* RoomGame for TLC: one or two users, one or two handlers at a time. *)
EXTENDS RoomGame, TLC

CONSTANTS a, b, r1, r2

OneUser == {a}
TwoUsers == {a, b}
OneRun == {r1}
TwoRuns == {r1, r2}

(* Users are alike: for safety only. *)
Alike == Permutations(TwoUsers)
=============================================================================
