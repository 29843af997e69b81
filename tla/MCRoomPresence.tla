--------------------------- MODULE MCRoomPresence ---------------------------
(* RoomPresence for TLC. *)
EXTENDS RoomPresence, TLC

CONSTANTS t1, t2, s1, s2, r1, r2

OneTab == {t1}
TwoTabs == {t1, t2}
TwoSockets == {s1, s2}
OneRun == {r1}
TwoRuns == {r1, r2}
Symmetric == Permutations(Sockets) \cup Permutations(Runs)
=============================================================================
