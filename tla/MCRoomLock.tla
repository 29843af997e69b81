----------------------------- MODULE MCRoomLock -----------------------------
(* RoomLock for TLC.  A tick stands for 4 s: a TTL of 8 s and renewals       *)
(* after 4 s.  The contention budget is a tick, less than the 12 s of the   *)
(* code: a call may begin at any time, so it still meets every expiry.      *)
EXTENDS RoomLock, TLC

CONSTANTS c1, c2

TwoCalls == {c1, c2}
Symmetric == Permutations(Calls)
=============================================================================
