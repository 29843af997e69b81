---------------------------- MODULE SerialStore ----------------------------
(***************************************************************************)
(* What RoomLockService and RoomFencedStateStore promise together to the   *)
(* room services: withLock(room, task) is a serial read-modify-write of    *)
(* the room record.  Every call is a member of Calls and the record is     *)
(* represented by the set of the calls whose update it incorporates, so a  *)
(* lost update is a call that disappears from it.                          *)
(*                                                                         *)
(*  - the update of a call is applied atomically, on top of everything     *)
(*    applied before it, and at most once;                                 *)
(*  - a caller told "ok" has its update in the record;                     *)
(*  - a caller told "error" (or never told, its process died) knows        *)
(*    nothing: the update may be absent, present, or still to come.        *)
(***************************************************************************)
CONSTANT Calls

VARIABLES
  store,    (* the calls whose update the record incorporates *)
  result    (* what the caller of withLock was told *)

svars == <<store, result>>

Results == {"none", "ok", "error"}

Init ==
  /\ store = {}
  /\ result = [c \in Calls |-> "none"]

Apply(c) ==
  /\ c \notin store
  /\ result[c] # "ok"
  /\ store' = store \cup {c}
  /\ UNCHANGED result

Return(c, r) ==
  /\ result[c] = "none"
  /\ r = "ok" => c \in store
  /\ result' = [result EXCEPT ![c] = r]
  /\ UNCHANGED store

Next == \E c \in Calls : Apply(c) \/ \E r \in {"ok", "error"} : Return(c, r)

Spec == Init /\ [][Next]_svars
=============================================================================
