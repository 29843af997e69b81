--------------------------- MODULE RoomDirectory ---------------------------
(***************************************************************************)
(* What the room list promises its readers: a room whose creation was      *)
(* reported, and that lives, is on the list; entries come and go one by    *)
(* one, and only a room that is not open can lose its own.  An entry       *)
(* without a room is allowed: the reader skips it.                         *)
(***************************************************************************)
CONSTANT Rooms

VARIABLES
  open,   (* rooms whose creator was answered and that live *)
  list    (* the entries of the list *)

dvars == <<open, list>>

Init == open = {} /\ list = {}

Enlist(r) == list' = list \cup {r} /\ UNCHANGED open
Delist(r) == r \notin open /\ list' = list \ {r} /\ UNCHANGED open
Open(r) == open' = open \cup {r} /\ list' = list \cup {r}
Close(r) == open' = open \ {r} /\ UNCHANGED list

Next == \E r \in Rooms : Enlist(r) \/ Delist(r) \/ Open(r) \/ Close(r)

Spec == Init /\ [][Next]_dvars
=============================================================================
