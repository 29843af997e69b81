----------------------------- MODULE GameRounds -----------------------------
(***************************************************************************)
(* What a room promises to those in it: the rounds of a game come one      *)
(* after the other, none left out, none twice, and the game ends after the *)
(* last one; a round is played once everybody still in the room has        *)
(* reported ready for this round and as soon as they have, whoever comes   *)
(* and goes meanwhile.  The songs of a game are kept for some time only: a *)
(* game that is still on when they are lost ends with the round it is in.  *)
(* How rounds end, timers, failures and the data of a round are not part   *)
(* of it.                                                                  *)
(***************************************************************************)
EXTENDS Integers

CONSTANTS
  Players,  (* those who may be in the room *)
  Last      (* the index of the last round *)

VARIABLES
  status,
  round,    (* -1 when there is none *)
  members,
  ready,    (* those who have reported for this round *)
  lost      (* the songs of the game that is on are lost *)

gvars == <<status, round, members, ready, lost>>

Init ==
  /\ status = "WAITING" /\ round = -1 /\ ready = {} /\ lost = FALSE
  /\ members \in SUBSET Players /\ members # {}

(* Loading ends with the last report, or with the departure of the last    *)
(* one who had not reported.                                               *)
Begun == IF status = "LOADING" /\ members' \subseteq ready' THEN "PLAYING" ELSE status

Come(p) ==
  /\ status # "GONE" /\ p \notin members
  /\ members' = members \cup {p}
  /\ UNCHANGED <<status, round, ready, lost>>

Ready(p) ==
  /\ status = "LOADING"
  /\ ready' = ready \cup {p}
  /\ status' = Begun
  /\ UNCHANGED <<round, members, lost>>

(* A departure may end the round that is played. *)
Leave(p) ==
  /\ p \in members /\ members # {p}
  /\ members' = members \ {p}
  /\ ready' = ready \ {p}
  /\ status' = Begun \/ (status = "PLAYING" /\ status' = "ROUND_ENDED")
  /\ UNCHANGED <<round, lost>>

End ==
  /\ status = "PLAYING" /\ status' = "ROUND_ENDED"
  /\ UNCHANGED <<round, members, ready, lost>>

Load(n) ==
  /\ status' = "LOADING" /\ round' = n /\ ready' = {} /\ lost' = FALSE
  /\ UNCHANGED members

Start == status \in {"WAITING", "FINISHED"} /\ Load(0)
NextRound == status = "ROUND_ENDED" /\ round < Last /\ ~lost /\ Load(round + 1)

Finish ==
  /\ status = "ROUND_ENDED" /\ (round = Last \/ lost)
  /\ status' = "FINISHED" /\ round' = -1 /\ ready' = {} /\ lost' = FALSE
  /\ UNCHANGED members

Gone == status' = "GONE" /\ round' = -1 /\ members' = {} /\ ready' = {} /\ lost' = FALSE

Close(p) == members = {p} /\ Gone

(* Time takes the songs of a game before it takes the room. *)
LoseSongs ==
  /\ status \in {"LOADING", "PLAYING", "ROUND_ENDED"}
  /\ ~lost /\ lost' = TRUE
  /\ UNCHANGED <<status, round, members, ready>>

Lapse ==
  /\ status # "GONE"
  /\ status \in {"LOADING", "PLAYING"} => lost
  /\ Gone

Next ==
  \/ \E p \in Players : Come(p) \/ Ready(p) \/ Leave(p) \/ Close(p)
  \/ End \/ Start \/ NextRound \/ Finish \/ LoseSongs \/ Lapse

Spec == Init /\ [][Next]_gvars
=============================================================================
