------------------------------ MODULE RoomGame ------------------------------
(***************************************************************************)
(* One room of the game server: its record, the round data stored beside   *)
(* it and the three game timers.  apps/game/src/room/room.service.ts,      *)
(* room-round.service.ts, room-timer.service.ts, room.repository.ts.       *)
(*                                                                         *)
(* Every operation runs under the room lock and its writes are fenced, so  *)
(* an operation is one step on the record (module RoomLock and the theorem *)
(* Serializable say when that is right).  It is not one step on Redis: it  *)
(* writes round data and arms timers before it saves the record, and any   *)
(* of these commands may fail or take effect without its caller hearing of *)
(* it.  Each operation therefore ends in one of several fates, a prefix of *)
(* its commands.  A crash is one of these prefixes too.                    *)
(*                                                                         *)
(* Timers are members of one ZSET, polled by every instance: a claim moves *)
(* the score into the future (a reservation), a handler that succeeds      *)
(* deletes the member if its score is still the reservation, a handler     *)
(* that fails leaves it, to be claimed again.  Delays are left out: a      *)
(* timer that is set may fire, and a key may expire whenever its TTL, set  *)
(* when it was last written, may have passed.  So are nicknames, passwords,*)
(* answers as texts and points.  A round is its index; -1 is               *)
(* `currentRound: null`.                                                   *)
(***************************************************************************)
EXTENDS Integers, FiniteSets

CONSTANTS
  Users,     (* those who may be in the room *)
  MaxUsers,  (* maxUserCnt *)
  Rounds,    (* songOrder.length: min of songLimit and the songs of the quiz *)
  Runs,      (* the handler invocations that may be in progress at once *)
  NoRun,     (* no reservation *)
  History    (* whether timers record the round they were armed for *)

ASSUME UsersAssumption == IsFiniteSet(Users) /\ MaxUsers \in Nat \ {0}
ASSUME RoundsAssumption == Rounds \in Nat \ {0}
ASSUME RunsAssumption == NoRun \notin Runs /\ History \in BOOLEAN

Kinds == {"round-timeout", "speed-reveal", "speed-next"}
RoundIds == -1 .. Rounds - 1
Statuses == {"WAITING", "LOADING", "PLAYING", "ROUND_ENDED", "FINISHED", "GONE"}

VARIABLES
  room,     (* the record room:<id>; status GONE when there is none *)
  keys,     (* song order (with the rounds snapshot), answers and reveal *)
  entered,  (* users whose socket entered the room: requests of theirs may arrive *)
  timer,    (* the members of room:timers for this room *)
  runs      (* the handler invocations in progress *)

vars == <<room, keys, entered, timer, runs>>

Record == [status : Statuses, members : SUBSET Users, host : Users,
           speed : BOOLEAN, round : RoundIds, ready : SUBSET Users,
           correct : SUBSET Users, skip : SUBSET Users, shown : RoundIds]

(* `round` in a timer or a run is the round it was armed for, or -1 without *)
(* History: the member `kind|roomId` does not carry it and no guard reads it.*)
Timer == [set : BOOLEAN, by : Runs \cup {NoRun}, round : RoundIds]
Unset == [set |-> FALSE, by |-> NoRun, round |-> -1]
Run == [stage : {"idle", "fired", "ok", "missed"}, kind : Kinds, round : RoundIds]
Idle == [stage |-> "idle", kind |-> "round-timeout", round |-> -1]

(* The song order is written when a game starts and never again: it may    *)
(* have expired before the game is over.                                   *)
Orders == {"none", "stored", "expired"}
Keys == [order : Orders, answers : RoundIds, reveal : RoundIds]
NoKeys == [order |-> "none", answers |-> -1, reveal |-> -1]

(* createRoom: the host alone in a room that waits. *)
Init ==
  /\ \E creator \in Users :
       room \in [status : {"WAITING"}, members : {{creator}}, host : {creator},
                speed : BOOLEAN, round : {-1}, ready : {{}}, correct : {{}},
                skip : {{}}, shown : {-1}]
  /\ keys = NoKeys
  /\ entered = {}
  /\ timer = [k \in Kinds |-> Unset]
  /\ runs = [i \in Runs |-> Idle]

-----------------------------------------------------------------------------
(* How far an operation got that did something: its timers were armed; the *)
(* record was also saved, but it failed or was not heard of; it succeeded. *)
Fates == {"armed", "saved", "done"}

ArmedFor(r) == [set |-> TRUE, by |-> NoRun, round |-> IF History THEN r.round ELSE -1]
Armed(arm, r) == [k \in Kinds |-> IF k \in arm THEN ArmedFor(r) ELSE timer[k]]
Without(ts, gone) == [k \in Kinds |-> IF k \in gone THEN Unset ELSE ts[k]]

(* Mutant of Save: the stale timers are cancelled before the record is saved. *)
SaveAfterCancel(r, arm, stale, fate) ==
  /\ room' = IF fate = "armed" THEN room ELSE r
  /\ \E gone \in SUBSET stale : timer' = Without(Armed(arm, r), gone)

(* The end of an operation that makes the record r: arm timers, save, then *)
(* cancel the stale timers, each on a best effort and only once the save   *)
(* is known to have succeeded.                                             *)
Save(r, arm, stale, fate) ==
  /\ room' = IF fate = "armed" THEN room ELSE r
  /\ \E gone \in SUBSET (IF fate = "done" THEN stale ELSE {}) :
       timer' = Without(Armed(arm, r), gone)

(* saveRoom alone: it takes effect or nothing happens. *)
SaveOnly(r) == room' = r /\ UNCHANGED timer

RestUnchanged == UNCHANGED <<keys, entered, runs>>

AllIn(r, S) == r.members \subseteq S

(* hasSkipMajority *)
SkipMajority(r) == Cardinality(r.skip) >= Cardinality(r.members) \div 2 + 1

(* What a read of the reveal may find.  It was written after the song      *)
(* order, with the same TTL: once that has passed, this one may have too.  *)
(* Answers that have expired are not found either: nothing is recognised   *)
(* as an answer, and SubmitAnswer does not happen.                         *)
Reveals == {keys.reveal} \cup (IF keys.order = "expired" THEN {-1} ELSE {})

(* finalizeRoundEnd, whatever ended the round. *)
Revealed(r, reveal) == [r EXCEPT !.status = "ROUND_ENDED", !.shown = reveal]
AutoNext(r) == IF r.speed THEN {"speed-next"} ELSE {}
StaleTimers(r) == {"round-timeout"} \cup (IF r.speed THEN {"speed-reveal"} ELSE {})

EndRound(r, fate) ==
  \E reveal \in Reveals : Save(Revealed(r, reveal), AutoNext(r), StaleTimers(r), fate)

(* recomputeReadyStatus and beginRound *)
BeginIfReady(r, fate) ==
  IF r.status = "LOADING" /\ AllIn(r, r.ready)
    THEN Save([r EXCEPT !.status = "PLAYING"], {"round-timeout"}, {}, fate)
    ELSE fate = "done" /\ SaveOnly(r)

-----------------------------------------------------------------------------
(* Participants                                                            *)

JoinRoom(u) ==
  /\ room.status # "GONE"
  /\ u \notin room.members
  /\ Cardinality(room.members) < MaxUsers
  /\ SaveOnly([room EXCEPT !.members = @ \cup {u}])
  /\ RestUnchanged

(* room:enter: the socket of a participant.  A socket may outlive the       *)
(* participation (REST leaves do not touch it), and a request the socket.   *)
Enter(u) ==
  /\ u \in room.members \ entered
  /\ entered' = entered \cup {u}
  /\ UNCHANGED <<room, keys, timer, runs>>

(* The record of those who stay.  The first of participants becomes host:  *)
(* the order of joining is left out, so it may be any of them.             *)
(* Mutant of Remaining: the host keeps the room. *)
RemainingOfHost(u) ==
  {[room EXCEPT !.members = @ \ {u}, !.ready = @ \ {u},
                !.correct = @ \ {u}, !.skip = @ \ {u}]}
Remaining(u) ==
  {[room EXCEPT !.members = @ \ {u}, !.host = h, !.ready = @ \ {u},
                !.correct = @ \ {u}, !.skip = @ \ {u}] :
     h \in IF room.host = u THEN room.members \ {u} ELSE {room.host}}

(* Mutant of Reassess: who is left is not looked at again. *)
ReassessNothing(r, fate) == fate = "done" /\ SaveOnly(r)

(* The round may have been waiting for the one who left. *)
Reassess(r, fate) ==
  IF r.status = "PLAYING" /\ (AllIn(r, r.correct) \/ SkipMajority(r))
    THEN EndRound(r, fate)
    ELSE BeginIfReady(r, fate)

LeaveRoom(u) ==
  /\ u \in room.members
  /\ room.members # {u}
  /\ \E r \in Remaining(u), fate \in Fates : Reassess(r, fate)
  /\ RestUnchanged

(* Without a record nothing else of the room is read: what remains of the  *)
(* timers fires into the void, what remains of the keys expires.           *)
NoRoom ==
  /\ room' = [room EXCEPT !.status = "GONE", !.members = {}, !.speed = FALSE, !.round = -1,
                          !.ready = {}, !.correct = {}, !.skip = {}, !.shown = -1]
  /\ keys' = NoKeys

(* The last one leaves: deleteRoom.  The record goes first. *)
DeleteRoom(u) ==
  /\ room.members = {u}
  /\ NoRoom
  /\ \E gone \in SUBSET Kinds : timer' = Without(timer, gone)
  /\ UNCHANGED <<entered, runs>>

(* updateRoom, as far as the game sees it. *)
UpdateRoom ==
  /\ room.status \in {"WAITING", "FINISHED"}
  /\ \E speed \in BOOLEAN : SaveOnly([room EXCEPT !.speed = speed])
  /\ RestUnchanged

-----------------------------------------------------------------------------
(* Rounds                                                                  *)

Loading(r, n) ==
  [r EXCEPT !.status = "LOADING", !.round = n, !.ready = {}, !.correct = {},
            !.skip = {}, !.shown = -1]

(* Mutant of Prepared: the record is saved before the round data. *)
PreparedLast(r, n, writes) ==
  /\ keys' = [keys EXCEPT !.order = "stored",
                          !.answers = IF writes > 1 THEN n ELSE @,
                          !.reveal = IF writes > 2 THEN n ELSE @]
  /\ room' = IF writes > 0 THEN Loading(r, n) ELSE room

(* prepareRoundData and saveRoom: the answers, the reveal and the record   *)
(* are written in this order; so many writes took effect.                  *)
Prepared(r, n, writes) ==
  /\ keys' = [keys EXCEPT !.order = "stored",
                          !.answers = IF writes > 0 THEN n ELSE @,
                          !.reveal = IF writes > 1 THEN n ELSE @]
  /\ room' = IF writes > 2 THEN Loading(r, n) ELSE room

(* startGame and restartGame: prepareFirstRound.  The order and the        *)
(* snapshot of the rounds are written before the rest.                     *)
StartGame ==
  /\ room.status \in {"WAITING", "FINISHED"}
  /\ \E writes \in 0..3 : Prepared(room, 0, writes)
  /\ UNCHANGED <<entered, timer, runs>>

(* The end of the game: the round data are deleted all at once, then the   *)
(* record is saved if every deletion succeeded.  If not, it matters whether*)
(* the song order is gone: no one reads the answers and the reveal of a    *)
(* round that has ended.                                                   *)
GameOver(done) ==
  \/ /\ keys' = NoKeys
     /\ room' = [Loading(room, -1) EXCEPT !.status = "FINISHED"]
  \/ /\ ~done /\ UNCHANGED room
     /\ \/ UNCHANGED keys
        \/ keys.order = "stored" /\ keys' = [keys EXCEPT !.order = "none"]

(* Mutants of MoreRounds: off by one, in either direction. *)
MoreButLast == keys.order = "stored" /\ room.round + 2 < Rounds
MoreThanAll == keys.order = "stored" /\ room.round < Rounds

(* nextIndex < songOrder.length; a song order that is missing reads as [], *)
(* whether it was deleted or has expired.                                  *)
MoreRounds == keys.order = "stored" /\ room.round + 1 < Rounds

(* advanceToNextRound and saveRoom *)
Advance(done) ==
  \/ /\ MoreRounds
     /\ \E writes \in IF done THEN {3} ELSE 0..3 : Prepared(room, room.round + 1, writes)
  \/ /\ ~MoreRounds
     /\ GameOver(done)

(* nextRound: the speed timers are cancelled first of all. *)
NextRound ==
  /\ room.status = "ROUND_ENDED"
  /\ \E gone \in SUBSET {k \in {"speed-reveal", "speed-next"} : timer[k].set} :
       timer' = Without(timer, gone)
  /\ \E done \in BOOLEAN : Advance(done)
  /\ UNCHANGED <<entered, runs>>

MarkReady(u) ==
  /\ u \in entered
  /\ room.status = "LOADING"
  /\ \E fate \in Fates : BeginIfReady([room EXCEPT !.ready = @ \cup {u}], fate)
  /\ RestUnchanged

(* submitChatMessage with an answer of the round, for the first time.  What *)
(* else is said changes nothing here.                                       *)
SubmitAnswer(u) ==
  LET r == [room EXCEPT !.correct = @ \cup {u}] IN
  /\ u \in entered
  /\ room.status = "PLAYING"
  /\ u \notin room.correct
  /\ keys.answers # -1
  /\ \/ /\ AllIn(r, r.correct)
        /\ \E fate \in Fates : EndRound(r, fate)
     \/ /\ ~AllIn(r, r.correct)
        /\ r.speed /\ Cardinality(r.correct) = 1
        /\ \E fate \in {"armed", "done"} : Save(r, {"speed-reveal"}, {}, fate)
     \/ /\ ~AllIn(r, r.correct)
        /\ ~(r.speed /\ Cardinality(r.correct) = 1)
        /\ SaveOnly(r)
  /\ RestUnchanged

RequestSkip(u) ==
  LET r == [room EXCEPT !.skip = @ \cup {u}] IN
  /\ u \in entered
  /\ room.status = "PLAYING"
  /\ \/ /\ SkipMajority(r)
        /\ \E fate \in Fates : EndRound(r, fate)
     \/ /\ ~SkipMajority(r)
        /\ SaveOnly(r)
  /\ RestUnchanged

(* The host's: the time limit becomes a few seconds. *)
ForceSkip ==
  /\ room.status = "PLAYING"
  /\ Save(room, {"round-timeout"}, {}, "done")
  /\ RestUnchanged

-----------------------------------------------------------------------------
(* Expiry.  The song order lives six hours from the start of the game.     *)
(* Whoever plays, joins or leaves writes the record and prolongs it, never *)
(* the song order.                                                         *)

OrderExpires ==
  /\ keys.order = "stored"
  /\ room.status \in {"LOADING", "PLAYING", "ROUND_ENDED"}
  /\ keys' = [keys EXCEPT !.order = "expired"]
  /\ UNCHANGED <<room, entered, timer, runs>>

(* The record was written after the song order of its game, with the same  *)
(* TTL, so it expires later.                                               *)
RoomExpires ==
  /\ room.status # "GONE"
  /\ keys.order = "stored" => room.status \in {"WAITING", "FINISHED"}
  /\ NoRoom
  /\ UNCHANGED <<entered, timer, runs>>

-----------------------------------------------------------------------------
(* Timers                                                                  *)

(* Mutant of Claim: a reservation is never taken over. *)
ClaimOnce(k, i) ==
  /\ timer[k].set /\ timer[k].by = NoRun
  /\ runs[i].stage = "idle"
  /\ timer' = [timer EXCEPT ![k].by = i]
  /\ runs' = [runs EXCEPT ![i] = [stage |-> "fired", kind |-> k, round |-> timer[k].round]]
  /\ UNCHANGED <<room, keys, entered>>

(* CLAIM_SCRIPT: a timer that is due, or whose reservation has passed. *)
Claim(k, i) ==
  /\ timer[k].set
  /\ runs[i].stage = "idle"
  /\ timer' = [timer EXCEPT ![k].by = i]
  /\ runs' = [runs EXCEPT ![i] = [stage |-> "fired", kind |-> k, round |-> timer[k].round]]
  /\ UNCHANGED <<room, keys, entered>>

Ends(i, s) == runs' = [runs EXCEPT ![i].stage = s]
Dies(i) == runs' = [runs EXCEPT ![i] = Idle]

(* handleRoundTimeout and handleSpeedModeReveal act on a room that plays,  *)
(* handleAutoNextRound on a room whose round has ended.                    *)
Awaits(k) == IF k = "speed-next" THEN "ROUND_ENDED" ELSE "PLAYING"

HandleRoundEnd(i) ==
  /\ runs[i].stage = "fired"
  /\ runs[i].kind # "speed-next"
  /\ room.status = "PLAYING"
  /\ \/ EndRound(room, "done") /\ Ends(i, "ok")
     \/ \E fate \in {"armed", "saved"} : EndRound(room, fate) /\ Dies(i)
  /\ UNCHANGED <<keys, entered>>

HandleAutoNext(i) ==
  /\ runs[i].stage = "fired"
  /\ runs[i].kind = "speed-next"
  /\ room.status = "ROUND_ENDED"
  /\ \/ Advance(TRUE) /\ Ends(i, "ok")
     \/ Advance(FALSE) /\ Dies(i)
  /\ UNCHANGED <<entered, timer>>

HandlerNoOp(i) ==
  /\ runs[i].stage = "fired"
  /\ room.status # Awaits(runs[i].kind)
  /\ Ends(i, "ok")
  /\ UNCHANGED <<room, keys, entered, timer>>

(* getRoomRecord reads with a local fallback: an unreachable Redis looks   *)
(* like a room that does not exist, and the handler succeeds.              *)
HandlerMisses(i) ==
  /\ runs[i].stage = "fired"
  /\ room.status # "GONE"
  /\ Ends(i, "missed")
  /\ UNCHANGED <<room, keys, entered, timer>>

(* No lock in time, a crash, an error before any effect. *)
HandlerFails(i) ==
  /\ runs[i].stage = "fired"
  /\ Dies(i)
  /\ UNCHANGED <<room, keys, entered, timer>>

(* Mutant of DeleteReserved: the member goes, whatever its score is now. *)
DeleteAnyway(i) == timer' = [timer EXCEPT ![runs[i].kind] = Unset]

(* DELETE_IF_RESERVED_SCRIPT *)
DeleteReserved(i) ==
  timer' = IF timer[runs[i].kind].by = i
             THEN [timer EXCEPT ![runs[i].kind] = Unset] ELSE timer

(* fireClaimed after the handler succeeded; the deletion itself may fail. *)
Settle(i) ==
  /\ runs[i].stage \in {"ok", "missed"}
  /\ DeleteReserved(i) \/ UNCHANGED timer
  /\ Dies(i)
  /\ UNCHANGED <<room, keys, entered>>

Handle(i) ==
  \/ HandleRoundEnd(i) \/ HandleAutoNext(i) \/ HandlerNoOp(i)
  \/ HandlerMisses(i) \/ HandlerFails(i)

Next ==
  \/ \E u \in Users : JoinRoom(u) \/ LeaveRoom(u) \/ DeleteRoom(u) \/ Enter(u)
  \/ \E u \in Users : MarkReady(u) \/ SubmitAnswer(u) \/ RequestSkip(u)
  \/ UpdateRoom \/ StartGame \/ NextRound \/ ForceSkip
  \/ OrderExpires \/ RoomExpires
  \/ \E k \in Kinds, i \in Runs : Claim(k, i)
  \/ \E i \in Runs : Handle(i) \/ Settle(i)

Spec == Init /\ [][Next]_vars

(* Redis answers again and again: an expired timer is claimed, and one of  *)
(* its handlers gets through.  Nothing is assumed of the users.            *)
GotThrough(i) == HandleRoundEnd(i) /\ runs'[i].stage = "ok"

Fairness ==
  /\ SF_vars(\E i \in Runs : Claim("round-timeout", i))
  /\ SF_vars(\E i \in Runs : runs[i].kind = "round-timeout" /\ GotThrough(i))
  /\ \A i \in Runs : WF_vars(Handle(i) \/ Settle(i))

FairSpec == Spec /\ Fairness

-----------------------------------------------------------------------------
TypeOK ==
  /\ room \in Record
  /\ keys \in Keys
  /\ entered \in SUBSET Users
  /\ timer \in [Kinds -> Timer]
  /\ runs \in [Runs -> Run]

Playing == room.status = "PLAYING"

(* A round that is being played will be ended by the clock: its timer is   *)
(* in the ZSET, due or reserved by a handler.                              *)
TimeoutArmed == Playing => timer["round-timeout"].set

(* Once armed it stays so while the round is played, whatever fails and    *)
(* however late handlers of earlier rounds run, except in one way: the     *)
(* clean-up of a handler that could not read the record.                   *)
TimeoutKept ==
  [][ TimeoutArmed /\ ~TimeoutArmed' =>
        \E i \in Runs : runs[i].stage = "missed" /\ runs'[i] = Idle ]_vars

(* In speed mode an ended round moves on by itself.  Once armed the timer   *)
(* stays so until the round is left, whatever handlers of earlier rounds    *)
(* and requests that fail do, except for a nextRound that fails after it    *)
(* has cancelled the timer, and the clean-up of a handler that could not    *)
(* read the record.                                                         *)
AutoNextArmed == room.status = "ROUND_ENDED" /\ room.speed /\ timer["speed-next"].set
AutoNextKept ==
  [][ AutoNextArmed /\ room'.status = "ROUND_ENDED" /\ ~timer'["speed-next"].set =>
        \/ NextRound
        \/ \E i \in Runs : runs[i].stage = "missed" /\ runs'[i] = Idle ]_vars

(* A room never waits for something that has already happened: everybody   *)
(* ready, everybody right, most wanting to skip.  Whoever leaves, in       *)
(* whatever order requests arrive, the last event decides.                 *)
NeverWaitsInVain ==
  /\ room.status = "LOADING" => ~AllIn(room, room.ready)
  /\ Playing => ~AllIn(room, room.correct) /\ ~SkipMajority(room)

(* Answers are judged against the song being played and the song revealed  *)
(* is the one that was played, although round data and record are written  *)
(* one after the other and any write may fail.  Only in a game that has    *)
(* outlived its song order may the reveal be missing.                      *)
RightSong ==
  /\ room.status \in {"LOADING", "PLAYING"} =>
       keys.order # "none" /\ keys.answers = room.round /\ keys.reveal = room.round
  /\ room.status = "ROUND_ENDED" =>
       \/ room.shown = room.round
       \/ room.shown = -1 /\ keys.order = "expired"

(* While there is a room it has a host, and the host is in it. *)
HostPresent == room.status # "GONE" => room.host \in room.members

(* A game ends after its last round only, although its song order is       *)
(* deleted before the record says that it is over.  Except for a game that *)
(* has outlived its song order: it ends with the round that was played.    *)
AllRoundsPlayed ==
  [][ room.status # "FINISHED" /\ room'.status = "FINISHED" =>
        room.round = Rounds - 1 \/ keys.order = "expired" ]_vars

(* The room plays its rounds as promised, although the operations fail     *)
(* half-way, the order of the songs may be deleted before the record says  *)
(* that the game is over, or expire, and reports arrive from users who     *)
(* have left.                                                              *)
Game == INSTANCE GameRounds WITH
  Players <- Users, Last <- Rounds - 1, status <- room.status, round <- room.round,
  members <- room.members, ready <- room.ready,
  lost <- keys.order = "expired" /\ room.status \in {"LOADING", "PLAYING", "ROUND_ENDED"}
RoundsSpec == Game!Spec

(* A timer that was armed for one round has no effect on another. *)
StaleTimerNoOp ==
  [][ \A i \in Runs :
        runs[i].stage = "fired" /\ runs'[i] # runs[i] /\ runs[i].round # room.round
          => UNCHANGED room ]_vars

(* A round with its timeout armed ends, or loses the timeout. *)
RoundsEnd == Playing /\ TimeoutArmed ~> ~(Playing /\ TimeoutArmed)
=============================================================================
