--------------------------- MODULE RoundPlayback ---------------------------
(***************************************************************************)
(* One participant's page during a game: its socket, the room it shows and *)
(* the YouTube player, with as much of the room as it answers to.          *)
(* apps/web/src/components/GamePlayer.tsx, apps/web/src/pages/             *)
(* RoomGamePage.tsx, handleEnter of the gateway, markReady and nextRound.  *)
(*                                                                         *)
(* The page answers to broadcasts (room:state) with effects and timers.  A *)
(* round LOADs until every participant has reported that it is ready: this *)
(* page does when its player first plays, or by a timer when that does not *)
(* happen.  Once the round is PLAYING the player warms up, muted, and is   *)
(* started at the scheduled time.                                          *)
(*                                                                         *)
(* The other participants are one flag.  Broadcasts to a socket that has   *)
(* joined arrive at once and in order; what the socket sends may be lost   *)
(* with the connection.  socket.io keeps what is emitted while there is    *)
(* none and sends it first.  The player is the YouTube iframe: commands    *)
(* wait until it is ready, and it may never be, or never play (autoplay).  *)
(* The timers for the fallback and the scheduled start are not variables:  *)
(* they are set exactly when what their handlers test allows them to act.  *)
(***************************************************************************)
EXTENDS Integers, Sequences

CONSTANTS
  Last,      (* the index of the last round *)
  MaxDrops   (* bound: lost connections and reloads *)

ASSUME LastAssumption == Last \in Nat
ASSUME DropsAssumption == MaxDrops \in Nat

NoRound == -1
RoundIds == NoRound .. Last
Statuses == {"WAITING", "LOADING", "PLAYING", "ROUND_ENDED", "FINISHED"}
Links == {"down", "up", "entering", "in"}

VARIABLES
  room,     (* the record: status, round, and who is ready of this user and the others; *)
            (* and whether the song order beside it has expired: `lost`              *)
  member,   (* whether this user is a participant *)
  link,     (* the socket: not connected, connected, room:enter under way, entered *)
  snap,     (* what the room:enter under way has read *)
  outbox,   (* events of the socket that have not arrived *)
  view,     (* status and round of the room the page shows *)
  refs,     (* the refs of GamePlayer: rounds, NoRound for null *)
  warm,     (* the timer that ends the warm-up is set *)
  player,   (* the player of the round shown; `late` is history *)
  gaps,     (* what has kept reports from this round: history, for the properties *)
  drops     (* lost connections and reloads so far *)

server == <<room, member>>
socket == <<link, snap, outbox, drops>>
page == <<view, refs, warm, player>>
vars == <<server, socket, page, gaps>>

View == [status : Statuses, round : RoundIds]
Seen(r) == [status |-> r.status, round |-> r.round]
Waiting == [status |-> "WAITING", round |-> NoRound]
NoRefs == [reported |-> NoRound, prebuffering |-> NoRound,
           prebuffered |-> NoRound, played |-> NoRound]
Unready == [ready |-> FALSE, muted |-> FALSE, want |-> FALSE, late |-> FALSE]

Init ==
  /\ room = [status |-> "WAITING", round |-> NoRound, mine |-> FALSE, others |-> FALSE,
             lost |-> FALSE]
  /\ member = TRUE
  /\ link = "down" /\ snap = Waiting /\ outbox = <<>> /\ drops = 0
  /\ view = Waiting /\ refs = NoRefs /\ warm = FALSE /\ player = Unready /\ gaps = {}

-----------------------------------------------------------------------------
(* The page                                                                *)

(* The clean-up of the warm-up's effect, when the page shows something else. *)
Cut(v) == v # view /\ refs.prebuffering = view.round /\ refs.played # view.round

(* The warm-up's effect: muted, and once for a round. *)
Warms(v) ==
  /\ v # view
  /\ v.status = "PLAYING"
  /\ v.round \notin {refs.prebuffered, refs.played}
  /\ refs.prebuffering = v.round => Cut(v)

(* setRoom: the effects run for what has changed; a new round, a new player. *)
Show(v) ==
  LET old == IF v.round # view.round THEN Unready ELSE player IN
  /\ view' = v
  /\ refs' = [refs EXCEPT !.prebuffering = IF Warms(v) THEN v.round
                                           ELSE IF Cut(v) THEN NoRound ELSE @]
  /\ player' = IF Warms(v) THEN [old EXCEPT !.muted = TRUE, !.want = TRUE]
               ELSE IF Cut(v) THEN [old EXCEPT !.want = FALSE] ELSE old
  /\ warm' = (Warms(v) \/ (warm /\ v = view))

(* A broadcast reaches the page if its socket has joined the room. *)
Broadcast(r) == IF link = "in" THEN Show(Seen(r)) ELSE UNCHANGED page

(* Mutant of Emit: nothing is sent without a connection. *)
EmitConnected(e) == outbox' = IF link = "down" THEN outbox ELSE Append(outbox, e)

Emit(e) == outbox' = Append(outbox, e)

(* game:ready, once for a round; it does not say which. *)
Report ==
  /\ refs' = [refs EXCEPT !.reported = view.round]
  /\ Emit("ready")
  /\ UNCHANGED <<link, snap, drops>>

(* Mutant of Fallback: the page gives up as soon as the player is ready. *)
FallbackUnready ==
  /\ view.status = "LOADING"
  /\ refs.reported # view.round
  /\ ~player.ready
  /\ Report
  /\ UNCHANGED <<server, view, warm, player, gaps>>

(* The timer of READY_FALLBACK_TIMEOUT_MS *)
Fallback ==
  /\ view.status = "LOADING"
  /\ refs.reported # view.round
  /\ Report
  /\ UNCHANGED <<server, view, warm, player, gaps>>

(* Mutant of PlayerReady: it plays as the page left it, not muted. *)
PlayerReadyLoud ==
  /\ view.round # NoRound
  /\ ~player.ready
  /\ player' = [ready |-> TRUE, muted |-> player.muted, want |-> TRUE,
                late |-> refs.played = view.round]
  /\ UNCHANGED <<server, socket, view, refs, warm, gaps>>

(* onReady of the player.  Its commands come after any that were waiting:  *)
(* a player that is ready after the scheduled start is muted again.        *)
PlayerReady ==
  /\ view.round # NoRound
  /\ ~player.ready
  /\ player' = [ready |-> TRUE, muted |-> TRUE, want |-> TRUE,
                late |-> refs.played = view.round]
  /\ UNCHANGED <<server, socket, view, refs, warm, gaps>>

(* onStateChange, PLAYING: for the first time in the round, it is ready. *)
PlayerPlays ==
  /\ player.ready /\ player.want
  /\ refs.reported # view.round
  /\ Report
  /\ UNCHANGED <<server, view, warm, player, gaps>>

(* The timer for playScheduledAt *)
Start ==
  /\ view.status = "PLAYING"
  /\ refs.played # view.round
  /\ refs' = [refs EXCEPT !.played = view.round, !.prebuffering = NoRound]
  /\ player' = [player EXCEPT !.muted = FALSE, !.want = TRUE]
  /\ UNCHANGED <<server, socket, view, warm, gaps>>

(* Mutant of WarmEnds: the song has started and is stopped. *)
WarmEndsAnyway ==
  /\ warm
  /\ warm' = FALSE
  /\ refs' = [refs EXCEPT !.prebuffered = view.round]
  /\ player' = [player EXCEPT !.want = FALSE]
  /\ UNCHANGED <<server, socket, view, gaps>>

(* The end of the warm-up: back to the start, to wait for it. *)
WarmEnds ==
  /\ warm
  /\ warm' = FALSE
  /\ \/ /\ refs.played = view.round
        /\ refs' = [refs EXCEPT !.prebuffered = view.round, !.prebuffering = NoRound]
        /\ UNCHANGED player
     \/ /\ refs.played # view.round
        /\ refs' = [refs EXCEPT !.prebuffered = view.round]
        /\ player' = [player EXCEPT !.want = FALSE]
  /\ UNCHANGED <<server, socket, view, gaps>>

-----------------------------------------------------------------------------
(* The socket                                                              *)

(* What was kept is sent first, then the handler of connect emits. *)
Connect ==
  /\ link = "down"
  /\ link' = "up"
  /\ Emit("enter")
  /\ UNCHANGED <<server, page, gaps, snap, drops>>

(* A report is on its way. *)
Sent == \E i \in 1 .. Len(outbox) : outbox[i] = "ready"

Drop ==
  /\ link # "down" /\ drops < MaxDrops
  /\ link' = "down" /\ outbox' = <<>> /\ drops' = drops + 1
  /\ gaps' = IF Sent THEN gaps \cup {"lost"} ELSE gaps
  /\ UNCHANGED <<server, page, snap>>

(* The page is loaded again and asks for the room before it connects. *)
Reload ==
  /\ member /\ drops < MaxDrops
  /\ link' = "down" /\ outbox' = <<>> /\ drops' = drops + 1
  /\ view' = Seen(room) /\ refs' = NoRefs /\ warm' = FALSE /\ player' = Unready /\ gaps' = {}
  /\ UNCHANGED <<server, snap>>

(* handleEnter reads the room before its awaits. *)
EnterRead ==
  /\ outbox # <<>> /\ Head(outbox) = "enter"
  /\ outbox' = Tail(outbox)
  /\ IF member THEN link' = "entering" /\ snap' = Seen(room) ELSE UNCHANGED <<link, snap>>
  /\ UNCHANGED <<server, page, gaps, drops>>

(* After them: it joins, is a member, and is sent what was read. *)
EnterJoin ==
  /\ link = "entering"
  /\ link' = "in"
  /\ Show(snap)
  /\ UNCHANGED <<server, snap, outbox, drops, gaps>>

-----------------------------------------------------------------------------
(* The room                                                                *)

(* recomputeReadyStatus: those who take part are ready. *)
Recomputed(r, m) ==
  IF r.status = "LOADING" /\ r.others /\ (m => r.mine)
    THEN [r EXCEPT !.status = "PLAYING"] ELSE r

Becomes(r) == room' = r /\ Broadcast(r) /\ UNCHANGED <<member, link, snap, drops>>

(* markReady; requireMembership refuses a socket that has not entered. *)
ReadyArrives ==
  /\ link # "down" /\ outbox # <<>> /\ Head(outbox) = "ready"
  /\ outbox' = Tail(outbox)
  /\ gaps' = IF link = "in" THEN gaps ELSE gaps \cup {"lost"}
  /\ IF link = "in" /\ room.status = "LOADING"
       THEN Becomes(Recomputed([room EXCEPT !.mine = TRUE], member))
       ELSE UNCHANGED <<server, page, link, snap, drops>>

OthersReady ==
  /\ room.status = "LOADING" /\ ~room.others
  /\ Becomes(Recomputed([room EXCEPT !.others = TRUE], member))
  /\ UNCHANGED <<outbox, gaps>>

(* A new round loads: prepareFirstRound and prepareRoundData. *)
Loading(n) == [status |-> "LOADING", round |-> n, mine |-> FALSE, others |-> FALSE,
               lost |-> FALSE]
Load(n) ==
  /\ Becomes(Loading(n))
  /\ gaps' = IF refs.reported = n THEN {"reported"} ELSE {}
  /\ UNCHANGED outbox

(* startGame and restartGame *)
StartGame ==
  /\ room.status \in {"WAITING", "FINISHED"}
  /\ Load(0)

(* However it ends: the time, the answers, the skips. *)
RoundEnds ==
  /\ room.status = "PLAYING"
  /\ Becomes([room EXCEPT !.status = "ROUND_ENDED"])
  /\ UNCHANGED <<outbox, gaps>>

(* Mutant of NextRound: there is always another round. *)
NextRoundAlways ==
  /\ room.status = "ROUND_ENDED"
  /\ Load(room.round + 1)

(* The song order outlives its TTL during a game: see RoomGame.  Nothing   *)
(* is broadcast.                                                           *)
OrderExpires ==
  /\ room.status \in {"LOADING", "PLAYING", "ROUND_ENDED"} /\ ~room.lost
  /\ room' = [room EXCEPT !.lost = TRUE]
  /\ UNCHANGED <<member, socket, page, gaps>>

(* nextRound, by hand or by timer *)
NextRound ==
  /\ room.status = "ROUND_ENDED"
  /\ \/ room.round < Last /\ ~room.lost /\ Load(room.round + 1)
     \/ /\ room.round = Last \/ room.lost
        /\ Becomes([Loading(NoRound) EXCEPT !.status = "FINISHED"])
        /\ UNCHANGED <<outbox, gaps>>

(* Anything else that is saved and broadcast. *)
Updated == Becomes(room) /\ UNCHANGED <<outbox, gaps>>

(* Mutant of Removed: nobody looks whether the others were waiting. *)
RemovedOnly ==
  /\ member /\ link = "down"
  /\ member' = FALSE
  /\ UNCHANGED <<room, socket, page, gaps>>

(* The grace period of a lost socket is over: see RoomPresence.  A user    *)
(* who comes back just then may be removed too; such a page, which plays   *)
(* on without taking part, is left out.                                    *)
Removed ==
  /\ member /\ link = "down"
  /\ member' = FALSE
  /\ room' = Recomputed(room, FALSE)
  /\ UNCHANGED <<socket, page, gaps>>

-----------------------------------------------------------------------------
Page == Fallback \/ PlayerReady \/ PlayerPlays \/ Start \/ WarmEnds
Socket == Connect \/ Drop \/ Reload \/ EnterRead \/ EnterJoin
Room == ReadyArrives \/ OthersReady \/ StartGame \/ RoundEnds \/ NextRound \/ OrderExpires
        \/ Updated \/ Removed
Next == Page \/ Socket \/ Room

Spec == Init /\ [][Next]_vars

(* socket.io connects again, what is sent arrives, handlers go on, timers  *)
(* fire, the others' pages do what this one does.  Nothing is assumed of   *)
(* the player or of the host.                                              *)
Fairness ==
  /\ WF_vars(Connect) /\ WF_vars(EnterRead) /\ WF_vars(EnterJoin)
  /\ WF_vars(ReadyArrives) /\ WF_vars(OthersReady) /\ WF_vars(Fallback)

FairSpec == Spec /\ Fairness

-----------------------------------------------------------------------------
TypeOK ==
  /\ room \in [status : Statuses, round : RoundIds, mine : BOOLEAN, others : BOOLEAN,
              lost : BOOLEAN]
  /\ member \in BOOLEAN
  /\ link \in Links
  /\ snap \in View
  /\ outbox \in Seq({"ready", "enter"})
  /\ view \in View
  /\ refs \in [reported : RoundIds, prebuffering : RoundIds,
               prebuffered : RoundIds, played : RoundIds]
  /\ warm \in BOOLEAN
  /\ player \in [ready : BOOLEAN, muted : BOOLEAN, want : BOOLEAN, late : BOOLEAN]
  /\ gaps \in SUBSET {"lost", "reported"}
  /\ drops \in 0 .. MaxDrops

(* Nobody hears the song before its scheduled start: whatever the warm-up, *)
(* the player and the broadcasts do in between, it is muted.               *)
SilentBefore == player.want /\ ~player.muted => refs.played = view.round

(* And from then on it is heard: neither the warm-up's late end nor its    *)
(* clean-up when the round ends stops it.  Except in a player that became  *)
(* ready after the start was marked, by this game or, for a round of the   *)
(* same index, by an earlier one.                                          *)
HeardAfter ==
  refs.played = view.round /\ player.ready /\ ~player.late
    => player.want /\ ~player.muted

(* The page reports once for a round, so the report must count: it has     *)
(* arrived or is on its way, across reconnections.  Except when it was     *)
(* sent on a socket that had not entered or was lost, or when the page     *)
(* takes the report of an earlier game for it.                             *)
ReportCounts ==
  member /\ room.status = "LOADING" /\ refs.reported = room.round /\ gaps = {}
    => room.mine \/ Sent

(* What this page takes for the room is one: it plays its rounds as        *)
(* promised to this user and the others.                                   *)
Game == INSTANCE GameRounds WITH
  Players <- {"me", "others"}, Last <- Last, status <- room.status, round <- room.round,
  members <- {"others"} \cup (IF member THEN {"me"} ELSE {}),
  ready <- (IF room.others THEN {"others"} ELSE {})
           \cup (IF member /\ room.mine THEN {"me"} ELSE {}),
  lost <- room.lost
RoundsSpec == Game!Spec

Behind == link = "in" /\ view # Seen(room)

(* A round does not load for ever, although nothing but reports ends the   *)
(* loading; unless a report was lost, or not made because of an earlier    *)
(* game, or the page was sent a room that had changed meanwhile.           *)
LoadingEnds ==
  <>[](room.status = "LOADING")
    => <>[](Behind \/ gaps # {})
=============================================================================
