---------------------------- MODULE RoomPresence ----------------------------
(***************************************************************************)
(* Whether one user is in a room: pages of the web client, their sockets,  *)
(* the gateway and the disconnect-grace timer.                             *)
(* apps/web/src/pages/RoomGamePage.tsx, apps/game/src/room/room.gateway.ts,*)
(* room-timer.service.ts and the two operations of room.service.ts that    *)
(* add and remove a participant.                                           *)
(*                                                                         *)
(* The user is an account: its userId is the same at every entry.  (A      *)
(* guest that joins again is another participant; for it JoinRoom happens  *)
(* once.)  joinRoom and leaveRoom run under the room lock, so each is one  *)
(* step on the record; all the rest of the gateway is a chain of awaits,   *)
(* and every await is a step boundary.  A socket that closes leaves its    *)
(* Socket.IO room at once and joins none afterwards; the server may notice *)
(* late that a client is gone.  Delays are left out: a timer that is set   *)
(* may fire, and a reservation may pass while its handler still runs.      *)
(***************************************************************************)
EXTENDS Naturals, FiniteSets

CONSTANTS
  Tabs,         (* browser pages of the user *)
  Sockets,      (* connections that may exist at once *)
  NoSocket,
  Runs,         (* timer handler invocations that may exist at once *)
  NoRun,
  MaxAttempts   (* REMOVE_FALLBACK_ATTEMPTS *)

ASSUME SocketsAssumption == NoSocket \notin Sockets
ASSUME RunsAssumption == NoRun \notin Runs
ASSUME AttemptsAssumption == MaxAttempts \in Nat \ {0}

VARIABLES
  page,     (* RoomGamePage in each tab *)
  held,     (* the connection the page of each tab has *)
  session,  (* localStorage has the membership of this room *)
  member,   (* the user is in room.participants *)
  open,     (* connections the server has not seen closing *)
  inRoom,   (* sockets fetchSockets() finds in the Socket.IO room *)
  known,    (* sockets with an entry in socketMemberships *)
  enter,    (* handleEnter, for each socket *)
  leave,    (* handleDisconnect or handleLeave, for each socket *)
  tries,    (* attempts of removeParticipantWithRetry *)
  timer,    (* the disconnect-grace member of room:timers *)
  run,      (* handleDisconnectGraceExpired, for each invocation *)
  seen,     (* history: a socket has entered since the user was added *)
  lost      (* history: the gateway has lost track of the user *)

client == <<page, held, session>>
sockets == <<open, inRoom, known>>
handlers == <<enter, leave, tries>>
timers == <<timer, run>>
vars == <<page, held, session, member, open, inRoom, known, enter, leave,
          tries, timer, run, seen, lost>>

Pages == {"closed", "checking", "joining", "in"}
EnterStages == {"none", "sent", "read", "cancelled"}
LeaveStages == {"none", "check", "schedule", "retry", "remove", "cancel", "leaving"}
RunStages == {"none", "check", "remove", "ok"}
Unset == [set |-> FALSE, by |-> NoRun]
Armed == [set |-> TRUE, by |-> NoRun]

Init ==
  /\ page = [t \in Tabs |-> "closed"]
  /\ held = [t \in Tabs |-> NoSocket]
  /\ session = FALSE
  /\ member = FALSE
  /\ open = {} /\ inRoom = {} /\ known = {}
  /\ enter = [s \in Sockets |-> "none"]
  /\ leave = [s \in Sockets |-> "none"]
  /\ tries = [s \in Sockets |-> 0]
  /\ timer = Unset
  /\ run = [r \in Runs |-> "none"]
  /\ seen = FALSE
  /\ lost = FALSE

-----------------------------------------------------------------------------
(* The record.  A removal ends what there was to keep track of. *)

Add ==
  /\ member' = TRUE
  /\ seen' = (member /\ seen)
  /\ lost' = (member /\ lost)

Remove ==
  /\ member' = FALSE
  /\ seen' = FALSE
  /\ lost' = FALSE

Same == UNCHANGED <<member, seen, lost>>

(* From here on nothing of what follows this step will look for the user. *)
Lose == lost' = (lost \/ member) /\ UNCHANGED <<member, seen>>

-----------------------------------------------------------------------------
(* The page. *)

(* A page with a stored membership checks it, one without joins. *)
OpenPage(t) ==
  /\ page[t] = "closed"
  /\ page' = [page EXCEPT ![t] = IF session THEN "checking" ELSE "joining"]
  /\ UNCHANGED <<held, session>>
  /\ Same /\ UNCHANGED <<sockets, handlers, timers>>

(* The first effect: getRoomById, then into the room, or join again. *)
CheckMembership(t) ==
  /\ page[t] = "checking"
  /\ \/ page' = [page EXCEPT ![t] = IF member THEN "in" ELSE "joining"] /\ session' = member
     \/ page' = [page EXCEPT ![t] = "closed"] /\ session' = FALSE
  /\ UNCHANGED held
  /\ Same /\ UNCHANGED <<sockets, handlers, timers>>

(* The second effect: joinRoom, whose answer may be a refusal or be lost. *)
JoinRoom(t) ==
  /\ page[t] = "joining"
  /\ \/ page' = [page EXCEPT ![t] = "in"] /\ session' = TRUE /\ Add
     \/ page' = [page EXCEPT ![t] = "closed"] /\ UNCHANGED session /\ (Same \/ Add)
  /\ UNCHANGED held
  /\ UNCHANGED <<sockets, handlers, timers>>

(* The third effect and the reconnections of its socket: a new connection, *)
(* whose first message is room:enter.                                      *)
Connect(t, s) ==
  /\ page[t] = "in" /\ held[t] = NoSocket
  /\ s \notin open /\ enter[s] = "none" /\ leave[s] = "none"
  /\ held' = [held EXCEPT ![t] = s]
  /\ open' = open \cup {s}
  /\ known' = known \ {s}
  /\ enter' = [enter EXCEPT ![s] = "sent"]
  /\ Same /\ UNCHANGED <<page, session, inRoom, leave, tries, timers>>

(* The network fails: the page will connect again. *)
Drop(t) ==
  /\ held[t] # NoSocket
  /\ held' = [held EXCEPT ![t] = NoSocket]
  /\ Same /\ UNCHANGED <<page, session, sockets, handlers, timers>>

(* The tab is closed or reloaded; the stored membership stays. *)
ClosePage(t) ==
  /\ page[t] # "closed"
  /\ page' = [page EXCEPT ![t] = "closed"]
  /\ held' = [held EXCEPT ![t] = NoSocket]
  /\ UNCHANGED session
  /\ Same /\ UNCHANGED <<sockets, handlers, timers>>

(* handleLeave of the page: leaveRoom, and away whatever it answers. *)
LeaveRoom(t) ==
  /\ page[t] = "in"
  /\ page' = [page EXCEPT ![t] = "closed"]
  /\ held' = [held EXCEPT ![t] = NoSocket]
  /\ session' = FALSE
  /\ Remove \/ Same
  /\ UNCHANGED <<sockets, handlers, timers>>

-----------------------------------------------------------------------------
(* room:enter. *)

(* A room that cannot be read, or without this user, is an error, and      *)
(* nothing else is done.                                                   *)
EnterRead(s) ==
  /\ s \in open /\ enter[s] = "sent"
  /\ enter' = [enter EXCEPT ![s] = IF member THEN "read" ELSE "none"]
  /\ Same /\ UNCHANGED <<client, sockets, leave, tries, timers>>

EnterRefused(s) ==
  /\ s \in open /\ enter[s] = "sent"
  /\ enter' = [enter EXCEPT ![s] = "none"]
  /\ Same /\ UNCHANGED <<client, sockets, leave, tries, timers>>

(* cancelPendingLeave: an error of ZREM is swallowed. *)
EnterCancel(s) ==
  /\ enter[s] = "read"
  /\ timer' \in {Unset, timer}
  /\ enter' = [enter EXCEPT ![s] = "cancelled"]
  /\ Same /\ UNCHANGED <<client, sockets, leave, tries, run>>

(* client.join, a no-op once the socket has closed, and socketMemberships, *)
(* which nobody clears if the disconnection has been handled before.       *)
EnterJoin(s) ==
  /\ enter[s] = "cancelled"
  /\ enter' = [enter EXCEPT ![s] = "none"]
  /\ known' = known \cup {s}
  /\ \/ /\ s \in open
        /\ inRoom' = inRoom \cup {s}
        /\ seen' = member
        /\ lost' = FALSE
        /\ UNCHANGED member
     \/ /\ s \notin open
        /\ Lose
        /\ UNCHANGED inRoom
  /\ UNCHANGED <<client, open, leave, tries, timers>>

-----------------------------------------------------------------------------
(* A socket that closes. *)

Active == inRoom # {}

Leaving(s, stage) == leave' = [leave EXCEPT ![s] = stage]

(* handleDisconnect: detachSocket.  A page that still had this connection  *)
(* loses it.                                                               *)
Disconnect(s) ==
  /\ s \in open
  /\ open' = open \ {s}
  /\ inRoom' = inRoom \ {s}
  /\ known' = known \ {s}
  /\ held' = [t \in Tabs |-> IF held[t] = s THEN NoSocket ELSE held[t]]
  /\ IF s \in known THEN Leaving(s, "check") ELSE UNCHANGED leave
  /\ enter' = IF enter[s] = "sent" THEN [enter EXCEPT ![s] = "none"] ELSE enter
  /\ Same /\ UNCHANGED <<page, session, tries, timers>>

CheckOthers(s) ==
  /\ leave[s] = "check"
  /\ Leaving(s, IF Active THEN "none" ELSE "schedule")
  /\ Same /\ UNCHANGED <<client, sockets, enter, tries, timers>>

(* fetchSockets() rejects: nothing catches it. *)
CheckOthersFails(s) ==
  /\ leave[s] = "check"
  /\ Leaving(s, "none")
  /\ Lose
  /\ UNCHANGED <<client, sockets, enter, tries, timers>>

Schedule(s) ==
  /\ leave[s] = "schedule"
  /\ timer' = Armed
  /\ Leaving(s, "none")
  /\ Same /\ UNCHANGED <<client, sockets, enter, tries, run>>

(* ZADD fails for its caller: leave at once, with retries. *)
ScheduleFails(s) ==
  /\ leave[s] = "schedule"
  /\ timer' \in {Armed, timer}
  /\ Leaving(s, "retry")
  /\ Same /\ UNCHANGED <<client, sockets, enter, tries, run>>

(* removeParticipantWithRetry: an error of the check is ignored. *)
RetryCheck(s) ==
  /\ leave[s] = "retry"
  /\ \/ Active /\ Leaving(s, "none") /\ tries' = [tries EXCEPT ![s] = 0]
     \/ Leaving(s, "remove") /\ UNCHANGED tries
  /\ Same /\ UNCHANGED <<client, sockets, enter, timers>>

(* removeParticipant: NotFoundException counts as done, and is also what a *)
(* record that cannot be read looks like.                                  *)
Removed == Remove \/ Lose

RetryRemoves(s) ==
  /\ leave[s] = "remove"
  /\ Removed
  /\ Leaving(s, "none")
  /\ tries' = [tries EXCEPT ![s] = 0]
  /\ UNCHANGED <<client, sockets, enter, timers>>

(* Mutant of RetryFails: one attempt too many. *)
RetryFailsOnceMore(s) ==
  /\ leave[s] = "remove"
  /\ \/ /\ tries[s] < MaxAttempts
        /\ tries' = [tries EXCEPT ![s] = @ + 1]
        /\ Leaving(s, "retry")
        /\ Same \/ Remove
     \/ /\ tries[s] = MaxAttempts
        /\ tries' = [tries EXCEPT ![s] = 0]
        /\ Leaving(s, "none")
        /\ Lose \/ Remove
  /\ UNCHANGED <<client, sockets, enter, timers>>

RetryFails(s) ==
  /\ leave[s] = "remove"
  /\ \/ /\ tries[s] + 1 < MaxAttempts
        /\ tries' = [tries EXCEPT ![s] = @ + 1]
        /\ Leaving(s, "retry")
        /\ Same \/ Remove
     \/ /\ tries[s] + 1 = MaxAttempts
        /\ tries' = [tries EXCEPT ![s] = 0]
        /\ Leaving(s, "none")
        /\ Lose \/ Remove
  /\ UNCHANGED <<client, sockets, enter, timers>>

(* room:leave: detachSocket, cancelPendingLeave, removeParticipant. *)
LeaveEvent(s) ==
  /\ s \in open /\ s \in known
  /\ inRoom' = inRoom \ {s}
  /\ known' = known \ {s}
  /\ Leaving(s, "cancel")
  /\ Same /\ UNCHANGED <<client, open, enter, tries, timers>>

LeaveCancel(s) ==
  /\ leave[s] = "cancel"
  /\ timer' \in {Unset, timer}
  /\ Leaving(s, "leaving")
  /\ Same /\ UNCHANGED <<client, sockets, enter, tries, run>>

LeaveRemoves(s) ==
  /\ leave[s] = "leaving"
  /\ Removed \/ Lose
  /\ Leaving(s, "none")
  /\ UNCHANGED <<client, sockets, enter, tries, timers>>

-----------------------------------------------------------------------------
(* The disconnect-grace timer. *)

(* The member is due, or its reservation has passed: claimed by one poll. *)
Claim(r) ==
  /\ run[r] = "none" /\ timer.set
  /\ timer' = [set |-> TRUE, by |-> r]
  /\ run' = [run EXCEPT ![r] = "check"]
  /\ Same /\ UNCHANGED <<client, sockets, handlers>>

GraceCheck(r) ==
  /\ run[r] = "check"
  /\ run' = [run EXCEPT ![r] = IF Active THEN "ok" ELSE "remove"]
  /\ Same /\ UNCHANGED <<client, sockets, handlers, timer>>

(* Mutant of GraceRemoves: an error of the removal is swallowed. *)
GraceSwallows(r) ==
  /\ run[r] = "remove"
  /\ Removed \/ Same
  /\ run' = [run EXCEPT ![r] = "ok"]
  /\ UNCHANGED <<client, sockets, handlers, timer>>

GraceRemoves(r) ==
  /\ run[r] = "remove"
  /\ Removed
  /\ run' = [run EXCEPT ![r] = "ok"]
  /\ UNCHANGED <<client, sockets, handlers, timer>>

(* The handler throws, before or after it removed the user, or dies with   *)
(* its process: the member stays.                                          *)
GraceFails(r) ==
  /\ run[r] \in {"check", "remove"}
  /\ Same \/ (run[r] = "remove" /\ Remove)
  /\ run' = [run EXCEPT ![r] = "none"]
  /\ UNCHANGED <<client, sockets, handlers, timer>>

(* Mutant of DeleteReserved: the member goes, rescheduled or not. *)
DeleteMember(r) == Unset

(* deleteIfReserved, unless its command fails. *)
DeleteReserved(r) == IF timer.by = r THEN Unset ELSE timer

Settle(r) ==
  /\ run[r] = "ok"
  /\ timer' \in {DeleteReserved(r), timer}
  /\ run' = [run EXCEPT ![r] = "none"]
  /\ Same /\ UNCHANGED <<client, sockets, handlers>>

(* The process that has these connections dies: no disconnection of them   *)
(* is handled.                                                             *)
Crash(its) ==
  /\ \E s \in its : s \in open \/ enter[s] # "none" \/ leave[s] # "none"
  /\ open' = open \ its /\ inRoom' = inRoom \ its /\ known' = known \ its
  /\ enter' = [s \in Sockets |-> IF s \in its THEN "none" ELSE enter[s]]
  /\ leave' = [s \in Sockets |-> IF s \in its THEN "none" ELSE leave[s]]
  /\ tries' = [s \in Sockets |-> IF s \in its THEN 0 ELSE tries[s]]
  /\ held' = [t \in Tabs |-> IF held[t] \in its THEN NoSocket ELSE held[t]]
  /\ Lose
  /\ UNCHANGED <<page, session, timers>>

Page(t) ==
  \/ OpenPage(t) \/ CheckMembership(t) \/ JoinRoom(t) \/ Drop(t)
  \/ ClosePage(t) \/ LeaveRoom(t) \/ \E s \in Sockets : Connect(t, s)

Gateway(s) ==
  \/ EnterRead(s) \/ EnterRefused(s) \/ EnterCancel(s) \/ EnterJoin(s)
  \/ Disconnect(s) \/ CheckOthers(s) \/ CheckOthersFails(s)
  \/ Schedule(s) \/ ScheduleFails(s) \/ RetryCheck(s) \/ RetryRemoves(s)
  \/ RetryFails(s) \/ LeaveEvent(s) \/ LeaveCancel(s) \/ LeaveRemoves(s)

Grace(r) ==
  \/ Claim(r) \/ GraceCheck(r) \/ GraceRemoves(r) \/ GraceFails(r) \/ Settle(r)

Next ==
  \/ \E t \in Tabs : Page(t)
  \/ \E s \in Sockets : Gateway(s)
  \/ \E r \in Runs : Grace(r)
  \/ \E its \in SUBSET Sockets : Crash(its)

Spec == Init /\ [][Next]_vars

(* What the gateway has begun for a socket it goes on with, and it notices *)
(* a client that is gone (ping timeout).  Redis and the record can be      *)
(* reached again and again.                                                *)
GoesOn(s) == Gateway(s) /\ (leave'[s] # leave[s] \/ enter'[s] # enter[s]) /\ s \notin open \ open'
Notices(s) == Disconnect(s) /\ \A t \in Tabs : held[t] # s

Fairness ==
  /\ \A s \in Sockets : WF_vars(GoesOn(s)) /\ WF_vars(Notices(s))
  /\ \A r \in Runs : /\ SF_vars(Claim(r)) /\ SF_vars(GraceCheck(r))
                     /\ SF_vars(GraceRemoves(r)) /\ WF_vars(Settle(r))

FairSpec == Spec /\ Fairness

-----------------------------------------------------------------------------

TypeOK ==
  /\ page \in [Tabs -> Pages]
  /\ held \in [Tabs -> Sockets \cup {NoSocket}]
  /\ {session, member, seen, lost} \subseteq BOOLEAN
  /\ open \subseteq Sockets /\ known \subseteq Sockets /\ inRoom \subseteq open
  /\ enter \in [Sockets -> EnterStages]
  /\ leave \in [Sockets -> LeaveStages]
  /\ tries \in [Sockets -> 0 .. MaxAttempts - 1]
  /\ timer \in [set : BOOLEAN, by : Runs \cup {NoRun}]
  /\ run \in [Runs -> RunStages]

Entering == \E s \in Sockets : enter[s] = "cancelled"
Handling == \E s \in Sockets : leave[s] # "none"

(* A participant who has been connected is never forgotten: a socket of    *)
(* theirs is in the room, or one is being entered, or a disconnection is   *)
(* being handled, or the grace timer is set; whatever tabs, reconnections, *)
(* late handlers and cancellations do to one another.  The ways out are    *)
(* the recorded ones, and a later entry closes them.                       *)
Tracked ==
  member /\ seen => Active \/ Entering \/ Handling \/ timer.set \/ lost

(* Once the last page of the user is closed, they leave the room, unless a *)
(* page is opened again or the gateway has lost track of them.             *)
Offline == \A t \in Tabs : page[t] = "closed"
OfflineRemoved == member /\ seen /\ Offline ~> ~member \/ ~Offline \/ lost
=============================================================================
