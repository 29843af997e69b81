------------------------- MODULE RoomPresenceProofs -------------------------
(***************************************************************************)
(* RoomPresence for all sets of tabs, sockets and handler invocations.     *)
(*                                                                         *)
(* Tracked is not inductive: a handler that found the user connected is    *)
(* about to delete the timer, and only that it was right and still has the *)
(* reservation makes that deletion harmless.  Settling says so: while the  *)
(* member is reserved for a handler that has finished, something else than *)
(* the timer keeps track of the user.  Joined is what detachSocket relies  *)
(* on: a socket in the room is one whose closing will be handled.          *)
(***************************************************************************)
EXTENDS RoomPresence, TLAPS

Watched == Active \/ Entering \/ Handling \/ lost

Settling ==
  \A r \in Runs :
    run[r] = "ok" /\ timer.set /\ timer.by = r /\ member /\ seen => Watched

Joined == inRoom \subseteq known

IInv == TypeOK /\ Joined /\ Tracked /\ Settling

-----------------------------------------------------------------------------
(* Type correctness. *)

Timers == [set : BOOLEAN, by : Runs \cup {NoRun}]
Counts == 0 .. MaxAttempts - 1

(* The values a timer is set to, and the counts of attempts. *)
LEMMA Values ==
  /\ Unset \in Timers /\ Armed \in Timers
  /\ 0 \in Counts
  /\ \A n \in Counts : n + 1 < MaxAttempts => n + 1 \in Counts
<1>1. Unset \in Timers /\ Armed \in Timers
  BY DEF Unset, Armed, Timers
<1>2. 0 \in Counts
  BY AttemptsAssumption DEF Counts
<1>3. \A n \in Counts : n + 1 < MaxAttempts => n + 1 \in Counts
  BY AttemptsAssumption DEF Counts
<1>4. QED
  BY <1>1, <1>2, <1>3

(* The initial states. *)
LEMMA Initial == Init => IInv
<1> SUFFICES ASSUME Init PROVE IInv
  OBVIOUS
<1>1. TypeOK
  <2>1. timer \in Timers /\ tries \in [Sockets -> Counts]
    BY Values DEF Init
  <2>2. QED
    BY <2>1 DEF Init, TypeOK, Timers, Counts, Pages, EnterStages, LeaveStages,
                RunStages
<1>2. Joined /\ Tracked /\ Settling
  BY DEF Init, Joined, Tracked, Settling
<1>3. QED
  BY <1>1, <1>2 DEF IInv

(* Every step keeps every variable in its type. *)
LEMMA TypeStep == TypeOK /\ [Next]_vars => TypeOK'
<1> SUFFICES ASSUME TypeOK, [Next]_vars PROVE TypeOK'
  OBVIOUS
<1> USE DEF client, sockets, handlers, timers
<1>1. CASE UNCHANGED vars
  BY <1>1 DEF TypeOK, vars
<1>2. ASSUME NEW t \in Tabs, Page(t) PROVE TypeOK'
  <2>1. CASE OpenPage(t)
    BY <2>1
    DEF TypeOK, OpenPage, Same, Pages
  <2>2. CASE CheckMembership(t)
    BY <2>2
    DEF TypeOK, CheckMembership, Same, Pages
  <2>3. CASE JoinRoom(t)
    BY <2>3
    DEF TypeOK, JoinRoom, Add, Same, Pages
  <2>4. CASE Drop(t)
    BY <2>4
    DEF TypeOK, Drop, Same
  <2>5. CASE ClosePage(t)
    BY <2>5
    DEF TypeOK, ClosePage, Same, Pages
  <2>6. CASE LeaveRoom(t)
    BY <2>6
    DEF TypeOK, LeaveRoom, Remove, Same, Pages
  <2>7. ASSUME NEW s \in Sockets, Connect(t, s) PROVE TypeOK'
    BY <2>7
    DEF TypeOK, Connect, Same, EnterStages
  <2>8. QED
    BY <1>2, <2>1, <2>2, <2>3, <2>4, <2>5, <2>6, <2>7 DEF Page
<1>3. ASSUME NEW s \in Sockets, Gateway(s) PROVE TypeOK'
  <2>1. CASE EnterRead(s)
    BY <2>1
    DEF TypeOK, EnterRead, Same, EnterStages
  <2>2. CASE EnterRefused(s)
    BY <2>2
    DEF TypeOK, EnterRefused, Same, EnterStages
  <2>3. CASE EnterCancel(s)
    <3>1. timer' \in Timers
      BY <2>3, Values DEF TypeOK, Timers, EnterCancel, Same
    <3>2. QED
      BY <2>3, <3>1 DEF TypeOK, Timers, EnterCancel, Same, EnterStages
  <2>4. CASE EnterJoin(s)
    BY <2>4
    DEF TypeOK, EnterJoin, Lose, EnterStages
  <2>5. CASE Disconnect(s)
    BY <2>5
    DEF TypeOK, Disconnect, Same, Leaving, EnterStages, LeaveStages
  <2>6. CASE CheckOthers(s)
    BY <2>6
    DEF TypeOK, CheckOthers, Same, Leaving, LeaveStages
  <2>7. CASE CheckOthersFails(s)
    BY <2>7
    DEF TypeOK, CheckOthersFails, Lose, Leaving, LeaveStages
  <2>8. CASE Schedule(s)
    BY <2>8
    DEF TypeOK, Schedule, Same, Armed, Leaving, LeaveStages
  <2>9. CASE ScheduleFails(s)
    <3>1. timer' \in Timers
      BY <2>9, Values DEF TypeOK, Timers, ScheduleFails, Same, Leaving
    <3>2. QED
      BY <2>9, <3>1 DEF TypeOK, Timers, ScheduleFails, Same, Leaving, LeaveStages
  <2>10. CASE RetryCheck(s)
    BY <2>10, Values, AttemptsAssumption
    DEF TypeOK, Counts, RetryCheck, Same, Leaving, LeaveStages
  <2>11. CASE RetryRemoves(s)
    <3>1. tries' \in [Sockets -> Counts]
      BY <2>11, Values DEF TypeOK, Counts, RetryRemoves
    <3>2. leave' \in [Sockets -> LeaveStages]
      BY <2>11 DEF TypeOK, RetryRemoves, Leaving, LeaveStages
    <3>3. QED
      BY <2>11, <3>1, <3>2 DEF TypeOK, Counts, RetryRemoves, Removed, Remove, Lose
  <2>12. CASE RetryFails(s)
    <3>1. tries' \in [Sockets -> Counts]
      BY <2>12, Values DEF TypeOK, Counts, RetryFails
    <3>2. leave' \in [Sockets -> LeaveStages]
      BY <2>12 DEF TypeOK, RetryFails, Leaving, LeaveStages
    <3>3. QED
      BY <2>12, <3>1, <3>2 DEF TypeOK, Counts, RetryFails, Same, Remove, Lose
  <2>13. CASE LeaveEvent(s)
    BY <2>13
    DEF TypeOK, LeaveEvent, Same, Leaving, LeaveStages
  <2>14. CASE LeaveCancel(s)
    <3>1. timer' \in Timers
      BY <2>14, Values DEF TypeOK, Timers, LeaveCancel, Same, Leaving
    <3>2. QED
      BY <2>14, <3>1 DEF TypeOK, Timers, LeaveCancel, Same, Leaving, LeaveStages
  <2>15. CASE LeaveRemoves(s)
    BY <2>15
    DEF TypeOK, LeaveRemoves, Removed, Remove, Lose, Leaving, LeaveStages
  <2>16. QED
    BY <1>3, <2>1, <2>2, <2>3, <2>4, <2>5, <2>6, <2>7, <2>8, <2>9,
       <2>10, <2>11, <2>12, <2>13, <2>14, <2>15 DEF Gateway
<1>4. ASSUME NEW r \in Runs, Grace(r) PROVE TypeOK'
  <2>1. CASE Claim(r)
    BY <2>1
    DEF TypeOK, Claim, Same, RunStages
  <2>2. CASE GraceCheck(r)
    BY <2>2
    DEF TypeOK, GraceCheck, Same, RunStages
  <2>3. CASE GraceRemoves(r)
    BY <2>3
    DEF TypeOK, GraceRemoves, Removed, Remove, Lose, RunStages
  <2>4. CASE GraceFails(r)
    BY <2>4
    DEF TypeOK, GraceFails, Same, Remove, RunStages
  <2>5. CASE Settle(r)
    <3>1. timer' \in Timers
      BY <2>5, Values DEF TypeOK, Timers, Settle, Same, DeleteReserved
    <3>2. QED
      BY <2>5, <3>1 DEF TypeOK, Timers, Settle, Same, RunStages
  <2>6. QED
    BY <1>4, <2>1, <2>2, <2>3, <2>4, <2>5 DEF Grace
<1>5. ASSUME NEW its \in SUBSET Sockets, Crash(its) PROVE TypeOK'
  BY <1>5, Values, AttemptsAssumption
    DEF TypeOK, Counts, Crash, Lose, EnterStages, LeaveStages
<1>6. QED
  BY <1>1, <1>2, <1>3, <1>4, <1>5 DEF Next

(* Type correctness, for any tabs, sockets and handlers. *)
THEOREM TypeCorrect == Spec => []TypeOK
<1>1. Init => TypeOK
  BY Initial DEF IInv
<1>2. QED
  BY <1>1, TypeStep, PTL DEF Spec

-----------------------------------------------------------------------------
(* Presence. *)

(* A socket is in the room only with an entry in socketMemberships. *)
LEMMA JoinedStep == TypeOK /\ Joined /\ [Next]_vars => Joined'
<1> SUFFICES ASSUME TypeOK, Joined, [Next]_vars PROVE Joined'
  OBVIOUS
<1> USE DEF client, sockets, handlers, timers
<1>1. CASE UNCHANGED vars
  BY <1>1 DEF Joined, vars
<1>2. ASSUME NEW t \in Tabs, Page(t) PROVE Joined'
  <2>1. CASE OpenPage(t)
    BY <2>1 DEF TypeOK, Joined, OpenPage, Same
  <2>2. CASE CheckMembership(t)
    BY <2>2 DEF TypeOK, Joined, CheckMembership, Same
  <2>3. CASE JoinRoom(t)
    BY <2>3 DEF TypeOK, Joined, JoinRoom, Add, Same
  <2>4. CASE Drop(t)
    BY <2>4 DEF TypeOK, Joined, Drop, Same
  <2>5. CASE ClosePage(t)
    BY <2>5 DEF TypeOK, Joined, ClosePage, Same
  <2>6. CASE LeaveRoom(t)
    BY <2>6 DEF TypeOK, Joined, LeaveRoom, Remove, Same
  <2>7. ASSUME NEW s \in Sockets, Connect(t, s) PROVE Joined'
    BY <2>7 DEF TypeOK, Joined, Connect, Same
  <2>8. QED
    BY <1>2, <2>1, <2>2, <2>3, <2>4, <2>5, <2>6, <2>7 DEF Page
<1>3. ASSUME NEW s \in Sockets, Gateway(s) PROVE Joined'
  <2>1. CASE EnterRead(s)
    BY <2>1 DEF TypeOK, Joined, EnterRead, Same
  <2>2. CASE EnterRefused(s)
    BY <2>2 DEF TypeOK, Joined, EnterRefused, Same
  <2>3. CASE EnterCancel(s)
    BY <2>3 DEF TypeOK, Joined, EnterCancel, Same, Unset
  <2>4. CASE EnterJoin(s)
    BY <2>4 DEF TypeOK, Joined, EnterJoin, Lose
  <2>5. CASE Disconnect(s)
    BY <2>5 DEF TypeOK, Joined, Disconnect, Same, Leaving
  <2>6. CASE CheckOthers(s)
    BY <2>6 DEF TypeOK, Joined, CheckOthers, Same, Leaving
  <2>7. CASE CheckOthersFails(s)
    BY <2>7 DEF TypeOK, Joined, CheckOthersFails, Lose, Leaving
  <2>8. CASE Schedule(s)
    BY <2>8 DEF TypeOK, Joined, Schedule, Same, Armed, Leaving
  <2>9. CASE ScheduleFails(s)
    BY <2>9 DEF TypeOK, Joined, ScheduleFails, Same, Armed, Leaving
  <2>10. CASE RetryCheck(s)
    BY <2>10 DEF TypeOK, Joined, RetryCheck, Same, Leaving
  <2>11. CASE RetryRemoves(s)
    BY <2>11 DEF TypeOK, Joined, RetryRemoves, Removed, Remove, Lose, Leaving
  <2>12. CASE RetryFails(s)
    BY <2>12 DEF TypeOK, Joined, RetryFails, Same, Remove, Lose, Leaving
  <2>13. CASE LeaveEvent(s)
    BY <2>13 DEF TypeOK, Joined, LeaveEvent, Same, Leaving
  <2>14. CASE LeaveCancel(s)
    BY <2>14 DEF TypeOK, Joined, LeaveCancel, Same, Unset, Leaving
  <2>15. CASE LeaveRemoves(s)
    BY <2>15 DEF TypeOK, Joined, LeaveRemoves, Removed, Remove, Lose, Leaving
  <2>16. QED
    BY <1>3, <2>1, <2>2, <2>3, <2>4, <2>5, <2>6, <2>7, <2>8, <2>9,
       <2>10, <2>11, <2>12, <2>13, <2>14, <2>15 DEF Gateway
<1>4. ASSUME NEW r \in Runs, Grace(r) PROVE Joined'
  <2>1. CASE Claim(r)
    BY <2>1 DEF TypeOK, Joined, Claim, Same
  <2>2. CASE GraceCheck(r)
    BY <2>2 DEF TypeOK, Joined, GraceCheck, Same
  <2>3. CASE GraceRemoves(r)
    BY <2>3 DEF TypeOK, Joined, GraceRemoves, Removed, Remove, Lose
  <2>4. CASE GraceFails(r)
    BY <2>4 DEF TypeOK, Joined, GraceFails, Same, Remove
  <2>5. CASE Settle(r)
    BY <2>5 DEF TypeOK, Joined, Settle, Same, DeleteReserved, Unset
  <2>6. QED
    BY <1>4, <2>1, <2>2, <2>3, <2>4, <2>5 DEF Grace
<1>5. ASSUME NEW its \in SUBSET Sockets, Crash(its) PROVE Joined'
  BY <1>5 DEF TypeOK, Joined, Crash, Lose
<1>6. QED
  BY <1>1, <1>2, <1>3, <1>4, <1>5 DEF Next

(* The two facts about who keeps track of a participant, which need each   *)
(* other: the deletion of a timer relies on Settling, the claim of one on  *)
(* Tracked.                                                                *)
LEMMA TrackedStep == IInv /\ [Next]_vars => (Tracked /\ Settling)'
<1> SUFFICES ASSUME IInv, [Next]_vars PROVE (Tracked /\ Settling)'
  OBVIOUS
<1> USE DEF IInv, client, sockets, handlers, timers
<1>1. CASE UNCHANGED vars
  BY <1>1 DEF Tracked, Settling, Watched, Active, Entering, Handling, vars
<1>2. ASSUME NEW t \in Tabs, Page(t) PROVE (Tracked /\ Settling)'
  <2>1. CASE OpenPage(t)
    BY <2>1
    DEF TypeOK, Joined, Tracked, Settling, Watched, Active, Entering, Handling,
        OpenPage, Same
  <2>2. CASE CheckMembership(t)
    BY <2>2
    DEF TypeOK, Joined, Tracked, Settling, Watched, Active, Entering, Handling,
        CheckMembership, Same
  <2>3. CASE JoinRoom(t)
    BY <2>3
    DEF TypeOK, Joined, Tracked, Settling, Watched, Active, Entering, Handling,
        JoinRoom, Add, Same
  <2>4. CASE Drop(t)
    BY <2>4
    DEF TypeOK, Joined, Tracked, Settling, Watched, Active, Entering, Handling,
        Drop, Same
  <2>5. CASE ClosePage(t)
    BY <2>5
    DEF TypeOK, Joined, Tracked, Settling, Watched, Active, Entering, Handling,
        ClosePage, Same
  <2>6. CASE LeaveRoom(t)
    BY <2>6
    DEF TypeOK, Joined, Tracked, Settling, Watched, Active, Entering, Handling,
        LeaveRoom, Remove, Same
  <2>7. ASSUME NEW s \in Sockets, Connect(t, s) PROVE (Tracked /\ Settling)'
    BY <2>7
    DEF TypeOK, Joined, Tracked, Settling, Watched, Active, Entering, Handling,
        Connect, Same
  <2>8. QED
    BY <1>2, <2>1, <2>2, <2>3, <2>4, <2>5, <2>6, <2>7 DEF Page
<1>3. ASSUME NEW s \in Sockets, Gateway(s) PROVE (Tracked /\ Settling)'
  <2>1. CASE EnterRead(s)
    BY <2>1
    DEF TypeOK, Joined, Tracked, Settling, Watched, Active, Entering, Handling,
        EnterRead, Same
  <2>2. CASE EnterRefused(s)
    BY <2>2
    DEF TypeOK, Joined, Tracked, Settling, Watched, Active, Entering, Handling,
        EnterRefused, Same
  <2>3. CASE EnterCancel(s)
    BY <2>3
    DEF TypeOK, Joined, Tracked, Settling, Watched, Active, Entering, Handling,
        EnterCancel, Same, Unset
  <2>4. CASE EnterJoin(s)
    BY <2>4
    DEF TypeOK, Joined, Tracked, Settling, Watched, Active, Entering, Handling,
        EnterJoin, Lose
  <2>5. CASE Disconnect(s)
    BY <2>5
    DEF TypeOK, Joined, Tracked, Settling, Watched, Active, Entering, Handling,
        Disconnect, Same, Leaving
  <2>6. CASE CheckOthers(s)
    BY <2>6
    DEF TypeOK, Joined, Tracked, Settling, Watched, Active, Entering, Handling,
        CheckOthers, Same, Leaving
  <2>7. CASE CheckOthersFails(s)
    BY <2>7
    DEF TypeOK, Joined, Tracked, Settling, Watched, Active, Entering, Handling,
        CheckOthersFails, Lose, Leaving
  <2>8. CASE Schedule(s)
    BY <2>8, RunsAssumption
    DEF TypeOK, Joined, Tracked, Settling, Watched, Active, Entering, Handling,
        Schedule, Same, Armed, Leaving
  <2>9. CASE ScheduleFails(s)
    BY <2>9, RunsAssumption
    DEF TypeOK, Joined, Tracked, Settling, Watched, Active, Entering, Handling,
        ScheduleFails, Same, Armed, Leaving
  <2>10. CASE RetryCheck(s)
    BY <2>10
    DEF TypeOK, Joined, Tracked, Settling, Watched, Active, Entering, Handling,
        RetryCheck, Same, Leaving
  <2>11. CASE RetryRemoves(s)
    BY <2>11
    DEF TypeOK, Joined, Tracked, Settling, Watched, Active, Entering, Handling,
        RetryRemoves, Removed, Remove, Lose, Leaving
  <2>12. CASE RetryFails(s)
    BY <2>12
    DEF TypeOK, Joined, Tracked, Settling, Watched, Active, Entering, Handling,
        RetryFails, Same, Remove, Lose, Leaving
  <2>13. CASE LeaveEvent(s)
    BY <2>13
    DEF TypeOK, Joined, Tracked, Settling, Watched, Active, Entering, Handling,
        LeaveEvent, Same, Leaving
  <2>14. CASE LeaveCancel(s)
    BY <2>14
    DEF TypeOK, Joined, Tracked, Settling, Watched, Active, Entering, Handling,
        LeaveCancel, Same, Unset, Leaving
  <2>15. CASE LeaveRemoves(s)
    BY <2>15
    DEF TypeOK, Joined, Tracked, Settling, Watched, Active, Entering, Handling,
        LeaveRemoves, Removed, Remove, Lose, Leaving
  <2>16. QED
    BY <1>3, <2>1, <2>2, <2>3, <2>4, <2>5, <2>6, <2>7, <2>8, <2>9,
       <2>10, <2>11, <2>12, <2>13, <2>14, <2>15 DEF Gateway
<1>4. ASSUME NEW r \in Runs, Grace(r) PROVE (Tracked /\ Settling)'
  <2>1. CASE Claim(r)
    BY <2>1, RunsAssumption
    DEF TypeOK, Joined, Tracked, Settling, Watched, Active, Entering, Handling,
        Claim, Same
  <2>2. CASE GraceCheck(r)
    BY <2>2, RunsAssumption
    DEF TypeOK, Joined, Tracked, Settling, Watched, Active, Entering, Handling,
        GraceCheck, Same
  <2>3. CASE GraceRemoves(r)
    BY <2>3, RunsAssumption
    DEF TypeOK, Joined, Tracked, Settling, Watched, Active, Entering, Handling,
        GraceRemoves, Removed, Remove, Lose
  <2>4. CASE GraceFails(r)
    BY <2>4, RunsAssumption
    DEF TypeOK, Joined, Tracked, Settling, Watched, Active, Entering, Handling,
        GraceFails, Same, Remove
  <2>5. CASE Settle(r)
    BY <2>5, RunsAssumption
    DEF TypeOK, Joined, Tracked, Settling, Watched, Active, Entering, Handling,
        Settle, Same, DeleteReserved, Unset
  <2>6. QED
    BY <1>4, <2>1, <2>2, <2>3, <2>4, <2>5 DEF Grace
<1>5. ASSUME NEW its \in SUBSET Sockets, Crash(its) PROVE (Tracked /\ Settling)'
  BY <1>5
    DEF TypeOK, Joined, Tracked, Settling, Watched, Active, Entering, Handling,
        Crash, Lose
<1>6. QED
  BY <1>1, <1>2, <1>3, <1>4, <1>5 DEF Next

(* A participant who has been connected is never forgotten by the gateway  *)
(* (handleEnter, handleDisconnect, the grace timer), however many tabs,    *)
(* connections and late handlers there are, except in the recorded ways.   *)
THEOREM NeverForgotten == Spec => []Tracked
<1>1. Init => IInv
  BY Initial
<1>2. IInv /\ [Next]_vars => IInv'
  BY TypeStep, JoinedStep, TrackedStep DEF IInv
<1>3. IInv => Tracked
  BY DEF IInv
<1>4. QED
  BY <1>1, <1>2, <1>3, PTL DEF Spec

-----------------------------------------------------------------------------
(* The part of OfflineRemoved that does not depend on fairness. *)

(* Only a page that is in the room has a connection. *)
HeldByPages == \A t \in Tabs : held[t] # NoSocket => page[t] = "in"

(* A page that goes takes its connection with it. *)
LEMMA HeldStep == TypeOK /\ HeldByPages /\ [Next]_vars => HeldByPages'
<1> SUFFICES ASSUME TypeOK, HeldByPages, [Next]_vars PROVE HeldByPages'
  OBVIOUS
<1> USE DEF client, sockets, handlers, timers
<1>1. ASSUME UNCHANGED <<page, held>> PROVE HeldByPages'
  BY <1>1 DEF HeldByPages
<1>2. ASSUME NEW t \in Tabs, Page(t) PROVE HeldByPages'
  BY <1>2 DEF Page, OpenPage, CheckMembership, JoinRoom, Connect, Drop, ClosePage, LeaveRoom,
              HeldByPages, TypeOK
<1>3. ASSUME NEW s \in Sockets, Gateway(s) PROVE HeldByPages'
  <2>1. CASE Disconnect(s)
    BY <2>1 DEF Disconnect, HeldByPages, TypeOK
  <2>2. CASE ~Disconnect(s)
    BY <1>1, <1>3, <2>2
    DEF Gateway, EnterRead, EnterRefused, EnterCancel, EnterJoin, CheckOthers, CheckOthersFails,
        Schedule, ScheduleFails, RetryCheck, RetryRemoves, RetryFails, LeaveEvent, LeaveCancel,
        LeaveRemoves
  <2>3. QED
    BY <2>1, <2>2
<1>4. ASSUME NEW r \in Runs, Grace(r) PROVE HeldByPages'
  BY <1>1, <1>4 DEF Grace, Claim, GraceCheck, GraceRemoves, GraceFails, Settle
<1>5. ASSUME NEW its \in SUBSET Sockets, Crash(its) PROVE HeldByPages'
  BY <1>5 DEF Crash, HeldByPages, TypeOK
<1>6. CASE UNCHANGED vars
  BY <1>1, <1>6 DEF vars
<1>7. QED
  BY <1>2, <1>3, <1>4, <1>5, <1>6 DEF Next

(* What the gateway, or a poll, has to do next for a user who is gone: to  *)
(* notice a client that is gone, to go on with an entry or a disconnection *)
(* or to claim the grace timer.                                            *)
ToDo ==
  \/ \E s \in open : \A t \in Tabs : held[t] # s
  \/ Entering \/ Handling \/ timer.set

(* Whoever has closed the last page and is still a participant is          *)
(* somebody's business: there is a step left that leads to their removal   *)
(* (handleDisconnect, the ping timeout, the grace timer), unless the       *)
(* gateway has lost track of them in a recorded way.                       *)
THEOREM GoneIsNoticed ==
  Spec => [](member /\ seen /\ Offline /\ ~lost => ToDo)
<1>1. Init => HeldByPages
  BY DEF Init, HeldByPages
<1>2. ASSUME TypeOK, HeldByPages, Tracked, member, seen, Offline, ~lost PROVE ToDo
  <2>1. CASE Active
    <3>1. PICK s \in open : TRUE
      BY <1>2, <2>1 DEF Active, TypeOK
    <3>2. s # NoSocket
      BY <1>2, SocketsAssumption DEF TypeOK
    <3>3. \A t \in Tabs : held[t] # s
      BY <1>2, <3>2 DEF Offline, HeldByPages
    <3>4. QED
      BY <3>3 DEF ToDo
  <2>2. CASE ~Active
    BY <1>2, <2>2 DEF Tracked, ToDo
  <2>3. QED
    BY <2>1, <2>2
<1>3. TypeOK /\ HeldByPages /\ Tracked
        => (member /\ seen /\ Offline /\ ~lost => ToDo)
  BY <1>2
<1>4. QED
  BY <1>1, <1>3, HeldStep, TypeCorrect, NeverForgotten, PTL DEF Spec
=============================================================================
