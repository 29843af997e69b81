--------------------------- MODULE RoomLockProofs ---------------------------
(***************************************************************************)
(* RoomLock for every set of calls, every TTL, heartbeat and budget: type  *)
(* correctness, mutual exclusion of valid leases, and that the record      *)
(* behaves like the serial store.                                          *)
(*                                                                         *)
(* The inductive invariant has five parts.  Shape says which commands and  *)
(* lease fields belong to which stage of a call.  LeaseInv is the argument *)
(* about time: what a call believes about its lease, or will believe when  *)
(* the reply on its way arrives, never exceeds what Redis has.  FenceInv   *)
(* says that the fencing tokens in use are distinct and that none is newer *)
(* than the counter.  SnapInv follows: a write that would be accepted was  *)
(* computed from the present record.  AckInv ties outcomes to the record.  *)
(***************************************************************************)
EXTENDS RoomLock, TLAPS

Shape ==
  /\ \A c \in Calls : left[c] > 0 => pc[c] \in Holding
  /\ \A c \in Calls : renew[c] # "none" => pc[c] \in Holding
  /\ \A m \in net :
       /\ m = Command(m.kind, m.call)
       /\ m.kind = "acquire" => pc[m.call] = "asked"
       /\ m.kind = "write" => pc[m.call] = "writing"
       /\ m.kind = "extend" => renew[m.call] = "sent"
       /\ m.kind = "release" => pc[m.call] = "ending"
  /\ \A m \in late : m.kind \in {"write", "release"} => pc[m.call] \in Over

LeaseInv ==
  /\ lock.owner = None <=> lock.ttl = 0
  /\ \A c \in Calls : left[c] > 0 => lock.owner = c /\ left[c] <= lock.ttl
  /\ \A c \in Calls :
       (pc[c] = "granted" \/ renew[c] = "extended") /\ age[c] < LockTtl
         => lock.owner = c /\ LockTtl - age[c] <= lock.ttl

FenceInv ==
  /\ \A c \in Calls : HasToken(c) => token[c] <= fence
  /\ \A m \in late : m.kind = "write" => m.token <= fence
  /\ \A c, d \in Calls : HasToken(c) /\ HasToken(d) /\ token[c] = token[d] => c = d
  /\ \A c \in Calls, m \in late : HasToken(c) /\ m.kind = "write" => m.token # token[c]
  /\ \A m, n \in late :
       m.kind = "write" /\ n.kind = "write" /\ m.token = n.token => m = n

SnapInv ==
  /\ \A c \in Calls : token[c] = fence =>
       /\ pc[c] = "read" => store = snap[c]
       /\ pc[c] = "writing" => store \in {snap[c], snap[c] \cup {c}}
       /\ pc[c] = "stored" => store = snap[c] \cup {c}
       /\ pc[c] # "rejected"
  /\ \A m \in late : m.kind = "write" /\ m.token = fence =>
       store \in {m.base, m.base \cup {m.call}}

AckInv ==
  /\ \A c \in Calls : pc[c] \notin Over => result[c] = "none"
  /\ \A c \in Calls : pc[c] = "stored" \/ result[c] = "ok" => c \in store

IInv == Shape /\ LeaseInv /\ FenceInv /\ SnapInv /\ AckInv

-----------------------------------------------------------------------------
(* Type correctness. *)

(* A clock that counts up to a limit stays within it. *)
LEMMA OlderType ==
  ASSUME NEW n \in Nat, NEW limit \in Nat, n <= limit
  PROVE  Older(n, limit) \in 0..limit
  BY DEF Older

(* The commands a call sends are commands. *)
LEMMA CommandType ==
  ASSUME TypeOK, NEW c \in Calls, NEW k \in Kinds
  PROVE  Command(k, c) \in Cmd
  BY DEF TypeOK, Command, Plain, WriteOf, Cmd, Kinds

(* Every step keeps every variable in its type. *)
LEMMA TypeStep == TypeOK /\ [Next]_vars => TypeOK'
<1> SUFFICES ASSUME TypeOK, [Next]_vars PROVE TypeOK'
  OBVIOUS
<1> USE TimesAssumption, NoneAssumption, LateAssumption
        DEF TypeOK, Holding, Waiting, Over, Goto, redis, lease
<1>1. ASSUME NEW c \in Calls, Acquire(c) PROVE TypeOK'
  <2>1. CASE Begin(c) BY <2>1 DEF Begin
  <2>2. CASE SendAcquire(c)
    BY <2>2, CommandType DEF SendAcquire, Send, Kinds
  <2>3. CASE AcquireBusy(c) BY <2>3 DEF AcquireBusy
  <2>4. CASE GiveUp(c) BY <2>4 DEF GiveUp, Settled
  <2>5. CASE Acquired(c) BY <2>5 DEF Acquired, Settled
  <2> QED BY <1>1, <2>1, <2>2, <2>3, <2>4, <2>5 DEF Acquire
<1>2. ASSUME NEW c \in Calls, NEW r \in {"ok", "error"}, EndTask(c, r) PROVE TypeOK'
  BY <1>2, CommandType DEF EndTask, Drop, Kinds
<1>3. ASSUME NEW c \in Calls, Task(c) PROVE TypeOK'
  <2>1. CASE Read(c) BY <2>1 DEF Read
  <2>2. CASE Write(c) BY <2>2, CommandType DEF Write, Send, Kinds
  <2>3. CASE ReadFails(c) \/ WriteBlocked(c) \/ Finish(c)
    BY <2>3, <1>2 DEF ReadFails, WriteBlocked, Finish
  <2> QED BY <1>3, <2>1, <2>2, <2>3 DEF Task
<1>4. ASSUME NEW c \in Calls, Monitor(c) PROVE TypeOK'
  <2>1. CASE MonitorExpired(c) BY <2>1 DEF MonitorExpired
  <2>2. CASE MonitorRenew(c) BY <2>2, CommandType DEF MonitorRenew, Send, Kinds
  <2>3. CASE Renewed(c) BY <2>3 DEF Renewed
  <2>4. CASE RenewNotHeld(c) BY <2>4 DEF RenewNotHeld
  <2> QED BY <1>4, <2>1, <2>2, <2>3, <2>4 DEF Monitor
<1>5. ASSUME NEW c \in Calls, Serve(c) PROVE TypeOK'
  <2>1. CASE ServeAcquire(c) BY <2>1 DEF ServeAcquire, Held
  <2>2. CASE ServeWrite(c)
    BY <2>2 DEF ServeWrite, Apply, Command, WriteOf
  <2>3. CASE ServeExtend(c) BY <2>3 DEF ServeExtend, Held
  <2>4. CASE ServeRelease(c) BY <2>4 DEF ServeRelease, FreeIfMine, Free
  <2> QED BY <1>5, <2>1, <2>2, <2>3, <2>4 DEF Serve
<1>6. ASSUME NEW c \in Calls, Fails(c) PROVE TypeOK'
  <2>1. CASE AcquireFails(c)
    <3>1. net' \in SUBSET Cmd /\ late' \in SUBSET Cmd
      BY <2>1 DEF AcquireFails, Abandon, Drop
    <3>2. CASE Goto(c, "trying") /\ age' = [age EXCEPT ![c] = 0]
               /\ UNCHANGED <<waited, resent, result>>
      BY <2>1, <3>1, <3>2 DEF AcquireFails
    <3>3. CASE Goto(c, "done") /\ result' = [result EXCEPT ![c] = "error"] /\ Settled(c)
      BY <2>1, <3>1, <3>3 DEF AcquireFails, Settled
    <3> QED BY <2>1, <3>2, <3>3 DEF AcquireFails
  <2>2. CASE WriteFails(c) BY <2>2, <1>2 DEF WriteFails
  <2>3. CASE RenewFails(c) BY <2>3 DEF RenewFails, Abandon, Drop
  <2>4. CASE ReleaseFails(c) BY <2>4 DEF ReleaseFails, Abandon, Drop
  <2> QED BY <1>6, <2>1, <2>2, <2>3, <2>4 DEF Fails
<1>7. ASSUME NEW c \in Calls, Resend(c) PROVE TypeOK'
  BY <1>7, CommandType DEF Resend, Send, Kinds
<1>8. ASSUME NEW c \in Calls, Crash(c) PROVE TypeOK'
  BY <1>8 DEF Crash, Drop, Settled
<1>9. CASE ServeLate
  BY <1>9 DEF ServeLate, Cmd, Held, Free, FreeIfMine, Apply
<1>10. CASE Tick
  <2>1. lock' \in [owner : Calls \cup {None}, ttl : 0..LockTtl]
    BY <1>10 DEF Tick, Aged, Free
  <2>2. left' \in [Calls -> 0..LockTtl]
    BY <1>10 DEF Tick
  <2>3. age' \in [Calls -> 0..LockTtl]
    <3>1. \A c \in Calls : Older(age[c], LockTtl) \in 0..LockTtl
      BY OlderType
    <3> QED BY <1>10, <3>1 DEF Tick
  <2>4. waited' \in [Calls -> 0..AcquireBudget]
    <3>1. \A c \in Calls : Older(waited[c], AcquireBudget) \in 0..AcquireBudget
      BY OlderType
    <3> QED BY <1>10, <3>1 DEF Tick
  <2> QED BY <1>10, <2>1, <2>2, <2>3, <2>4 DEF Tick
<1>11. CASE FenceExpires BY <1>11 DEF FenceExpires
<1>12. CASE UNCHANGED vars BY <1>12 DEF vars
<1> QED
  BY <1>1, <1>3, <1>4, <1>5, <1>6, <1>7, <1>8, <1>9, <1>10, <1>11, <1>12 DEF Next

(* Every variable stays in its type, for any number of calls. *)
THEOREM TypeCorrect == Spec => []TypeOK
<1>1. Init => TypeOK
  BY TimesAssumption, NoneAssumption
     DEF Init, TypeOK, Free, Holding, Waiting, Over
<1> QED BY <1>1, TypeStep, PTL DEF Spec
-----------------------------------------------------------------------------
(* Each part of the invariant is kept by every step.                       *)

(* What ends the task of a call, and with which outcome. *)
TaskEnds(c) ==
  /\ pc[c] \in Holding
  /\ \E r \in {"ok", "error"} :
       EndTask(c, r) /\ (r = "ok" => pc[c] = "stored")

(* The steps of Next, in the groups the conjuncts of the invariant tell    *)
(* apart.                                                                  *)
LEMMA StepCases ==
  ASSUME [Next]_vars
  PROVE  \/ \E c \in Calls :
              \/ Begin(c) \/ SendAcquire(c) \/ AcquireBusy(c) \/ GiveUp(c)
              \/ Acquired(c) \/ Read(c) \/ Write(c) \/ TaskEnds(c)
              \/ MonitorExpired(c) \/ MonitorRenew(c) \/ Renewed(c) \/ RenewNotHeld(c)
              \/ ServeAcquire(c) \/ ServeWrite(c) \/ ServeExtend(c) \/ ServeRelease(c)
              \/ AcquireFails(c) \/ RenewFails(c) \/ ReleaseFails(c) \/ Resend(c)
              \/ Crash(c)
         \/ ServeLate \/ Tick \/ FenceExpires \/ UNCHANGED vars
<1>1. ASSUME NEW c \in Calls, ReadFails(c) \/ WriteBlocked(c) \/ WriteFails(c) \/ Finish(c)
      PROVE  TaskEnds(c)
  BY <1>1 DEF ReadFails, WriteBlocked, WriteFails, Finish, TaskEnds, Holding
<1> QED
  BY <1>1 DEF Next, Acquire, Task, Monitor, Serve, Fails

(* An accepted write, awaited or late, only adds its own call to the record. *)
LEMMA AcceptedAdds ==
  ASSUME TypeOK, Shape, FenceInv, SnapInv, NEW m, m.kind = "write",
         m \in late \/ (m.call \in Calls /\ m \in net), Accepted(m)
  PROVE  m.token = fence /\ m.base \cup {m.call} = store \cup {m.call}
<1>1. CASE m \in late
  <2>1. m.token <= fence /\ m.token \in Nat
    BY <1>1 DEF TypeOK, FenceInv, Cmd
  <2> QED BY <1>1, <2>1 DEF SnapInv, Accepted, TypeOK
<1>2. CASE m.call \in Calls /\ m \in net
  <2>1. m = WriteOf(m.call) /\ pc[m.call] = "writing"
    BY <1>2 DEF Shape, Command
  <2>2. token[m.call] <= fence /\ token[m.call] \in Nat
    BY <1>2, <2>1 DEF FenceInv, HasToken, Holding, TypeOK
  <2>3. m.token = token[m.call] /\ m.base = snap[m.call]
    BY <2>1 DEF WriteOf
  <2> QED BY <1>2, <2>1, <2>2, <2>3 DEF SnapInv, Accepted, TypeOK
<1> QED BY <1>1, <1>2

(* Only the execution of a write touches the record. *)
LEMMA StoreSteps ==
  ASSUME [Next]_vars
  PROVE  (\E c \in Calls : ServeWrite(c)) \/ ServeLate \/ UNCHANGED store
<1>1. ASSUME NEW c \in Calls,
             \/ Begin(c) \/ SendAcquire(c) \/ AcquireBusy(c) \/ GiveUp(c)
             \/ Acquired(c) \/ Read(c) \/ Write(c) \/ TaskEnds(c)
      PROVE  UNCHANGED store
  BY <1>1 DEF redis, Begin, SendAcquire, AcquireBusy, GiveUp, Acquired, Read, Write,
              TaskEnds, EndTask
<1>2. ASSUME NEW c \in Calls,
             \/ MonitorExpired(c) \/ MonitorRenew(c) \/ Renewed(c) \/ RenewNotHeld(c)
      PROVE  UNCHANGED store
  BY <1>2 DEF redis, MonitorExpired, MonitorRenew, Renewed, RenewNotHeld
<1>3. ASSUME NEW c \in Calls,
             \/ ServeAcquire(c) \/ ServeExtend(c) \/ ServeRelease(c)
             \/ AcquireFails(c) \/ RenewFails(c) \/ ReleaseFails(c)
             \/ Resend(c) \/ Crash(c)
      PROVE  UNCHANGED store
  BY <1>3 DEF redis, ServeAcquire, ServeExtend, ServeRelease, AcquireFails,
              RenewFails, ReleaseFails, Resend, Crash
<1>4. ASSUME Tick \/ FenceExpires \/ UNCHANGED vars PROVE UNCHANGED store
  BY <1>4 DEF Tick, FenceExpires, vars
<1> QED BY StepCases, <1>1, <1>2, <1>3, <1>4

(* No step takes a call out of the record. *)
LEMMA StoreGrows ==
  ASSUME TypeOK, Shape, FenceInv, SnapInv, [Next]_vars
  PROVE  store \subseteq store'
<1>1. ASSUME NEW c \in Calls, ServeWrite(c) PROVE store \subseteq store'
  <2> DEFINE m == Command("write", c)
  <2>1. m.kind = "write" /\ m.call = c /\ m \in net
    BY <1>1 DEF ServeWrite, Command, WriteOf
  <2> QED BY <1>1, <2>1, AcceptedAdds DEF ServeWrite, Apply
<1>2. CASE ServeLate
  BY <1>2, AcceptedAdds DEF ServeLate, Apply, redis
<1>3. CASE UNCHANGED store
  BY <1>3
<1> QED
  BY <1>1, <1>2, <1>3, StoreSteps


(* What is in flight for a call fits where the call is. *)
LEMMA ShapeStep ==
  ASSUME TypeOK, Shape, [Next]_vars
  PROVE  Shape'
<1> USE TimesAssumption, NoneAssumption DEF TypeOK, Shape, TaskEnds, Holding, Waiting, Over, Goto, redis, lease, Cmd, Kinds, WriteOf, Command, Plain
<1>1. ASSUME NEW c \in Calls, Begin(c) PROVE Shape'
  BY <1>1 DEF Begin
<1>2. ASSUME NEW c \in Calls, SendAcquire(c) PROVE Shape'
  BY <1>2 DEF SendAcquire, Send, Command, Plain
<1>3. ASSUME NEW c \in Calls, AcquireBusy(c) PROVE Shape'
  BY <1>3 DEF AcquireBusy
<1>4. ASSUME NEW c \in Calls, GiveUp(c) PROVE Shape'
  BY <1>4 DEF GiveUp, Settled
<1>5. ASSUME NEW c \in Calls, Acquired(c) PROVE Shape'
  BY <1>5 DEF Acquired, Settled
<1>6. ASSUME NEW c \in Calls, Read(c) PROVE Shape'
  BY <1>6 DEF Read
<1>7. ASSUME NEW c \in Calls, Write(c) PROVE Shape'
  BY <1>7 DEF Write, Send, Command
<1>8. ASSUME NEW c \in Calls, TaskEnds(c) PROVE Shape'
  BY <1>8 DEF TaskEnds, EndTask, Drop, Command, Plain
<1>9. ASSUME NEW c \in Calls, MonitorExpired(c) PROVE Shape'
  BY <1>9 DEF MonitorExpired
<1>10. ASSUME NEW c \in Calls, MonitorRenew(c) PROVE Shape'
  <2>1. /\ UNCHANGED <<pc, left, late, token, snap>>
        /\ net' = net \cup {Plain("extend", c)}
        /\ renew' = [renew EXCEPT ![c] = "sent"]
        /\ pc[c] \in Holding
    BY <1>10 DEF MonitorRenew, Send, LeaseValid
  <2>2. \A d \in Calls : renew'[d] # "none" => pc[d] \in Holding
    BY <2>1
  <2>3. ASSUME NEW m \in net'
        PROVE  /\ m = Command(m.kind, m.call)'
               /\ m.kind = "acquire" => pc[m.call] = "asked"
               /\ m.kind = "write" => pc[m.call] = "writing"
               /\ m.kind = "extend" => renew'[m.call] = "sent"
               /\ m.kind = "release" => pc[m.call] = "ending"
    <3>1. CASE m \in net
      BY <2>1, <3>1
    <3>2. CASE m = Plain("extend", c)
      BY <2>1, <3>2
    <3> QED BY <2>1, <2>3, <3>1, <3>2
  <2> QED BY <2>1, <2>2, <2>3
<1>11. ASSUME NEW c \in Calls, Renewed(c) PROVE Shape'
  BY <1>11 DEF Renewed
<1>12. ASSUME NEW c \in Calls, RenewNotHeld(c) PROVE Shape'
  BY <1>12 DEF RenewNotHeld
<1>13. ASSUME NEW c \in Calls, ServeAcquire(c) PROVE Shape'
  BY <1>13 DEF ServeAcquire, Command, Plain, Held
<1>14. ASSUME NEW c \in Calls, ServeWrite(c) PROVE Shape'
  BY <1>14 DEF ServeWrite, Apply, Accepted, Command
<1>15. ASSUME NEW c \in Calls, ServeExtend(c) PROVE Shape'
  BY <1>15 DEF ServeExtend, Command, Plain, Held
<1>16. ASSUME NEW c \in Calls, ServeRelease(c) PROVE Shape'
  BY <1>16 DEF ServeRelease, Command, Plain, FreeIfMine, Free
<1>17. ASSUME NEW c \in Calls, AcquireFails(c) PROVE Shape'
  <2>1. /\ UNCHANGED <<left, renew, snap>>
        /\ net' = net \ {Plain("acquire", c)}
        /\ late' \subseteq late \cup {Plain("acquire", c)}
        /\ token' = [token EXCEPT ![c] = 0]
        /\ pc[c] \in {"asked", "granted", "busy"}
        /\ pc' = [pc EXCEPT ![c] = "trying"] \/ pc' = [pc EXCEPT ![c] = "done"]
    BY <1>17 DEF AcquireFails, Abandon, Drop, Settled
  <2>2. ASSUME NEW m \in net'
        PROVE  /\ m = Command(m.kind, m.call)'
               /\ m.kind = "acquire" => pc'[m.call] = "asked"
               /\ m.kind = "write" => pc'[m.call] = "writing"
               /\ m.kind = "extend" => renew'[m.call] = "sent"
               /\ m.kind = "release" => pc'[m.call] = "ending"
    <3>1. m.call # c
      BY <2>1, <2>2
    <3> QED BY <2>1, <2>2, <3>1
  <2>3. ASSUME NEW m \in late', m.kind \in {"write", "release"}
        PROVE  pc'[m.call] \in Over
    BY <2>1, <2>3
  <2> QED BY <2>1, <2>2, <2>3
<1>18. ASSUME NEW c \in Calls, RenewFails(c) PROVE Shape'
  BY <1>18 DEF RenewFails, Abandon, Drop, Command, Plain
<1>19. ASSUME NEW c \in Calls, ReleaseFails(c) PROVE Shape'
  BY <1>19 DEF ReleaseFails, Abandon, Drop, Command, Plain
<1>20. ASSUME NEW c \in Calls, Resend(c) PROVE Shape'
  BY <1>20 DEF Resend, Send, Command, Plain
<1>21. ASSUME NEW c \in Calls, Crash(c) PROVE Shape'
  BY <1>21 DEF Crash, Drop, Command, Plain, Settled
<1>22. CASE ServeLate
  BY <1>22 DEF ServeLate, Held, Free, FreeIfMine, Apply, Accepted
<1>23. CASE Tick
  BY <1>23 DEF Tick, Aged, Free, Older
<1>24. CASE FenceExpires
  BY <1>24 DEF FenceExpires
<1>25. CASE UNCHANGED vars
  BY <1>25 DEF vars
<1> QED
  BY StepCases, <1>1, <1>2, <1>3, <1>4, <1>5, <1>6, <1>7, <1>8, <1>9, <1>10, <1>11, <1>12, <1>13, <1>14, <1>15, <1>16, <1>17, <1>18, <1>19, <1>20, <1>21, <1>22, <1>23, <1>24, <1>25

(* A lease believed valid stays backed by the key. *)
LEMMA LeaseStep ==
  ASSUME TypeOK, Shape, LeaseInv, [Next]_vars
  PROVE  LeaseInv'
<1> USE TimesAssumption, NoneAssumption DEF TypeOK, Shape, LeaseInv, LeaseValid, TaskEnds, Holding, Waiting, Over, Goto, redis, lease, Cmd, Kinds, WriteOf, Command, Plain
<1>1. ASSUME NEW c \in Calls, Begin(c) PROVE LeaseInv'
  BY <1>1 DEF Begin
<1>2. ASSUME NEW c \in Calls, SendAcquire(c) PROVE LeaseInv'
  BY <1>2 DEF SendAcquire, Send, Command, Plain
<1>3. ASSUME NEW c \in Calls, AcquireBusy(c) PROVE LeaseInv'
  BY <1>3 DEF AcquireBusy
<1>4. ASSUME NEW c \in Calls, GiveUp(c) PROVE LeaseInv'
  BY <1>4 DEF GiveUp, Settled
<1>5. ASSUME NEW c \in Calls, Acquired(c) PROVE LeaseInv'
  BY <1>5 DEF Acquired, Settled
<1>6. ASSUME NEW c \in Calls, Read(c) PROVE LeaseInv'
  BY <1>6 DEF Read
<1>7. ASSUME NEW c \in Calls, Write(c) PROVE LeaseInv'
  BY <1>7 DEF Write, Send, Command
<1>8. ASSUME NEW c \in Calls, TaskEnds(c) PROVE LeaseInv'
  BY <1>8 DEF TaskEnds, EndTask, Drop, Command, Plain
<1>9. ASSUME NEW c \in Calls, MonitorExpired(c) PROVE LeaseInv'
  BY <1>9 DEF MonitorExpired
<1>10. ASSUME NEW c \in Calls, MonitorRenew(c) PROVE LeaseInv'
  BY <1>10 DEF MonitorRenew, Send, Command, Plain
<1>11. ASSUME NEW c \in Calls, Renewed(c) PROVE LeaseInv'
  BY <1>11 DEF Renewed
<1>12. ASSUME NEW c \in Calls, RenewNotHeld(c) PROVE LeaseInv'
  BY <1>12 DEF RenewNotHeld
<1>13. ASSUME NEW c \in Calls, ServeAcquire(c) PROVE LeaseInv'
  BY <1>13 DEF ServeAcquire, Command, Plain, Held
<1>14. ASSUME NEW c \in Calls, ServeWrite(c) PROVE LeaseInv'
  BY <1>14 DEF ServeWrite, Apply, Accepted, Command
<1>15. ASSUME NEW c \in Calls, ServeExtend(c) PROVE LeaseInv'
  BY <1>15 DEF ServeExtend, Command, Plain, Held
<1>16. ASSUME NEW c \in Calls, ServeRelease(c) PROVE LeaseInv'
  <2>1. pc[c] = "ending" /\ left[c] = 0 /\ renew[c] = "none"
    BY <1>16 DEF ServeRelease
  <2>2. /\ UNCHANGED <<left, renew, age>>
        /\ pc' = [pc EXCEPT ![c] = "done"]
        /\ lock' = lock \/ (lock.owner = c /\ lock' = Free)
    BY <1>16 DEF ServeRelease, FreeIfMine
  <2>3. CASE lock' = lock
    BY <2>1, <2>2, <2>3
  <2>4. CASE lock.owner = c /\ lock' = Free
    BY <2>1, <2>2, <2>4 DEF Free
  <2> QED BY <2>2, <2>3, <2>4
<1>17. ASSUME NEW c \in Calls, AcquireFails(c) PROVE LeaseInv'
  BY <1>17 DEF AcquireFails, Abandon, Drop, Command, Plain, Settled
<1>18. ASSUME NEW c \in Calls, RenewFails(c) PROVE LeaseInv'
  BY <1>18 DEF RenewFails, Abandon, Drop, Command, Plain
<1>19. ASSUME NEW c \in Calls, ReleaseFails(c) PROVE LeaseInv'
  BY <1>19 DEF ReleaseFails, Abandon, Drop, Command, Plain
<1>20. ASSUME NEW c \in Calls, Resend(c) PROVE LeaseInv'
  BY <1>20 DEF Resend, Send, Command, Plain
<1>21. ASSUME NEW c \in Calls, Crash(c) PROVE LeaseInv'
  BY <1>21 DEF Crash, Drop, Command, Plain, Settled
<1>22. CASE ServeLate
  BY <1>22 DEF ServeLate, Held, Free, FreeIfMine, Apply, Accepted
<1>23. CASE Tick
  BY <1>23 DEF Tick, Aged, Free, Older
<1>24. CASE FenceExpires
  BY <1>24 DEF FenceExpires
<1>25. CASE UNCHANGED vars
  BY <1>25 DEF vars
<1> QED
  BY StepCases, <1>1, <1>2, <1>3, <1>4, <1>5, <1>6, <1>7, <1>8, <1>9, <1>10, <1>11, <1>12, <1>13, <1>14, <1>15, <1>16, <1>17, <1>18, <1>19, <1>20, <1>21, <1>22, <1>23, <1>24, <1>25

(* A step that hands out no token and gives no write up.                   *)
LEMMA FenceFrame ==
  ASSUME TypeOK, FenceInv, fence' = fence,
         \A m \in late' : m.kind = "write" => m \in late,
         \A c \in Calls : HasToken(c)' => HasToken(c) /\ token'[c] = token[c]
  PROVE  FenceInv'
BY DEF FenceInv, TypeOK

(* The tokens handed out stay unique and below the counter. *)
LEMMA FenceStep ==
  ASSUME TypeOK, Shape, FenceInv, [Next]_vars
  PROVE  FenceInv'
<1> USE TimesAssumption, NoneAssumption DEF TypeOK, Shape, FenceInv, HasToken, TaskEnds, Holding, Waiting, Over, Goto, redis, lease, Cmd, Kinds, WriteOf, Command, Plain
<1>1. ASSUME NEW c \in Calls, Begin(c) PROVE FenceInv'
  BY <1>1 DEF Begin
<1>2. ASSUME NEW c \in Calls, SendAcquire(c) PROVE FenceInv'
  BY <1>2 DEF SendAcquire, Send, Command, Plain
<1>3. ASSUME NEW c \in Calls, AcquireBusy(c) PROVE FenceInv'
  BY <1>3 DEF AcquireBusy
<1>4. ASSUME NEW c \in Calls, GiveUp(c) PROVE FenceInv'
  BY <1>4 DEF GiveUp, Settled
<1>5. ASSUME NEW c \in Calls, Acquired(c) PROVE FenceInv'
  BY <1>5 DEF Acquired, Settled
<1>6. ASSUME NEW c \in Calls, Read(c) PROVE FenceInv'
  BY <1>6 DEF Read
<1>7. ASSUME NEW c \in Calls, Write(c) PROVE FenceInv'
  BY <1>7 DEF Write, Send, Command
<1>8. ASSUME NEW c \in Calls, TaskEnds(c) PROVE FenceInv'
  BY <1>8 DEF TaskEnds, EndTask, Drop, Command, Plain
<1>9. ASSUME NEW c \in Calls, MonitorExpired(c) PROVE FenceInv'
  BY <1>9 DEF MonitorExpired
<1>10. ASSUME NEW c \in Calls, MonitorRenew(c) PROVE FenceInv'
  BY <1>10 DEF MonitorRenew, Send, Command, Plain
<1>11. ASSUME NEW c \in Calls, Renewed(c) PROVE FenceInv'
  BY <1>11 DEF Renewed
<1>12. ASSUME NEW c \in Calls, RenewNotHeld(c) PROVE FenceInv'
  BY <1>12 DEF RenewNotHeld
<1>13. ASSUME NEW c \in Calls, ServeAcquire(c) PROVE FenceInv'
  <2>1. late' = late
    BY <1>13 DEF ServeAcquire
  <2>2. CASE /\ fence' = fence + 1
             /\ token' = [token EXCEPT ![c] = fence + 1]
             /\ Goto(c, "granted")
    <3>1. \A d \in Calls \ {c} :
            (HasToken(d)' <=> HasToken(d)) /\ token'[d] = token[d]
      BY <2>2
    <3>2. token'[c] = fence + 1
      BY <2>2
    <3> QED BY <2>1, <2>2, <3>1, <3>2
  <2>3. CASE Goto(c, "busy") /\ UNCHANGED <<fence, token>>
    BY <2>1, <2>3, FenceFrame
  <2> QED BY <1>13, <2>2, <2>3 DEF ServeAcquire
<1>14. ASSUME NEW c \in Calls, ServeWrite(c) PROVE FenceInv'
  BY <1>14 DEF ServeWrite, Apply, Accepted, Command
<1>15. ASSUME NEW c \in Calls, ServeExtend(c) PROVE FenceInv'
  BY <1>15 DEF ServeExtend, Command, Plain, Held
<1>16. ASSUME NEW c \in Calls, ServeRelease(c) PROVE FenceInv'
  BY <1>16 DEF ServeRelease, Command, Plain, FreeIfMine, Free
<1>17. ASSUME NEW c \in Calls, AcquireFails(c) PROVE FenceInv'
  BY <1>17 DEF AcquireFails, Abandon, Drop, Command, Plain, Settled
<1>18. ASSUME NEW c \in Calls, RenewFails(c) PROVE FenceInv'
  BY <1>18 DEF RenewFails, Abandon, Drop, Command, Plain
<1>19. ASSUME NEW c \in Calls, ReleaseFails(c) PROVE FenceInv'
  BY <1>19 DEF ReleaseFails, Abandon, Drop, Command, Plain
<1>20. ASSUME NEW c \in Calls, Resend(c) PROVE FenceInv'
  <2>1. UNCHANGED <<fence, late>>
    BY <1>20 DEF Resend
  <2>2. CASE Goto(c, "asked") /\ token' = [token EXCEPT ![c] = 0]
    BY <2>1, <2>2, FenceFrame
  <2>3. CASE /\ pc[c] \in {"stored", "rejected"}
             /\ Goto(c, "writing")
             /\ UNCHANGED token
    BY <2>1, <2>3, FenceFrame
  <2> QED BY <1>20, <2>2, <2>3 DEF Resend
<1>21. ASSUME NEW c \in Calls, Crash(c) PROVE FenceInv'
  BY <1>21 DEF Crash, Drop, Command, Plain, Settled
<1>22. CASE ServeLate
  BY <1>22 DEF ServeLate, Held, Free, FreeIfMine, Apply, Accepted
<1>23. CASE Tick
  BY <1>23 DEF Tick, Aged, Free, Older
<1>24. CASE FenceExpires
  BY <1>24 DEF FenceExpires
<1>25. CASE UNCHANGED vars
  BY <1>25 DEF vars
<1> QED
  BY StepCases, <1>1, <1>2, <1>3, <1>4, <1>5, <1>6, <1>7, <1>8, <1>9, <1>10, <1>11, <1>12, <1>13, <1>14, <1>15, <1>16, <1>17, <1>18, <1>19, <1>20, <1>21, <1>22, <1>23, <1>24, <1>25

(* A write that would still be accepted was computed from the record as it *)
(* is now.                                                                 *)
LEMMA SnapStep ==
  ASSUME TypeOK, Shape, FenceInv, SnapInv, [Next]_vars
  PROVE  SnapInv'
<1> USE TimesAssumption, NoneAssumption DEF TypeOK, Shape, FenceInv, SnapInv, HasToken, TaskEnds, Holding, Waiting, Over, Goto, redis, lease, Cmd, Kinds, WriteOf, Command, Plain
<1>1. ASSUME NEW c \in Calls, Begin(c) PROVE SnapInv'
  BY <1>1 DEF Begin
<1>2. ASSUME NEW c \in Calls, SendAcquire(c) PROVE SnapInv'
  BY <1>2 DEF SendAcquire, Send, Command, Plain
<1>3. ASSUME NEW c \in Calls, AcquireBusy(c) PROVE SnapInv'
  BY <1>3 DEF AcquireBusy
<1>4. ASSUME NEW c \in Calls, GiveUp(c) PROVE SnapInv'
  BY <1>4 DEF GiveUp, Settled
<1>5. ASSUME NEW c \in Calls, Acquired(c) PROVE SnapInv'
  BY <1>5 DEF Acquired, Settled
<1>6. ASSUME NEW c \in Calls, Read(c) PROVE SnapInv'
  BY <1>6 DEF Read
<1>7. ASSUME NEW c \in Calls, Write(c) PROVE SnapInv'
  BY <1>7 DEF Write, Send, Command
<1>8. ASSUME NEW c \in Calls, TaskEnds(c) PROVE SnapInv'
  BY <1>8 DEF TaskEnds, EndTask, Drop, Command, Plain
<1>9. ASSUME NEW c \in Calls, MonitorExpired(c) PROVE SnapInv'
  BY <1>9 DEF MonitorExpired
<1>10. ASSUME NEW c \in Calls, MonitorRenew(c) PROVE SnapInv'
  BY <1>10 DEF MonitorRenew, Send, Command, Plain
<1>11. ASSUME NEW c \in Calls, Renewed(c) PROVE SnapInv'
  BY <1>11 DEF Renewed
<1>12. ASSUME NEW c \in Calls, RenewNotHeld(c) PROVE SnapInv'
  BY <1>12 DEF RenewNotHeld
<1>13. ASSUME NEW c \in Calls, ServeAcquire(c) PROVE SnapInv'
  BY <1>13 DEF ServeAcquire, Command, Plain, Held
<1>14. ASSUME NEW c \in Calls, ServeWrite(c) PROVE SnapInv'
  <2> DEFINE w == WriteOf(c)
  <2>1. /\ w \in net /\ pc[c] = "writing" /\ w.token = token[c] /\ w.base = snap[c]
        /\ w.kind = "write" /\ w.call = c
    BY <1>14 DEF ServeWrite
  <2>2. token[c] <= fence
    BY <2>1
  <2>3. CASE Accepted(w)
    <3>1. token[c] = fence /\ store' = snap[c] \cup {c} /\ pc' = [pc EXCEPT ![c] = "stored"]
      BY <1>14, <2>1, <2>3, AcceptedAdds DEF ServeWrite, Apply
    <3>2. \A d \in Calls : d # c /\ HasToken(d) => token[d] # fence
      BY <2>1, <3>1
    <3>3. \A m \in late : m.kind = "write" => m.token # fence
      BY <2>1, <3>1
    <3> QED BY <1>14, <2>1, <3>1, <3>2, <3>3 DEF ServeWrite
  <2>4. CASE ~Accepted(w)
    <3>1. token[c] # fence /\ store' = store /\ pc' = [pc EXCEPT ![c] = "rejected"]
      BY <1>14, <2>1, <2>4 DEF ServeWrite, Apply, Accepted
    <3> QED BY <1>14, <2>1, <3>1 DEF ServeWrite
  <2> QED BY <2>3, <2>4
<1>15. ASSUME NEW c \in Calls, ServeExtend(c) PROVE SnapInv'
  BY <1>15 DEF ServeExtend, Command, Plain, Held
<1>16. ASSUME NEW c \in Calls, ServeRelease(c) PROVE SnapInv'
  BY <1>16 DEF ServeRelease, Command, Plain, FreeIfMine, Free
<1>17. ASSUME NEW c \in Calls, AcquireFails(c) PROVE SnapInv'
  BY <1>17 DEF AcquireFails, Abandon, Drop, Command, Plain, Settled
<1>18. ASSUME NEW c \in Calls, RenewFails(c) PROVE SnapInv'
  BY <1>18 DEF RenewFails, Abandon, Drop, Command, Plain
<1>19. ASSUME NEW c \in Calls, ReleaseFails(c) PROVE SnapInv'
  BY <1>19 DEF ReleaseFails, Abandon, Drop, Command, Plain
<1>20. ASSUME NEW c \in Calls, Resend(c) PROVE SnapInv'
  BY <1>20 DEF Resend, Send, Command, Plain
<1>21. ASSUME NEW c \in Calls, Crash(c) PROVE SnapInv'
  BY <1>21 DEF Crash, Drop, Command, Plain, Settled
<1>22. CASE ServeLate
  <2> PICK m \in late : ServeLate!(m)
    BY <1>22 DEF ServeLate
  <2>1. CASE m.kind = "write" /\ Accepted(m)
    <3>1. m.token = fence /\ store' = store \cup {m.call} /\ store' = m.base \cup {m.call}
      BY <2>1, AcceptedAdds DEF Apply
    <3>2. \A c \in Calls : HasToken(c) => token[c] # fence
      BY <2>1, <3>1
    <3>3. \A n \in late : n.kind = "write" /\ n.token = fence => n = m
      BY <2>1, <3>1
    <3> QED BY <2>1, <3>1, <3>2, <3>3
  <2>2. CASE ~(m.kind = "write" /\ Accepted(m))
    <3>1. store' = store
      BY <2>2 DEF Apply
    <3>2. fence' = fence \/ fence' = fence + 1
      BY <2>2
    <3> QED BY <2>2, <3>1, <3>2
  <2> QED BY <2>1, <2>2
<1>23. CASE Tick
  BY <1>23 DEF Tick, Aged, Free, Older
<1>24. CASE FenceExpires
  BY <1>24 DEF FenceExpires
<1>25. CASE UNCHANGED vars
  BY <1>25 DEF vars
<1> QED
  BY StepCases, <1>1, <1>2, <1>3, <1>4, <1>5, <1>6, <1>7, <1>8, <1>9, <1>10, <1>11, <1>12, <1>13, <1>14, <1>15, <1>16, <1>17, <1>18, <1>19, <1>20, <1>21, <1>22, <1>23, <1>24, <1>25

(* What has been acknowledged, or is about to be, is in the record. *)
LEMMA AckStep ==
  ASSUME TypeOK, Shape, FenceInv, SnapInv, AckInv, [Next]_vars
  PROVE  AckInv'
<1> USE StoreGrows DEF TypeOK, AckInv, TaskEnds, Holding, Waiting, Over, Goto, redis, lease
<1>1. ASSUME NEW c \in Calls, Begin(c) PROVE AckInv'
  BY <1>1 DEF Begin
<1>2. ASSUME NEW c \in Calls, SendAcquire(c) PROVE AckInv'
  BY <1>2 DEF SendAcquire, Send
<1>3. ASSUME NEW c \in Calls, AcquireBusy(c) PROVE AckInv'
  BY <1>3 DEF AcquireBusy
<1>4. ASSUME NEW c \in Calls, GiveUp(c) PROVE AckInv'
  BY <1>4 DEF GiveUp, Settled
<1>5. ASSUME NEW c \in Calls, Acquired(c) PROVE AckInv'
  BY <1>5 DEF Acquired, Settled
<1>6. ASSUME NEW c \in Calls, Read(c) PROVE AckInv'
  BY <1>6 DEF Read
<1>7. ASSUME NEW c \in Calls, Write(c) PROVE AckInv'
  BY <1>7 DEF Write, Send
<1>8. ASSUME NEW c \in Calls, TaskEnds(c) PROVE AckInv'
  BY <1>8 DEF TaskEnds, EndTask
<1>9. ASSUME NEW c \in Calls, MonitorExpired(c) PROVE AckInv'
  BY <1>9 DEF MonitorExpired
<1>10. ASSUME NEW c \in Calls, MonitorRenew(c) PROVE AckInv'
  BY <1>10 DEF MonitorRenew, Send
<1>11. ASSUME NEW c \in Calls, Renewed(c) PROVE AckInv'
  BY <1>11 DEF Renewed
<1>12. ASSUME NEW c \in Calls, RenewNotHeld(c) PROVE AckInv'
  BY <1>12 DEF RenewNotHeld
<1>13. ASSUME NEW c \in Calls, ServeAcquire(c) PROVE AckInv'
  BY <1>13 DEF ServeAcquire, Shape, Plain, Command
<1>14. ASSUME NEW c \in Calls, ServeWrite(c) PROVE AckInv'
  BY <1>14, AcceptedAdds DEF ServeWrite, Apply, Shape, Command, WriteOf
<1>15. ASSUME NEW c \in Calls, ServeExtend(c) PROVE AckInv'
  BY <1>15 DEF ServeExtend, Held
<1>16. ASSUME NEW c \in Calls, ServeRelease(c) PROVE AckInv'
  BY <1>16 DEF ServeRelease, FreeIfMine, Free
<1>17. ASSUME NEW c \in Calls, AcquireFails(c) PROVE AckInv'
  BY <1>17 DEF AcquireFails, Settled
<1>18. ASSUME NEW c \in Calls, RenewFails(c) PROVE AckInv'
  BY <1>18 DEF RenewFails
<1>19. ASSUME NEW c \in Calls, ReleaseFails(c) PROVE AckInv'
  BY <1>19 DEF ReleaseFails
<1>20. ASSUME NEW c \in Calls, Resend(c) PROVE AckInv'
  BY <1>20 DEF Resend, Send
<1>21. ASSUME NEW c \in Calls, Crash(c) PROVE AckInv'
  BY <1>21 DEF Crash, Settled
<1>22. CASE ServeLate
  BY <1>22 DEF ServeLate
<1>23. CASE Tick
  BY <1>23 DEF Tick, Aged, Free, Older
<1>24. CASE FenceExpires
  BY <1>24 DEF FenceExpires
<1>25. CASE UNCHANGED vars
  BY <1>25 DEF vars
<1> QED
  BY StepCases, <1>1, <1>2, <1>3, <1>4, <1>5, <1>6, <1>7, <1>8, <1>9, <1>10, <1>11, <1>12, <1>13, <1>14, <1>15, <1>16, <1>17, <1>18, <1>19, <1>20, <1>21, <1>22, <1>23, <1>24, <1>25

-----------------------------------------------------------------------------
(* The inductive invariant holds in every reachable state. *)
LEMMA Inductive == Spec => [](TypeOK /\ IInv)
<1>1. Init => TypeOK /\ IInv
  BY TimesAssumption, NoneAssumption
     DEF Init, TypeOK, Free, Holding, Waiting, Over, IInv, Shape, LeaseInv,
         FenceInv, SnapInv, AckInv, HasToken
<1>2. TypeOK /\ IInv /\ [Next]_vars => (TypeOK /\ IInv)'
  BY TypeStep, ShapeStep, LeaseStep, FenceStep, SnapStep, AckStep DEF IInv
<1> QED BY <1>1, <1>2, PTL DEF Spec

(* No two calls believe at once that they hold the lock.  A valid lease    *)
(* implies that Redis holds the key for that call, and it has one owner.   *)
THEOREM Exclusion == Spec => []MutualExclusion
<1>1. TypeOK /\ IInv => MutualExclusion
  BY NoneAssumption DEF IInv, LeaseInv, MutualExclusion, LeaseValid, TypeOK
<1> QED BY <1>1, Inductive, PTL

(* The local estimate of a lease never outlives the key in Redis. *)
THEOREM Conservative == Spec => []LeaseConservative
<1>1. TypeOK /\ IInv => LeaseConservative
  BY DEF IInv, LeaseInv, LeaseConservative, LeaseValid, TypeOK
<1> QED BY <1>1, Inductive, PTL

(* Whoever was told "ok" has its update in the record. *)
THEOREM Acknowledged == Spec => []AcknowledgedIsStored
<1>1. IInv => AcknowledgedIsStored
  BY DEF IInv, AckInv, AcknowledgedIsStored
<1> QED BY <1>1, Inductive, PTL

(* No update, acknowledged or not, is ever overwritten. *)
THEOREM UpdatesStay == Spec => NoLostUpdate
<1>1. TypeOK /\ IInv /\ [Next]_vars => [store \subseteq store']_vars
  BY StoreGrows DEF IInv
<1> QED BY <1>1, Inductive, PTL DEF Spec, NoLostUpdate

(* The steps that touch the record or an outcome. *)
LEMMA OutcomeSteps ==
  ASSUME [Next]_vars
  PROVE  \/ \E c \in Calls : ServeWrite(c) \/ TaskEnds(c) \/ GiveUp(c) \/ AcquireFails(c)
         \/ ServeLate
         \/ UNCHANGED <<store, result>>
<1>1. ASSUME NEW c \in Calls,
             \/ Begin(c) \/ SendAcquire(c) \/ AcquireBusy(c)
             \/ Acquired(c) \/ Read(c) \/ Write(c)
      PROVE  UNCHANGED <<store, result>>
  BY <1>1 DEF redis, Begin, SendAcquire, AcquireBusy, Acquired, Read, Write
<1>2. ASSUME NEW c \in Calls,
             \/ MonitorExpired(c) \/ MonitorRenew(c) \/ Renewed(c) \/ RenewNotHeld(c)
      PROVE  UNCHANGED <<store, result>>
  BY <1>2 DEF redis, MonitorExpired, MonitorRenew, Renewed, RenewNotHeld
<1>3. ASSUME NEW c \in Calls,
             \/ ServeAcquire(c) \/ ServeExtend(c) \/ ServeRelease(c)
             \/ RenewFails(c) \/ ReleaseFails(c) \/ Resend(c) \/ Crash(c)
      PROVE  UNCHANGED <<store, result>>
  BY <1>3 DEF redis, ServeAcquire, ServeExtend, ServeRelease,
              RenewFails, ReleaseFails, Resend, Crash
<1>4. ASSUME Tick \/ FenceExpires \/ UNCHANGED vars
      PROVE  UNCHANGED <<store, result>>
  BY <1>4 DEF Tick, FenceExpires, vars
<1> QED BY StepCases, <1>1, <1>2, <1>3, <1>4

(* Every step of the lock is a step of the serial store or leaves it alone. *)
LEMMA SerialStep ==
  ASSUME TypeOK, IInv, [Next]_vars
  PROVE  [Serial!Next]_(Serial!svars)
<1> USE DEF Serial!Next, Serial!svars, Serial!Apply, Serial!Return, Holding, Over
<1>1. ASSUME NEW c \in Calls, ServeWrite(c) PROVE [Serial!Next]_(Serial!svars)
  <2> DEFINE m == Command("write", c)
  <2>1. m.kind = "write" /\ m.call = c /\ m \in net /\ pc[c] = "writing"
    BY <1>1 DEF ServeWrite, Command, WriteOf, IInv, Shape
  <2>2. result[c] = "none"
    BY <2>1 DEF IInv, AckInv
  <2>3. store' = store \/ store' = store \cup {c}
    BY <1>1, <2>1, AcceptedAdds DEF ServeWrite, Apply, IInv
  <2> QED BY <1>1, <2>2, <2>3 DEF ServeWrite
<1>2. CASE ServeLate
  <2>1. result' = result
    BY <1>2 DEF ServeLate
  <2>2. store' = store \/ \E c \in Calls : store' = store \cup {c}
    BY <1>2, AcceptedAdds DEF ServeLate, Apply, redis, IInv, TypeOK, Cmd
  <2>3. \A c \in Calls : result[c] = "ok" => c \in store
    BY DEF IInv, AckInv
  <2>4. CASE store' = store
    BY <2>1, <2>4
  <2>5. ASSUME NEW c \in Calls, store' = store \cup {c}, store' # store
        PROVE  Serial!Apply(c)
    BY <2>1, <2>3, <2>5
  <2> QED BY <2>2, <2>4, <2>5
<1>3. ASSUME NEW c \in Calls, TaskEnds(c) PROVE [Serial!Next]_(Serial!svars)
  <2>1. result[c] = "none" /\ (pc[c] = "stored" => c \in store)
    BY <1>3 DEF TaskEnds, IInv, AckInv
  <2>2. PICK r \in {"ok", "error"} : EndTask(c, r) /\ (r = "ok" => pc[c] = "stored")
    BY <1>3 DEF TaskEnds
  <2>3. Serial!Return(c, r)
    BY <2>1, <2>2 DEF EndTask, redis
  <2> QED BY <2>3
<1>4. ASSUME NEW c \in Calls, GiveUp(c) \/ AcquireFails(c)
      PROVE  [Serial!Next]_(Serial!svars)
  <2>1. result[c] = "none"
    BY <1>4 DEF GiveUp, AcquireFails, IInv, AckInv
  <2>2. store' = store
    BY <1>4 DEF GiveUp, AcquireFails, redis
  <2>3. result' = result \/ result' = [result EXCEPT ![c] = "error"]
    BY <1>4 DEF GiveUp, AcquireFails
  <2> QED BY <2>1, <2>2, <2>3
<1>5. CASE UNCHANGED <<store, result>>
  BY <1>5
<1> QED
  BY <1>1, <1>2, <1>3, <1>4, <1>5, OutcomeSteps

(* The distributed lock with fenced writes implements the serial store.    *)
THEOREM Serializable == Spec => SerialSpec
<1>1. Init => Serial!Init
  BY DEF Init, Serial!Init
<1>2. TypeOK /\ IInv /\ [Next]_vars => [Serial!Next]_(Serial!svars)
  BY SerialStep
<1> QED BY <1>1, <1>2, Inductive, PTL DEF Spec, SerialSpec, Serial!Spec

-----------------------------------------------------------------------------
(* The fenced lock.                                                        *)

(* A step that hands out no token, and gives up writes only of those who   *)
(* had their token, adds nobody to the writers.                            *)
LEMMA WritersShrink ==
  ASSUME fence' = fence,
         \A c \in Calls : HasToken(c)' => HasToken(c) /\ token'[c] = token[c],
         \A m \in late' : m.kind = "write" =>
           m \in late \/ (m.call \in Calls /\ HasToken(m.call) /\ m.token = token[m.call])
  PROVE  Writers' \in SUBSET Writers
  BY DEF Writers

(* A step that touches neither tokens nor writes given up leaves the       *)
(* writers as they are.                                                    *)
LEMMA WritersStay ==
  ASSUME fence' = fence,
         \A c \in Calls : (HasToken(c)' <=> HasToken(c)) /\ token'[c] = token[c],
         \A m : m.kind = "write" => (m \in late' <=> m \in late)
  PROVE  Writers' = Writers
  BY DEF Writers

(* At most one call can still have a write accepted. *)
LEMMA OneWriterNow ==
  ASSUME TypeOK, FenceInv, NEW c \in Writers, NEW d \in Writers
  PROVE  c = d
  BY DEF Writers, FenceInv, TypeOK, Cmd

(* Every call but the one that acquires has an older token. *)
LEMMA AcquireShutsOut ==
  ASSUME TypeOK, FenceInv, NEW c \in Calls, fence' = fence + 1,
         \A d \in Calls \ {c} : HasToken(d)' => HasToken(d) /\ token'[d] = token[d],
         \A m \in late' : m.kind = "write" => m \in late
  PROVE  Writers' \in SUBSET {c}
<1>1. \A d \in Calls \ {c} : HasToken(d)' => token'[d] # fence'
  BY DEF FenceInv, TypeOK
<1>2. \A m \in late' : m.kind = "write" => m.token # fence'
  BY DEF FenceInv, TypeOK, Cmd
<1>3. QED
  BY <1>1, <1>2 DEF Writers

(* Every step of the lock is one of a fenced lock, or leaves it alone. *)
LEMMA FencedLockStep ==
  ASSUME TypeOK, IInv, [Next]_vars
  PROVE  [Fencing!Next]_(Fencing!fvars)
<1> USE DEF Fencing!Next, Fencing!fvars, Fencing!Acquire, Fencing!Free, Fencing!Retire,
            Fencing!Write, redis, lease, Goto
<1>1. ASSUME UNCHANGED <<lock, store>>, Writers' \in SUBSET Writers
      PROVE  Fencing!Next
  BY <1>1
<1>2. ASSUME UNCHANGED store, Writers' = Writers, lock'.owner \in {lock.owner, None}
      PROVE  [Fencing!Next]_(Fencing!fvars)
  BY <1>2
<1>3. ASSUME NEW c \in Calls,
             \/ Begin(c) \/ SendAcquire(c) \/ AcquireBusy(c) \/ GiveUp(c)
             \/ Acquired(c) \/ Read(c) \/ Write(c)
      PROVE  Fencing!Next
  <2>1. UNCHANGED <<lock, store, fence, late, token>>
    BY <1>3 DEF Begin, SendAcquire, AcquireBusy, GiveUp, Acquired, Read, Write
  <2>2. \A d \in Calls : HasToken(d)' => HasToken(d)
    BY <1>3 DEF Begin, SendAcquire, AcquireBusy, GiveUp, Acquired, Read, Write, HasToken,
                Holding, TypeOK
  <2>3. QED
    BY <1>1, <2>1, <2>2, WritersShrink
<1>4. ASSUME NEW c \in Calls,
             \/ MonitorExpired(c) \/ MonitorRenew(c) \/ Renewed(c) \/ RenewNotHeld(c)
             \/ ServeExtend(c)
      PROVE  [Fencing!Next]_(Fencing!fvars)
  <2>1. UNCHANGED <<store, fence, late, token, pc>> /\ lock'.owner = lock.owner
    BY <1>4 DEF MonitorExpired, MonitorRenew, Renewed, RenewNotHeld, ServeExtend, Held
  <2>2. QED
    BY <1>2, <2>1, WritersStay DEF HasToken
<1>5. ASSUME NEW c \in Calls, TaskEnds(c) \/ Crash(c) \/ AcquireFails(c) \/ RenewFails(c)
                             \/ ReleaseFails(c)
      PROVE  Fencing!Next
  <2>1. UNCHANGED <<lock, store, fence>>
    BY <1>5 DEF TaskEnds, EndTask, Crash, AcquireFails, RenewFails, ReleaseFails
  <2>2. \A d \in Calls : HasToken(d)' => HasToken(d) /\ token'[d] = token[d]
    BY <1>5 DEF TaskEnds, EndTask, Crash, AcquireFails, RenewFails, ReleaseFails, HasToken,
                Holding, TypeOK
  <2>3. late' \subseteq late \cup net
    BY <1>5 DEF TaskEnds, EndTask, Crash, AcquireFails, RenewFails, ReleaseFails, Abandon, Drop
  <2>4. \A m \in net : m.kind = "write" =>
          m.call \in Calls /\ HasToken(m.call) /\ m.token = token[m.call]
    BY DEF TypeOK, Cmd, IInv, Shape, HasToken, Holding, Command, WriteOf
  <2>5. QED
    BY <1>1, <2>1, <2>2, <2>3, <2>4, WritersShrink
<1>6. ASSUME NEW c \in Calls, Resend(c) PROVE Fencing!Next
  <2>1. UNCHANGED <<lock, store, fence, late>>
    BY <1>6 DEF Resend
  <2>2. \A d \in Calls : HasToken(d)' => HasToken(d) /\ token'[d] = token[d]
    BY <1>6 DEF Resend, HasToken, Holding, TypeOK
  <2>3. QED
    BY <1>1, <2>1, <2>2, WritersShrink
<1>7. ASSUME NEW c \in Calls, ServeAcquire(c) PROVE [Fencing!Next]_(Fencing!fvars)
  <2>1. UNCHANGED <<store, late>>
    BY <1>7 DEF ServeAcquire
  <2>2. CASE /\ lock.owner = None
             /\ lock' = Held(c)
             /\ fence' = fence + 1
             /\ token' = [token EXCEPT ![c] = fence + 1]
             /\ Goto(c, "granted")
    <3>1. \A d \in Calls \ {c} : HasToken(d)' => HasToken(d) /\ token'[d] = token[d]
      BY <2>2 DEF HasToken, TypeOK
    <3>2. Writers' \in SUBSET {c}
      BY <2>1, <2>2, <3>1, AcquireShutsOut DEF IInv
    <3>3. QED
      BY <2>1, <2>2, <3>2 DEF Held
  <2>3. CASE Goto(c, "busy") /\ UNCHANGED <<lock, fence, token>>
    <3>1. \A d \in Calls : HasToken(d)' => HasToken(d)
      BY <2>3 DEF HasToken, Holding, TypeOK
    <3>2. QED
      BY <1>1, <2>1, <2>3, <3>1, WritersShrink
  <2>4. QED
    BY <1>7, <2>2, <2>3 DEF ServeAcquire
<1>8. ASSUME NEW c \in Calls, ServeWrite(c) PROVE [Fencing!Next]_(Fencing!fvars)
  <2> DEFINE m == Command("write", c)
  <2>1. /\ m \in net /\ m.kind = "write" /\ m.call = c /\ m.token = token[c]
        /\ pc[c] = "writing" /\ UNCHANGED <<lock, fence, late, token>>
    BY <1>8 DEF ServeWrite, Command, WriteOf, IInv, Shape
  <2>2. \A d \in Calls : HasToken(d)' <=> HasToken(d)
    BY <1>8, <2>1 DEF ServeWrite, HasToken, Holding, TypeOK
  <2>3. Writers' = Writers
    BY <2>1, <2>2, WritersStay
  <2>4. CASE Accepted(m)
    <3>1. c \in Writers
      BY <2>1, <2>4, AcceptedAdds DEF Writers, HasToken, Holding, IInv
    <3>2. QED
      BY <2>1, <2>3, <3>1
  <2>5. CASE ~Accepted(m)
    BY <1>2, <1>8, <2>1, <2>3, <2>5 DEF ServeWrite, Apply
  <2>6. QED
    BY <2>4, <2>5
<1>9. ASSUME NEW c \in Calls, ServeRelease(c) PROVE [Fencing!Next]_(Fencing!fvars)
  <2>1. /\ UNCHANGED <<store, fence, late, token>> /\ pc[c] = "ending"
        /\ pc' = [pc EXCEPT ![c] = "done"]
    BY <1>9 DEF ServeRelease, IInv, Shape, Command, Plain
  <2>2. \A d \in Calls : HasToken(d)' <=> HasToken(d)
    BY <2>1 DEF HasToken, Holding, TypeOK
  <2>3. lock'.owner \in {lock.owner, None}
    BY <1>9 DEF ServeRelease, FreeIfMine, Free
  <2>4. QED
    BY <1>2, <2>1, <2>2, <2>3, WritersStay
<1>10. CASE ServeLate
  <2> PICK m \in late : ServeLate!(m)
    BY <1>10 DEF ServeLate
  <2>1. /\ late' = late \ {m} /\ m.call \in Calls
        /\ \A d \in Calls : (HasToken(d)' <=> HasToken(d)) /\ token'[d] = token[d]
    BY DEF HasToken, TypeOK, Cmd
  <2>2. CASE m.kind = "acquire" /\ fence' = fence + 1
    <3>1. Writers' \in SUBSET {m.call}
      BY <2>1, <2>2, AcquireShutsOut DEF IInv
    <3>2. lock.owner = None /\ lock' = Held(m.call) /\ store' = store
      BY <2>2 DEF TypeOK
    <3>3. QED
      BY <2>1, <3>1, <3>2 DEF Held
  <2>3. CASE m.kind = "write"
    <3>1. Writers' \in SUBSET Writers /\ lock' = lock
      BY <2>1, <2>3, WritersShrink
    <3>2. ASSUME Accepted(m) PROVE m.call \in Writers
      BY <2>3, <3>2, AcceptedAdds DEF Writers, IInv
    <3>3. CASE Accepted(m)
      BY <2>1, <3>1, <3>2, <3>3
    <3>4. CASE ~Accepted(m)
      BY <1>1, <2>3, <3>1, <3>4 DEF Apply
    <3>5. QED
      BY <3>3, <3>4
  <2>4. CASE m.kind # "write" /\ ~(m.kind = "acquire" /\ fence' = fence + 1)
    <3>1. fence' = fence /\ store' = store
      BY <2>4
    <3>2. Writers' = Writers
      BY <2>1, <2>4, <3>1, WritersStay
    <3>3. lock'.owner \in {lock.owner, None}
      BY <2>4 DEF Held, Free, FreeIfMine
    <3>4. QED
      BY <1>2, <3>1, <3>2, <3>3
  <2>5. QED
    BY <2>2, <2>3, <2>4
<1>11. CASE Tick
  <2>1. UNCHANGED <<store, fence, late, token, pc>>
    BY <1>11 DEF Tick
  <2>2. lock'.owner \in {lock.owner, None}
    BY <1>11 DEF Tick, Aged, Free, TypeOK
  <2>3. QED
    BY <1>2, <2>1, <2>2, WritersStay DEF HasToken
<1>12. CASE FenceExpires
  <2>1. UNCHANGED <<lock, store>> /\ late' = {} /\ \A c \in Calls : ~HasToken(c)'
    BY <1>12 DEF FenceExpires, HasToken, Holding
  <2>2. Writers' = {}
    BY <2>1 DEF Writers
  <2>3. QED
    BY <1>1, <2>1, <2>2
<1>13. CASE UNCHANGED vars
  BY <1>2, <1>13, WritersStay DEF vars, HasToken
<1>14. QED
  BY StepCases, <1>3, <1>4, <1>5, <1>6, <1>7, <1>8, <1>9, <1>10, <1>11, <1>12, <1>13

(* The distributed lock is a fenced lock: an acquisition, even one whose   *)
(* reply is lost, ends the power of every earlier holder to write.         *)
THEOREM ImplementsFencedLock == Spec => FencedSpec
<1>1. Init => Fencing!Init
  BY DEF Init, Fencing!Init, Free, Writers, HasToken, Holding
<1>2. TypeOK /\ IInv /\ [Next]_vars => [Fencing!Next]_(Fencing!fvars)
  BY FencedLockStep
<1>3. QED
  BY <1>1, <1>2, Inductive, PTL DEF Spec, FencedSpec, Fencing!Spec

(* Leases may be lost and TTLs pass; still, of all the calls, living or    *)
(* dead, at most one can have a write accepted (FENCED_SET_SCRIPT).        *)
THEOREM OneWriter == Spec => [](\A c, d \in Writers : c = d)
<1>1. TypeOK /\ IInv => \A c, d \in Writers : c = d
  BY OneWriterNow DEF IInv
<1>2. QED
  BY <1>1, Inductive, PTL

-----------------------------------------------------------------------------
(* The part of DeadHolderFrees that does not depend on fairness: what is   *)
(* left of a call that is over only gets less.                             *)

Ended(c) == pc[c] \in {"done", "crashed"}

(* What could still give a call the lock, or more time on it. *)
Revivals(c) == {m \in late : m.call = c /\ m.kind \in {"acquire", "extend"}}

Fades(c) ==
  Ended(c) =>
    /\ Ended(c)'
    /\ Revivals(c)' \subseteq Revivals(c)
    /\ Revivals(c)' = Revivals(c) /\ lock'.owner = c
         => lock.owner = c /\ lock'.ttl <= lock.ttl /\ (Tick => lock'.ttl < lock.ttl)

(* A step of a call: it is not over, moves nobody else, gives up its own   *)
(* commands only, and takes the lock for itself only.                      *)
Own(d) ==
  /\ ~Ended(d)
  /\ \A c \in Calls \ {d} : pc'[c] = pc[c]
  /\ late \subseteq late' /\ \A m \in late' \ late : m.call = d
  /\ lock'.owner \in {d, None} \/ lock' = lock

(* Every step but those of the environment is a call's own. *)
LEMMA OwnStep ==
  ASSUME TypeOK, Shape, [Next]_vars
  PROVE  (\E d \in Calls : Own(d)) \/ ServeLate \/ Tick \/ FenceExpires \/ UNCHANGED vars
<1> USE DEF TypeOK, Ended, Own, Goto, redis, Command, Plain, WriteOf
<1>1. ASSUME NEW d \in Calls,
             Begin(d) \/ SendAcquire(d) \/ AcquireBusy(d) \/ GiveUp(d) \/ Acquired(d)
      PROVE  Own(d)
  BY <1>1 DEF Begin, SendAcquire, AcquireBusy, GiveUp, Acquired
<1>2. ASSUME NEW d \in Calls, Read(d) \/ Write(d) PROVE Own(d)
  BY <1>2 DEF Read, Write
<1>3. ASSUME NEW d \in Calls, TaskEnds(d) PROVE Own(d)
  BY <1>3 DEF TaskEnds, EndTask, Drop, Holding
<1>4. ASSUME NEW d \in Calls,
             MonitorExpired(d) \/ MonitorRenew(d) \/ Renewed(d) \/ RenewNotHeld(d)
      PROVE  Own(d)
  BY <1>4 DEF MonitorExpired, MonitorRenew, Renewed, RenewNotHeld, LeaseValid, Holding, Shape
<1>5. ASSUME NEW d \in Calls, ServeAcquire(d) PROVE Own(d)
  BY <1>5 DEF ServeAcquire, Held, Shape
<1>6. ASSUME NEW d \in Calls, ServeWrite(d) PROVE Own(d)
  BY <1>6 DEF ServeWrite, Shape
<1>7. ASSUME NEW d \in Calls, ServeExtend(d) PROVE Own(d)
  BY <1>7 DEF ServeExtend, Held, Shape, Holding
<1>8. ASSUME NEW d \in Calls, ServeRelease(d) PROVE Own(d)
  BY <1>8 DEF ServeRelease, FreeIfMine, Free, Shape
<1>9. ASSUME NEW d \in Calls, AcquireFails(d) \/ RenewFails(d) \/ ReleaseFails(d) PROVE Own(d)
  BY <1>9 DEF AcquireFails, RenewFails, ReleaseFails, Abandon, Drop, Shape, Holding
<1>10. ASSUME NEW d \in Calls, Resend(d) PROVE Own(d)
  BY <1>10 DEF Resend
<1>11. ASSUME NEW d \in Calls, Crash(d) PROVE Own(d)
  BY <1>11 DEF Crash, Drop
<1>12. QED
  BY StepCases, <1>1, <1>2, <1>3, <1>4, <1>5, <1>6, <1>7, <1>8, <1>9, <1>10, <1>11

(* Whatever the others, Redis and time do, a call that is over fades. *)
LEMMA FadesStep ==
  ASSUME TypeOK, Shape, [Next]_vars, NEW c \in Calls
  PROVE  Fades(c)
<1> SUFFICES ASSUME Ended(c)
             PROVE  /\ Ended(c)'
                    /\ Revivals(c)' \subseteq Revivals(c)
                    /\ Revivals(c)' = Revivals(c) /\ lock'.owner = c
                         => /\ lock.owner = c /\ lock'.ttl <= lock.ttl
                            /\ Tick => lock'.ttl < lock.ttl
  BY DEF Fades
<1> USE NoneAssumption
<1>1. lock.ttl \in 0 .. LockTtl /\ LockTtl \in Nat /\ lock \in [owner : Calls \cup {None}, ttl : 0 .. LockTtl]
  BY TimesAssumption DEF TypeOK
<1>2. CASE Tick
  <2>1. UNCHANGED <<pc, late>> /\ lock' = Aged(lock)
    BY <1>2 DEF Tick
  <2>2. lock'.owner = c => lock.owner = c /\ lock'.ttl < lock.ttl
    BY <1>1, <2>1 DEF Aged, Free
  <2>3. QED
    BY <1>1, <2>1, <2>2 DEF Ended, Revivals, Aged, Free
<1>3. ASSUME NEW d \in Calls, Own(d), ~Tick
      PROVE  /\ Ended(c)' /\ Revivals(c)' \subseteq Revivals(c)
             /\ lock'.owner = c => lock.owner = c /\ lock'.ttl <= lock.ttl
  <2>1. c # d
    BY <1>3 DEF Own
  <2>2. QED
    BY <1>1, <1>3, <2>1 DEF Own, Ended, Revivals
<1>4. CASE ServeLate /\ ~Tick
  <2>1. PICK m \in late : /\ late' = late \ {m} /\ UNCHANGED pc
                          /\ \/ m.kind \in {"acquire", "extend"} /\ lock' \in {lock, Held(m.call)}
                             \/ lock' \in {lock, Free}
    BY <1>4 DEF ServeLate, redis, FreeIfMine
  <2>2. Ended(c)' /\ Revivals(c)' \subseteq Revivals(c)
    BY <2>1 DEF Ended, Revivals
  <2>3. ASSUME Revivals(c)' = Revivals(c), lock'.owner = c PROVE lock' = lock
    <3>1. ~(m.call = c /\ m.kind \in {"acquire", "extend"})
      BY <2>1, <2>3 DEF Revivals
    <3>2. QED
      BY <2>1, <2>3, <3>1 DEF Held, Free
  <2>4. QED
    BY <1>1, <1>4, <2>2, <2>3
<1>5. CASE FenceExpires /\ ~Tick
  BY <1>1, <1>5 DEF FenceExpires, Ended, Revivals
<1>6. CASE UNCHANGED vars /\ ~Tick
  BY <1>1, <1>6 DEF vars, Ended, Revivals
<1>7. QED
  BY OwnStep, <1>2, <1>3, <1>4, <1>5, <1>6

(* A holder that is over keeps the lock no longer than its TTL, but for    *)
(* commands that were under way when it ended: nothing renews the key any  *)
(* more, each tick takes from it, and no new command can prolong it        *)
(* (EXTEND_SCRIPT, startLeaseMonitor, the finally of withRedisLock).       *)
THEOREM DeadHolderFades == Spec => [][\A c \in Calls : Fades(c)]_vars
<1>1. TypeOK /\ IInv /\ [Next]_vars => [\A c \in Calls : Fades(c)]_vars
  BY FadesStep DEF IInv
<1>2. QED
  BY <1>1, Inductive, PTL DEF Spec
=============================================================================
