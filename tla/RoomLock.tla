------------------------------ MODULE RoomLock ------------------------------
(***************************************************************************)
(* RoomLockService.withLock in its Redis mode, with the fenced writes of   *)
(* RoomFencedStateStore and CacheService: apps/game/src/room/              *)
(* room-lock.service.ts, room-fenced-state.store.ts and                    *)
(* apps/game/src/cache/cache.service.ts.                                   *)
(*                                                                         *)
(* A member of Calls is one invocation of withLock(key, task) for one key, *)
(* in any instance of the game server; its task is the shape every room    *)
(* operation has: read the record, compute, write it back once.  Redis     *)
(* executes one command at a time.  A command sent stays in flight until   *)
(* Redis executes it, whatever its client does meanwhile: the reply may    *)
(* come late or never, the client may fail the command (connection reset,  *)
(* maxRetriesPerRequest) and the command still execute afterwards.         *)
(*                                                                         *)
(* Time is relative: TTLs and lease times are the ticks that are left, a   *)
(* request has an age.  Redis and the instances measure the same ticks     *)
(* but read no common clock.                                               *)
(***************************************************************************)
EXTENDS Integers

CONSTANTS
  Calls,          (* the invocations of withLock *)
  None,           (* no owner *)
  LockTtl,        (* LOCK_TTL_MS, in ticks *)
  Heartbeat,      (* LOCK_HEARTBEAT_MS: renew once the last success is this old *)
  AcquireBudget,  (* LOCK_ACQUIRE_TIMEOUT_MS: how long a call waits for the lock *)
  LateKinds       (* the kinds of command that may execute after their client gave up *)

ASSUME NoneAssumption == None \notin Calls
ASSUME TimesAssumption ==
  /\ LockTtl \in Nat \ {0}
  /\ Heartbeat \in 1..LockTtl
  /\ AcquireBudget \in Nat \ {0}

ASSUME LateAssumption == LateKinds \subseteq {"acquire", "extend", "write", "release"}

Kinds == {"acquire", "extend", "write", "release"}
Cmd == [kind : Kinds, call : Calls, token : Nat, base : SUBSET Calls]

VARIABLES
  lock,     (* the key lock:<key>: owner (its token) and the ticks to live *)
  fence,    (* the counter lock:fence:<key>, 0 when the key does not exist *)
  store,    (* the protected record: the calls whose update it incorporates *)
  net,      (* commands sent, not executed, whose client awaits the reply *)
  late,     (* commands sent, not executed, whose client gave them up *)
  pc,       (* where each call is *)
  token,    (* LockLease.fence *)
  left,     (* LockLease.leaseValidUntil - now, 0 once it has passed *)
  lost,     (* LockLease.lostReason # null *)
  age,      (* now - time of sending of the last acquire or renewal *)
  waited,   (* how long the call has been waiting in acquire *)
  renew,    (* the renewal of the lease monitor in flight *)
  resent,   (* the command awaited was sent again after a reconnection *)
  snap,     (* what the task read *)
  result    (* what withLock returned *)

redis  == <<lock, fence, store>>
lease  == <<left, lost, renew>>
vars   == <<lock, fence, store, net, late, pc, token, left, lost, age, waited,
            renew, resent, snap, result>>

Holding == {"reading", "read", "writing", "stored", "rejected"}
Waiting == {"trying", "asked", "granted", "busy"}
Over    == {"ending", "done", "crashed"}


(* A command carries the key's token, which the call stands for; a write   *)
(* carries also the fencing token and the new record: the one read, with   *)
(* the update of the call.                                                 *)
Plain(k, c) == [kind |-> k, call |-> c, token |-> 0, base |-> {}]
WriteOf(c) == [kind |-> "write", call |-> c, token |-> token[c], base |-> snap[c]]
Command(k, c) == IF k = "write" THEN WriteOf(c) ELSE Plain(k, c)

Free == [owner |-> None, ttl |-> 0]

(* Mutant of Held: an expiry that adds to the time left. *)
HeldLonger(c) == [owner |-> c, ttl |-> lock.ttl + LockTtl]
Held(c) == [owner |-> c, ttl |-> LockTtl]

(* LockLease.isValid *)
LeaseValid(c) == pc[c] \in Holding /\ left[c] > 0 /\ ~lost[c]

Init ==
  /\ lock = Free
  /\ fence = 0
  /\ store = {}
  /\ net = {}
  /\ late = {}
  /\ pc = [c \in Calls |-> "idle"]
  /\ token = [c \in Calls |-> 0]
  /\ left = [c \in Calls |-> 0]
  /\ lost = [c \in Calls |-> FALSE]
  /\ age = [c \in Calls |-> 0]
  /\ waited = [c \in Calls |-> 0]
  /\ renew = [c \in Calls |-> "none"]
  /\ resent = [c \in Calls |-> FALSE]
  /\ snap = [c \in Calls |-> {}]
  /\ result = [c \in Calls |-> "none"]

-----------------------------------------------------------------------------
(* Helpers: the ways a step moves one call.                                *)

Goto(c, l) == pc' = [pc EXCEPT ![c] = l]

Send(k, c) == net' = net \cup {Command(k, c)}

(* The client gives these commands up: those in flight may stay so. *)
Drop(cmds, new) ==
  /\ net' = (net \ cmds) \cup new
  /\ late' = late \cup {m \in net \cap cmds : m.kind \in LateKinds}

Abandon(k, c) == Drop({Command(k, c)}, {})

(* withRedisLock's finally: the monitor stops, RELEASE is sent, and the    *)
(* outcome r of the task is what the caller will see.                      *)
EndTask(c, r) ==
  /\ Goto(c, "ending")
  /\ result' = [result EXCEPT ![c] = r]
  /\ left' = [left EXCEPT ![c] = 0]
  /\ lost' = [lost EXCEPT ![c] = FALSE]
  /\ renew' = [renew EXCEPT ![c] = "none"]
  /\ Drop({Command("extend", c), Command("write", c)}, {Command("release", c)})
  /\ age' = [age EXCEPT ![c] = 0]
  /\ resent' = [resent EXCEPT ![c] = FALSE]
  /\ token' = [token EXCEPT ![c] = 0]
  /\ snap' = [snap EXCEPT ![c] = {}]
  /\ UNCHANGED <<redis, waited>>

-----------------------------------------------------------------------------
(* acquire()                                                               *)

(* acquire() returned: its local variables are gone. *)
Settled(c) ==
  /\ age' = [age EXCEPT ![c] = 0]
  /\ waited' = [waited EXCEPT ![c] = 0]
  /\ resent' = [resent EXCEPT ![c] = FALSE]

Begin(c) ==
  /\ pc[c] = "idle"
  /\ Goto(c, "trying")
  /\ UNCHANGED <<redis, net, late, token, lease, age, waited, resent, snap, result>>

(* Mutant of SendAcquire: the contention deadline is forgotten. *)
SendAcquireForEver(c) ==
  /\ pc[c] = "trying"
  /\ Goto(c, "asked")
  /\ Send("acquire", c)
  /\ age' = [age EXCEPT ![c] = 0]
  /\ resent' = [resent EXCEPT ![c] = FALSE]
  /\ UNCHANGED <<redis, late, token, lease, waited, snap, result>>

SendAcquire(c) ==
  /\ pc[c] = "trying"
  /\ waited[c] < AcquireBudget
  /\ Goto(c, "asked")
  /\ Send("acquire", c)
  /\ age' = [age EXCEPT ![c] = 0]
  /\ resent' = [resent EXCEPT ![c] = FALSE]
  /\ UNCHANGED <<redis, late, token, lease, waited, snap, result>>

(* ACQUIRE_SCRIPT: SET NX PX, and INCR of the fence only on success.  The  *)
(* reply reaches the client if it still awaits it.                         *)
ServeAcquire(c) ==
  /\ Command("acquire", c) \in net
  /\ net' = net \ {Command("acquire", c)}
  /\ \/ /\ lock.owner = None
        /\ lock' = Held(c)
        /\ fence' = fence + 1
        /\ token' = [token EXCEPT ![c] = fence + 1]
        /\ Goto(c, "granted")
     \/ /\ lock.owner # None
        /\ Goto(c, "busy")
        /\ UNCHANGED <<lock, fence, token>>
  /\ UNCHANGED <<store, late, lease, age, waited, resent, snap, result>>

(* LOCK_BUSY answer: wait and try again. *)
AcquireBusy(c) ==
  /\ pc[c] = "busy"
  /\ Goto(c, "trying")
  /\ age' = [age EXCEPT ![c] = 0]
  /\ UNCHANGED <<redis, net, late, token, lease, waited, resent, snap, result>>

(* Redis cannot be reached, or the command fails: try again, or give up    *)
(* with REDIS_UNAVAILABLE once that has lasted too long (the budget for it *)
(* is less than a tick).                                                   *)
AcquireFails(c) ==
  /\ pc[c] \in {"asked", "granted", "busy"}
  /\ Abandon("acquire", c)
  /\ token' = [token EXCEPT ![c] = 0]
  /\ \/ /\ Goto(c, "trying")
        /\ age' = [age EXCEPT ![c] = 0]
        /\ UNCHANGED <<waited, resent, result>>
     \/ /\ Goto(c, "done")
        /\ result' = [result EXCEPT ![c] = "error"]
        /\ Settled(c)
  /\ UNCHANGED <<redis, lease, snap>>

(* The contention deadline: LOCK_BUSY or LOCK_ACQUIRE_TIMEOUT. *)
GiveUp(c) ==
  /\ pc[c] = "trying"
  /\ waited[c] >= AcquireBudget
  /\ Goto(c, "done")
  /\ result' = [result EXCEPT ![c] = "error"]
  /\ Settled(c)
  /\ UNCHANGED <<redis, net, late, token, lease, snap>>

(* new LockLease(..., attemptedAt, LOCK_TTL_MS): valid from the time the   *)
(* request was sent, not from the time its reply came.                     *)
Acquired(c) ==
  /\ pc[c] = "granted"
  /\ Goto(c, "reading")
  /\ left' = [left EXCEPT ![c] = LockTtl - age[c]]
  /\ Settled(c)
  /\ UNCHANGED <<redis, net, late, token, lost, renew, snap, result>>

-----------------------------------------------------------------------------
(* The task: getStrict, compute, writeSharedState.                         *)

Read(c) ==
  /\ pc[c] = "reading"
  /\ Goto(c, "read")
  /\ snap' = [snap EXCEPT ![c] = store]
  /\ UNCHANGED <<redis, net, late, token, lease, age, waited, resent, result>>

ReadFails(c) ==
  /\ pc[c] = "reading"
  /\ EndTask(c, "error")

(* writeSharedState: assertLeaseHeld and, in the same turn of the event    *)
(* loop, the fenced command with the token of the lease.                   *)
Write(c) ==
  /\ pc[c] = "read"
  /\ LeaseValid(c)
  /\ Goto(c, "writing")
  /\ Send("write", c)
  /\ resent' = [resent EXCEPT ![c] = FALSE]
  /\ UNCHANGED <<redis, late, token, lease, age, waited, snap, result>>

WriteBlocked(c) ==
  /\ pc[c] = "read"
  /\ ~LeaseValid(c)
  /\ EndTask(c, "error")

(* FENCED_SET_SCRIPT and FENCED_DEL_SCRIPT, for a client that waits and for *)
(* one that has gone.                                                      *)
(* Mutants of Accepted: no fencing; a fence that lets the previous holder in. *)
AcceptedAlways(m) == m.token \in Nat
AcceptedOffByOne(m) == fence <= m.token + 1
Accepted(m) == fence <= m.token

Apply(m) ==
  IF Accepted(m) THEN store' = m.base \cup {m.call} ELSE UNCHANGED store

ServeWrite(c) ==
  LET m == Command("write", c) IN
  /\ m \in net
  /\ net' = net \ {m}
  /\ Apply(m)
  /\ Goto(c, IF Accepted(m) THEN "stored" ELSE "rejected")
  /\ UNCHANGED <<lock, fence, late, token, lease, age, waited, resent, snap, result>>

(* The command fails, or StaleFencingWriteError is thrown: either way the  *)
(* task throws.                                                            *)
WriteFails(c) ==
  /\ pc[c] \in {"writing", "stored", "rejected"}
  /\ EndTask(c, "error")

(* The task returned: withRedisLock still fails it if the lease was lost   *)
(* on the way.                                                             *)
Finish(c) ==
  /\ pc[c] = "stored"
  /\ EndTask(c, IF LeaseValid(c) THEN "ok" ELSE "error")

-----------------------------------------------------------------------------
(* startLeaseMonitor                                                       *)

MonitorExpired(c) ==
  /\ pc[c] \in Holding
  /\ ~lost[c]
  /\ left[c] = 0
  /\ lost' = [lost EXCEPT ![c] = TRUE]
  /\ UNCHANGED <<redis, net, late, pc, token, left, renew, age, waited, resent, snap, result>>

(* needsRenewal: the last success was LockTtl - left ticks ago. *)
MonitorRenew(c) ==
  /\ LeaseValid(c)
  /\ renew[c] = "none"
  /\ LockTtl - left[c] >= Heartbeat
  /\ renew' = [renew EXCEPT ![c] = "sent"]
  /\ age' = [age EXCEPT ![c] = 0]
  /\ Send("extend", c)
  /\ UNCHANGED <<redis, late, pc, token, left, lost, waited, resent, snap, result>>

(* EXTEND_SCRIPT, for a client that waits. *)
ServeExtend(c) ==
  /\ Command("extend", c) \in net
  /\ net' = net \ {Command("extend", c)}
  /\ \/ /\ lock.owner = c
        /\ lock' = Held(c)
        /\ renew' = [renew EXCEPT ![c] = "extended"]
     \/ /\ lock.owner # c
        /\ renew' = [renew EXCEPT ![c] = "notHeld"]
        /\ UNCHANGED lock
  /\ UNCHANGED <<fence, store, late, pc, token, left, lost, age, waited, resent, snap, result>>

(* Mutant of Renewed: the lease counts from the reply. *)
RenewedAtReply(c) ==
  /\ renew[c] = "extended"
  /\ renew' = [renew EXCEPT ![c] = "none"]
  /\ left' = IF ~lost[c] THEN [left EXCEPT ![c] = LockTtl] ELSE left
  /\ age' = [age EXCEPT ![c] = 0]
  /\ UNCHANGED <<redis, net, late, pc, token, lost, waited, resent, snap, result>>

(* markRenewed(sentAt): from the time of sending, ignored by a lost lease  *)
(* and when it would not advance the last success.                         *)
Renewed(c) ==
  /\ renew[c] = "extended"
  /\ renew' = [renew EXCEPT ![c] = "none"]
  /\ left' = IF ~lost[c] /\ LockTtl - age[c] > left[c]
               THEN [left EXCEPT ![c] = LockTtl - age[c]]
               ELSE left
  /\ age' = [age EXCEPT ![c] = 0]
  /\ UNCHANGED <<redis, net, late, pc, token, lost, waited, resent, snap, result>>

(* Redis says the token is not ours: LOCK_NOT_HELD at once. *)
RenewNotHeld(c) ==
  /\ renew[c] = "notHeld"
  /\ renew' = [renew EXCEPT ![c] = "none"]
  /\ lost' = [lost EXCEPT ![c] = TRUE]
  /\ age' = [age EXCEPT ![c] = 0]
  /\ UNCHANGED <<redis, net, late, pc, token, left, waited, resent, snap, result>>

RenewFails(c) ==
  /\ renew[c] # "none"
  /\ renew' = [renew EXCEPT ![c] = "none"]
  /\ Abandon("extend", c)
  /\ age' = [age EXCEPT ![c] = 0]
  /\ UNCHANGED <<redis, pc, token, left, lost, waited, resent, snap, result>>

-----------------------------------------------------------------------------
(* release()                                                               *)

(* Mutant of FreeIfMine: an unconditional DEL. *)
FreeAnyway(c) == lock' = IF c \in Calls THEN Free ELSE lock

(* RELEASE_SCRIPT: compare and delete. *)
FreeIfMine(c) == lock' = IF lock.owner = c THEN Free ELSE lock

ServeRelease(c) ==
  /\ Command("release", c) \in net
  /\ net' = net \ {Command("release", c)}
  /\ FreeIfMine(c)
  /\ Goto(c, "done")
  /\ UNCHANGED <<fence, store, late, token, lease, age, waited, resent, snap, result>>

(* An error of the release is logged and dropped: the TTL frees the lock. *)
ReleaseFails(c) ==
  /\ pc[c] = "ending"
  /\ Abandon("release", c)
  /\ Goto(c, "done")
  /\ UNCHANGED <<redis, token, lease, age, waited, resent, snap, result>>

-----------------------------------------------------------------------------
(* The environment                                                         *)

(* Redis executes a command whose client no longer waits. *)
ServeLate ==
  \E m \in late :
    /\ late' = late \ {m}
    /\ \/ /\ m.kind = "acquire"
          /\ lock.owner = None
          /\ lock' = Held(m.call)
          /\ fence' = fence + 1
          /\ UNCHANGED store
       \/ /\ m.kind = "acquire"
          /\ lock.owner # None
          /\ UNCHANGED redis
       \/ /\ m.kind = "extend"
          /\ lock' = IF lock.owner = m.call THEN Held(m.call) ELSE lock
          /\ UNCHANGED <<fence, store>>
       \/ /\ m.kind = "write"
          /\ Apply(m)
          /\ UNCHANGED <<lock, fence>>
       \/ /\ m.kind = "release"
          /\ FreeIfMine(m.call)
          /\ UNCHANGED <<fence, store>>
    /\ UNCHANGED <<net, pc, token, lease, age, waited, resent, snap, result>>

(* ioredis (maxRetriesPerRequest: 1) sends an unanswered command again     *)
(* after a reconnection: it may have been executed, its reply was lost.    *)
Resend(c) ==
  /\ ~resent[c]
  /\ resent' = [resent EXCEPT ![c] = TRUE]
  /\ \/ /\ pc[c] \in {"granted", "busy"}
        /\ Goto(c, "asked")
        /\ Send("acquire", c)
        /\ token' = [token EXCEPT ![c] = 0]
     \/ /\ pc[c] \in {"stored", "rejected"}
        /\ Goto(c, "writing")
        /\ Send("write", c)
        /\ UNCHANGED token
  /\ UNCHANGED <<redis, late, lease, age, waited, snap, result>>

(* The process of the call dies.  Its lease and monitor die with it. *)
Crash(c) ==
  /\ pc[c] \notin {"idle", "done", "crashed"}
  /\ Goto(c, "crashed")
  /\ left' = [left EXCEPT ![c] = 0]
  /\ lost' = [lost EXCEPT ![c] = FALSE]
  /\ renew' = [renew EXCEPT ![c] = "none"]
  /\ Drop({Command(k, c) : k \in Kinds}, {})
  /\ token' = [token EXCEPT ![c] = 0]
  /\ snap' = [snap EXCEPT ![c] = {}]
  /\ Settled(c)
  /\ UNCHANGED <<redis, result>>

Older(n, limit) == IF n < limit THEN n + 1 ELSE limit

(* Mutant of Aged: the key was set without PX. *)
NeverAged(l) == l
Aged(l) == IF l.ttl > 1 THEN [l EXCEPT !.ttl = @ - 1] ELSE Free

Tick ==
  /\ lock' = Aged(lock)
  /\ left' = [c \in Calls |-> IF left[c] > 0 THEN left[c] - 1 ELSE 0]
  /\ age' = [c \in Calls |->
               IF pc[c] \in Waiting \/ renew[c] # "none"
                 THEN Older(age[c], LockTtl) ELSE age[c]]
  /\ waited' = [c \in Calls |->
                  IF pc[c] \in Waiting THEN Older(waited[c], AcquireBudget)
                                       ELSE waited[c]]
  /\ UNCHANGED <<fence, store, net, late, pc, token, lost, renew, resent, snap, result>>

(* FENCE_TTL_MS: an hour without an acquisition.  The counter is forgotten;*)
(* by then no call of that hour is running (a task lasts milliseconds) and *)
(* no command is in flight.                                                *)
FenceExpires ==
  /\ fence > 0
  /\ lock = Free
  /\ \A c \in Calls : pc[c] \in {"idle", "done", "crashed"}
  /\ fence' = 0
  /\ net' = {}
  /\ late' = {}
  /\ UNCHANGED <<lock, store, pc, token, lease, age, waited, resent, snap, result>>

Acquire(c) == Begin(c) \/ SendAcquire(c) \/ AcquireBusy(c) \/ GiveUp(c) \/ Acquired(c)
Task(c) == Read(c) \/ ReadFails(c) \/ Write(c) \/ WriteBlocked(c) \/ Finish(c)
Monitor(c) == MonitorExpired(c) \/ MonitorRenew(c) \/ Renewed(c) \/ RenewNotHeld(c)
Serve(c) == ServeAcquire(c) \/ ServeWrite(c) \/ ServeExtend(c) \/ ServeRelease(c)
Fails(c) == AcquireFails(c) \/ WriteFails(c) \/ RenewFails(c) \/ ReleaseFails(c)

Next ==
  \/ \E c \in Calls :
       \/ Acquire(c) \/ Task(c) \/ Monitor(c) \/ Serve(c) \/ Fails(c)
       \/ Resend(c) \/ Crash(c)
  \/ ServeLate
  \/ Tick
  \/ FenceExpires

Spec == Init /\ [][Next]_vars

-----------------------------------------------------------------------------
(* What moves the call itself on: the event loop of a live process, and    *)
(* the reply or the failure of the command it awaits.                      *)
Progress(c) ==
  \/ SendAcquire(c) \/ AcquireBusy(c) \/ GiveUp(c) \/ Acquired(c)
  \/ Task(c)
  \/ ServeAcquire(c) \/ ServeWrite(c) \/ ServeRelease(c)
  \/ AcquireFails(c) \/ WriteFails(c) \/ ReleaseFails(c)

(* Time passes and every call alive moves on.  Nothing is assumed of the   *)
(* lease monitor, of late commands, of crashes and of reconnections.       *)
Fairness == WF_vars(Tick) /\ \A c \in Calls : WF_vars(Progress(c))

FairSpec == Spec /\ Fairness

-----------------------------------------------------------------------------
TypeOK ==
  /\ lock \in [owner : Calls \cup {None}, ttl : 0..LockTtl]
  /\ fence \in Nat
  /\ store \in SUBSET Calls
  /\ net \in SUBSET Cmd
  /\ late \in SUBSET Cmd
  /\ pc \in [Calls -> {"idle"} \cup Waiting \cup Holding \cup Over]
  /\ token \in [Calls -> Nat]
  /\ left \in [Calls -> 0..LockTtl]
  /\ lost \in [Calls -> BOOLEAN]
  /\ age \in [Calls -> 0..LockTtl]
  /\ waited \in [Calls -> 0..AcquireBudget]
  /\ renew \in [Calls -> {"none", "sent", "extended", "notHeld"}]
  /\ resent \in [Calls -> BOOLEAN]
  /\ snap \in [Calls -> SUBSET Calls]
  /\ result \in [Calls -> {"none", "ok", "error"}]

(* A lease a call believes valid is backed by the key in Redis, for at     *)
(* least as long as the call believes: the local estimate never outlives   *)
(* the server's (markRenewed, attemptedAt), and nobody else's RELEASE or   *)
(* EXTEND touches the key meanwhile.                                       *)
LeaseConservative ==
  \A c \in Calls : LeaseValid(c) => lock.owner = c /\ left[c] <= lock.ttl

(* No two calls believe at once that they hold the lock, however replies,  *)
(* renewals and expirations are delayed.                                   *)
MutualExclusion ==
  \A c, d \in Calls : LeaseValid(c) /\ LeaseValid(d) => c = d

(* A caller told "ok" has its update in the record and keeps it there:     *)
(* no later holder, and no stale one waking up, overwrites it from a       *)
(* record read before.                                                     *)
AcknowledgedIsStored ==
  \A c \in Calls : result[c] = "ok" => c \in store

(* No accepted write is computed from a record that another write has      *)
(* replaced since: the calls that were in the record stay in it, whatever  *)
(* they were told.                                                         *)
NoLostUpdate == [][store \subseteq store']_vars

(* The lock with fencing implements the serial store. *)
Serial == INSTANCE SerialStore WITH Calls <- Calls, store <- store, result <- result
SerialSpec == Serial!Spec

(* Who knows its fencing token (LockLease.fence). *)
HasToken(c) == pc[c] \in Holding \cup {"granted"}

(* Whose token is the newest: of the calls, and of the writes that their   *)
(* callers gave up.                                                        *)
Writers ==
  {c \in Calls : HasToken(c) /\ token[c] = fence}
  \cup {m.call : m \in {l \in late : l.kind = "write" /\ l.token = fence}}

(* It is a fenced lock: an acquisition, even one nobody hears of, shuts    *)
(* out every earlier holder and every write still under way for one        *)
(* (ACQUIRE_SCRIPT, FENCED_SET_SCRIPT).                                    *)
Fencing == INSTANCE FencedLock WITH
  Clients <- Calls, owner <- lock.owner, writers <- Writers, data <- store
FencedSpec == Fencing!Spec

(* withLock always settles: contention, an unreachable Redis or a lost     *)
(* lease end it, unless its process dies.                                  *)
CallsSettle ==
  \A c \in Calls : pc[c] = "trying" ~> pc[c] \in {"done", "crashed"}

(* A holder that dies, or whose RELEASE never arrives, does not keep the   *)
(* room locked for ever.                                                   *)
DeadHolderFrees ==
  \A c \in Calls :
    [](pc[c] \in {"done", "crashed"} /\ lock.owner = c => <>(lock.owner # c))
=============================================================================
