# song-quiz: TLA+ models and proofs

song-quiz is a multiplayer music quiz.  `apps/game`, a NestJS and Socket.IO
server of which several instances run at once, shares the state of the rooms in
Redis: a room is played correctly only if a distributed lock, a fencing token,
timers kept in a sorted set and records written command by command work together
while instances crash, connections break and handlers run late or twice.
`apps/api` keeps quizzes and inquiries in MySQL; `apps/web` is the page that
enters rooms, reports readiness and plays the songs.  This directory models the
parts of the three where state is shared or arrives out of order, checks the
models with TLC and proves their safety properties with TLAPS.

Paths below are relative to `apps/game/src/room/` unless they begin with
`apps/` or `cache/`.

## The system

| Component | State it keeps | Operations | What makes it correct |
|---|---|---|---|
| Room lock (`room-lock.service.ts`) | `lock:<key>` with a TTL, `lock:fence:<key>`; per call a lease, a monitor | acquire, renew, release; run a task | one valid lease at a time; every call settles; a dead holder's lock is freed |
| Fenced store (`room-fenced-state.store.ts`, `cache/cache.service.ts`) | the values in Redis, a local fallback cache | strict and lenient get/set, fenced set/del | no write computed from an old record is accepted; "ok" means stored |
| Room game (`room.service.ts`, `room-round.service.ts`, `room.repository.ts`) | `room:<id>` (status, participants, host, current round), song order, rounds snapshot, answers, reveal | create, join, leave, update, start, ready, answer, skip, force skip, next, delete | a room never waits for what has happened; the song played is the one judged and revealed; it has a host; all rounds are played |
| Timers (`room-timer.service.ts`) | ZSET `room:timers`: round-timeout, speed-reveal, speed-next, disconnect-grace | schedule, cancel, poll/claim, handle, delete if reserved | at least once, until the handler has succeeded; no timer of a round in progress is lost |
| Gateway (`room.gateway.ts`) | `socketMemberships`, Socket.IO rooms, the grace timer | enter, leave, disconnect, grace expiry, game events | a participant who is gone leaves in the end; nobody is forgotten |
| Index (`room-index.repository.ts`, `room-index-reconciler.service.ts`) | `room:index` | add, remove, reconcile, list | a room that was created and lives is on the list |
| Inquiries (`apps/api/src/inquiry`, `admin`, `slack`) | MySQL: inquiry, action, action log | submit, judge, approve, reject, execute, notify | one execution at a time; inquiry and action agree; nothing is called done that was not |
| Quizzes (`apps/api/src/quiz`) | MySQL: quizzes, songs, answers, notifications | create, update, delete, safety net | one registration a day; the songs are those of the last save |
| Room page (`apps/web/src/pages/RoomGamePage.tsx`, `components/GamePlayer.tsx`) | the socket, the room it shows, refs, timers, the YouTube player | check, join, connect, leave; report readiness, warm up, start | silent before the start, heard after it; its report counts |
| Abuse guard, chat, users, e-mail codes, throttler | counters, bounded lists, rows | count, check, append | limits hold under concurrency |
| Notifications, Slack, admin CRUD, scrapers, OpenAI | MySQL rows | CRUD, external calls | nothing concurrent of their own |
| Other pages, admin client, lambdas, packages, infra, docs, evals, load tests | none of record | | not models of state |

How they interact.  A page asks the game server by REST to join, then connects a
socket and sends `room:enter`.  A request or event reaches a controller or the
gateway, which calls one operation of the room service.  The operation runs in
`withLock("room:<id>")`: it reads the record, changes it in memory, writes round
data and arms timers, saves the record with its fencing token, cancels timers on
a best effort and emits `room-updated`, which the gateway broadcasts.  Every
instance polls the ZSET; a claimed timer calls an operation again.  A socket that
closes arms disconnect-grace, whose handler calls `leaveRoom`.  Creating and
deleting a room touch the index under a second lock.  The page sends inquiries
and quizzes to the API, where a background pipeline or safety net goes on with
them after the answer.

What is hard: leases that end while their holder is still running; commands
that execute after the client gave them up, or twice; operations that stop
between two writes; handlers that are late, claimed again after a crash, or
belong to a round that is over; participants who leave while others wait for
them; a status kept in two rows; background work on rows that have been replaced
since; reports that are made once over a connection that breaks.  `PROJECT.json`
lists these hazards with their lines and the properties that catch them.

## Modules

| Module | What it is |
|---|---|
| `SerialStore` | abstract: what lock and fencing promise to the services, a serial read-modify-write |
| `FencedLock` | abstract: what lock and fencing promise about writers, that only the last to acquire may write |
| `RoomLock` | one lock key, its fence and the record it protects, down to single Redis commands |
| `GameRounds` | abstract: what a room promises those in it, rounds in order that begin when all are ready |
| `RoomGame` | one room: record, round data, three timers and their handlers |
| `RoomPresence` | one user: pages, sockets, the gateway, the grace timer, being a participant |
| `RoomDirectory` | abstract: what the list of rooms promises its readers |
| `RoomIndex` | records and index under nested locks that lapse, with the reconciler |
| `Inquiry` | inquiries, their pipeline and the administrators |
| `QuizRegistration` | quizzes of one user and the safety net behind them |
| `RoundPlayback` | one page through the rounds: socket, readiness, player |
| `RoomLockProofs`, `RoomGameProofs`, `RoomPresenceProofs`, `RoomIndexProofs`, `InquiryProofs`, `QuizRegistrationProofs`, `RoundPlaybackProofs` | theorems about them |
| `MCRoomLock`, `MCRoomGame`, `MCRoomPresence`, `MCRoomIndex`, `MCInquiry`, `MCQuizRegistration`, `MCRoundPlayback` | finite instances for TLC |

The modules rest on one another by what they take as one step.  `RoomLock` shows
that read, compute and write under the lock are serial (`SerialSpec`); therefore
an operation is one step on the record in `RoomGame` and `RoomPresence`.
`RoundPlayback` takes the removal of a participant from `RoomPresence`.

Where a module holds a simpler picture of another one, both are shown to
implement the same abstract module, and the picture is read off it:

| Contract | The code's side | The side that relies on it |
|---|---|---|
| `FencedLock` | `RoomLock` (`FencedSpec`): tokens, leases, late commands | `RoomIndex` (`LocksFenced`): each lock is its last token, whether it is held, and whether its last holder is still in its section |
| `GameRounds` | `RoomGame` (`RoundsSpec`): operations cut short, timers, round data | `RoundPlayback` (`RoundsSpec`): the others are one flag |

Refinement on the relying side says that its picture does nothing the contract
forbids.  That it leaves out nothing that matters to it (a TTL may pass at any
time, any other participant may come and go unnoticed while the flag stands for
all of them) is not stated by a property; it is argued in the sections below.
`GameRounds` ends a game after its last round, or, once the songs of the game are
lost (`LoseSongs`), with the round it is in; a room may lapse (`Lapse`), but not
while a round with songs is loading or played.
In `GameRounds` a report counts from anybody, also from a user who has left but
whose socket has not: `markReady` does not look, and the begin of a round is
judged by the members.

### RoomLock

A member of `Calls` is one `withLock(key, task)` in some instance.  Its task is
what every room operation does: read strictly, compute, write once.  `pc` is
the place in `withRedisLock` and `acquire`; `token`, `left` and `lost` are the
fields of its `LockLease` (`left` is the time until `leaseValidUntil`); `lock`,
`fence` and `store` are in Redis.  `Send`/`Serve...`/reply actions split every
command in three: sending, execution, arrival of the reply.  The protected
record is represented by the set of calls whose update it incorporates, so that
a lost update is visible.

- Time is in ticks that count TTLs down and ages up.  The code subtracts from
  the time of *sending* (`attemptedAt`, `sentAt`); so does the model, with `age`.
- A command that fails (`AcquireFails`, `WriteFails`, `RenewFails`,
  `ReleaseFails`) or whose process dies (`Crash`) may already have been executed,
  may never be, or may be executed later (`late`, `ServeLate`).  `LateKinds` says
  which kinds may be late in a run.
- `Resend` is ioredis with `maxRetriesPerRequest: 1`: an executed command whose
  reply was lost is executed again.  A resent acquisition finds its own key and
  is told busy: the lock is then left to its TTL, as in the code.
- The fence counter expires (`FenceExpires`) only when no call is running and
  no command is in flight.  That is what the comment at
  `room-lock.service.ts:44-49` argues for its hour; it is an assumption here.
- Redis is one server that executes commands one by one and does not forget
  acknowledged ones; a failover that loses writes is outside the model.

### RoomGame

An operation is one step on the record.  It is not one step on Redis, so each
operation ends in one of several *fates*, a prefix of its commands: "armed"
(timers were armed, the save was not made or was refused), "saved" (the save
took effect but the operation failed afterwards or was not heard of), "done".  A
failure before any effect is no step.  A crash of the instance is the same
prefix.  In `Prepared` the prefix is the number of writes among answers, reveal,
record; in `GameOver`, where deletions run concurrently (`Promise.all`), it is all
of them with or without the save, or a failure with the song order deleted or not:
which of the others were deleted does not matter, since nothing reads the answers
and the reveal of a round that has ended.

| Definition | Code |
|---|---|
| `room` | the `RoomRecord`; status `GONE` when the key is absent; `shown` is the round whose reveal was copied in |
| `keys` | `room:song-order` with `room:rounds`: stored, expired, or none; `room:answers`, `room:reveal`: the round they were written for |
| `entered` | users with a socket that entered: they may send ready, answers and skips even after leaving by REST |
| `timer[k]` | member `k\|room` of the ZSET: `set`, and `by` which handler the score is reserved (NoRun: a time that was scheduled) |
| `runs[i]` | a call of `fireClaimed`: the handler has yet to run, has succeeded ("ok"), has taken the room for absent ("missed") |

Keys expire.  The song order and the rounds are written once, in `prepareFirstRound`
(`room-round.service.ts:89-92`), for six hours (`room.repository.ts:144-151,
174-183`), and never again in that game; the record gets its six hours anew with
every `saveRoom` (`:107-114`).  So in a game that outlives them `OrderExpires` may
happen at any moment between start and end, while the record stays.  From then on
`getSongOrder` gives `[]` and `advanceToNextRound` ends the game with the round it
is in.  The record was written after the song order with the same TTL and so
outlives it (`RoomExpires`: not while a game has a stored song order); a room that
waits or is finished may expire at any moment.  Answers and reveal are written for
each round, after the song order.  Once it has expired they may have, too: then
nothing is recognised as an answer, and `finalizeRoundEnd` reveals nothing
(`Reveals`).  Delays being arbitrary, the model does not say how long a game must
last for this.

Left out: who comes next as host (any remaining user may, the code takes the
first), nicknames, passwords, points, the texts of answers, delays (a set timer
may fire at any time, which includes a reservation that has passed while its
handler is still running).  `forceSkip` on a room where it arms the timer is one
step; its failure has no effect.

### RoomPresence

The user is an account, whose `userId` is the same at every entry.  `joinRoom`
and `leaveRoom` run under the room lock and are one step each; everything else in
the gateway is a chain of awaits, and each await is a step boundary.

| Definition | Code |
|---|---|
| `page`, `held`, `session` | `RoomGamePage` in each tab, the connection it has, the membership in localStorage |
| `member` | the user is in `participants` of the record |
| `open`, `inRoom`, `known` | connections not yet seen closing, what `fetchSockets` finds, entries of `socketMemberships` |
| `enter[s]`, `leave[s]`, `tries[s]` | where `handleEnter`, `handleDisconnect` or `handleLeave` is for a socket; attempts of `removeParticipantWithRetry` |
| `timer`, `run[r]` | the disconnect-grace member; `handleDisconnectGraceExpired` with its claim, handler and compare-and-delete |
| `seen`, `lost` | history: a socket of the user has entered; the gateway lost track in a way the code accepts |

A socket that closes leaves its Socket.IO room at once and joins none afterwards;
the server may notice late that a client is gone.  `lost` is set (by `Lose`) when
a process dies with the connections it has, when `handleEnter` of a socket that
has gone leaves an entry nobody will remove, when the look for other sockets
rejects in `handleDisconnect`, when all attempts of the fallback or an explicit
leave fail, and when a removal takes a room it could not read for absent.
`Tracked` says that these are all the ways.

### RoomIndex

A lock is what `RoomLock` shows of it: the last to acquire it has the largest
fencing token (`last`), a write on behalf of anyone else is refused, and its TTL
may pass (`Lapse`) while the holder works on.  The index lock is taken inside the
room lock, and the write of the index carries the token of the index lock only
(`getFenceGuard` takes the innermost), so that a request whose room lock has
lapsed still writes the index.  `createRoom` saves and rolls back outside any
lock, as in the code.  `record`, `created` (rooms whose creator was answered) and
`index` are the keys; `pc`, `op`, `room` and `base` belong to a request: where it
is, what it does, on which room, and the index it has read.  Every write may take
effect without its caller hearing of it, a process may die anywhere, and records
expire.  `ExpiresInUse` says whether a record may expire between the read and the
save of one update: see the bounds.

### Inquiry

A status lives twice, in the inquiry and in its action.  A transition of the
action is one transaction with its log; the inquiry is saved later, as the worker
read it, with no condition.  A worker is an inquiry (its submission, then its
pipeline) or an administrator's request; `pc`, `on` and `goal` are its place, the
inquiry it works on and the status it will finish with.  A call of the database
may fail with or without effect, a process may die at any await (`cut`, history).
The pipeline moves the action out of PROPOSED without a condition; `overridden`
records that this wrote over the claim of a reviewer who was quicker.  The AI
returns any verdict.  `SongGoes` is the owner or the safety net taking the song
away.

### QuizRegistration

A transaction is seen by others when it commits; inside it the row it locks
matters (`userLock`, `quizLock`).  Every save of a quiz gives its songs new row
ids, so a row is a save (`Versions`) and a song.  A safety net runs outside any
transaction, for the rows of its own save, answers first, then the song, then the
notification (`net`, `left`, `now`, `excluded`, `notice`), and may die between any
two of them.  `today` is what counts against the interval of 24 hours.  The net
is modelled as it is when links are verified; the switch
`YOUTUBE_LINK_VERIFICATION_ENABLED` is off in the present configuration and the
code behind it is kept.

### RoundPlayback

The page of one participant.  The other participants are one flag of `room`: ready
or not.  `link` is the socket, `snap` what a `room:enter` under way has read,
`outbox` what has been emitted and has not arrived, `view` the room the page
shows, `refs` the refs of `GamePlayer`, `warm` the timer that ends the warm-up,
`player` the commands the iframe has been given.  Effects run with the state
change that triggers them (`Show`), with the clean-up of the effect before them
(`Cut`).  Broadcasts to a socket that has joined arrive at once and in order.
What is emitted without a connection is kept by socket.io and sent first, before
the handler of `connect` sends `room:enter`; the server refuses it there.  The
iframe is external: it may get ready at any time or never, and play or not.  The
song order may expire (`room.lost`), as in `RoomGame`.  Left out: the expiry of the
record, after which the page hears nothing more; the removal by the grace timer of
a user who has come back in the meantime (`room.gateway.ts:475`; `Removed` happens
while the socket is down), whose page goes on although its user is no longer in
the room: each game would add reports that nobody waits for; the answer to a REST edit, which also sets the room the page shows, the clock
offset, volume and errors of the player.

## Runs

| Run | Instance | Checks |
|---|---|---|
| `lock_safety` | 2 calls, TTL 2 ticks, heartbeat 1, budget 1, late acquire and write | `TypeOK`, `MutualExclusion`, `AcknowledgedIsStored`, refinements `SerialSpec`, `FencedSpec` |
| `lock_live` | 2 calls, budget 1, late release, fairness | `LeaseConservative`, `CallsSettle`, `DeadHolderFrees` |
| `game_safety` | 2 users (symmetric), 2 rounds, 1 handler | `TypeOK`, `NeverWaitsInVain`, `RightSong`, `HostPresent`, `TimeoutKept`, `AutoNextKept`, `AllRoundsPlayed`, refinement `RoundsSpec` |
| `game_live` | 1 user, 2 rounds, 2 handlers, fairness | `TimeoutKept`, `RoundsEnd` |
| `game_orphan` | as `game_safety` | expects a violation of `TimeoutArmed` |
| `game_stale` | as `game_safety`, timers remember their round | expects a violation of `StaleTimerNoOp` |
| `presence` | 1 tab, 2 connections, 1 grace handler, 2 attempts, fairness | `TypeOK`, `Tracked`, `OfflineRemoved` |
| `index` | 2 rooms, 2 requests at a time | `TypeOK`, `OpenRoomsListed`, refinements `DirectorySpec`, `LocksFenced` |
| `inquiry` | 1 inquiry, 2 administrators, 1 answer, limit 1, fairness | `TypeOK`, `ExecutesAlone`, `ClaimHeld`, `CompletedApplied`, `Decided` |
| `inquiry_rejected` | as `inquiry` | expects a violation of `RejectedStands` |
| `quiz` | 2 quizzes, 2 saves, 2 songs of which 1 is enough, 2 requests | `TypeOK`, `OneADay`, `SongsAsSubmitted`, `NoticeTrue` |
| `player` | 2 rounds, 2 lost connections or reloads, fairness | `TypeOK`, `SilentBefore`, `HeardAfter`, `ReportCounts`, refinement `RoundsSpec`, `LoadingEnds` |

Why the bounds are enough to be interesting.

- Lock: two calls are a holder and its successor; the races of a lock are between
  these two, and a third only repeats them.  The kinds of late command are split
  over two runs because all four together are beyond the time of a run; a late
  extend is left to the proofs, which cover all kinds.  A TTL of two ticks with a
  heartbeat of one has a renewal in time, a late renewal and an expiry.
- Game: two users are the one who leaves and the one who remains, with a majority
  that depends on who is there; two rounds are a round with a next one and a last
  one, so that a song order can expire before, in and after the last; two handlers,
  one that is late and one that has taken its place.  With one user `game_live` can
  afford both.  Nothing tells the two users apart (whoever creates the room), so
  `game_safety` explores them up to exchange.
- Presence: two connections are an old one, not yet seen closing, and its
  successor, on two servers; a tab that closes and opens again stands for a second
  tab.  Two attempts are a first one and a last.
- Index: two requests are creation, update or deletion of a room against the
  reconciler, another room's request in between being the second room.
  `ExpiresInUse` is FALSE: a record lives for six hours after it was last saved,
  so to expire between the read and the save of one update it must have been idle
  for six hours until that very moment.  With TRUE, TLC finds `OpenRoomsListed`
  violated: the save brings back a room that the reconciler saw gone.
- Inquiry: two administrators on one inquiry are all that can meet; the limit of
  one is reached by its own submission.  Several inquiries and answers are left to
  the proofs.
- Quiz: two saves are one and the one that replaces it, of the same quiz or of
  two; with two songs a net excludes one, both or none, above and below the
  minimum.
- Player: two rounds, and games one after the other; `MaxDrops` bounds only
  failures, and two of them reach a connection lost while the previous loss is
  being repaired.

Deadlock checking is off because these systems do stop: all calls have settled,
the room is gone with its timers, nobody is connected.  Constants named in braces
in the configurations are model values; symmetry is used where no liveness
property is checked.

### Fairness

`lock_live`: time passes (`WF(Tick)`), and a call that is alive moves on
(`WF(Progress)`): its process runs its event loop and the command it awaits is
answered or fails, which ioredis guarantees by failing commands of a broken
connection.  Nothing is assumed of the monitor, of late commands, of Redis
being reachable.

`game_live`: an armed timeout is claimed if that is possible again and again,
since every instance polls every 300 ms; handlers finish (`withLock` settles by
`CallsSettle`); and among the handlers of a timeout one gets through in the end
(strong fairness on `GotThrough`): Redis is not down for ever whenever a handler
runs.  Nothing is assumed of users.  `RoundsEnd` therefore says that a round
whose timeout is armed ends without anybody's help, and `TimeoutKept` that it
stays armed.

`presence`: a handler the gateway has begun goes on (`WF(GoesOn)`), the server
notices a client that is gone (`WF(Notices)`: Socket.IO's ping timeout), the poll
claims the timer and each grace handler gets through in the end (strong fairness
on `Claim`, `GraceCheck` and `GraceRemoves`, as in `game_live`).  Nothing is assumed
of pages.

`inquiry`: a pipeline or request that has begun goes on in its process, until it
ends or dies.  Administrators need not come.

`player`: socket.io connects again, handlers of `room:enter` go on, what was sent
arrives while the connection lasts, the page's fallback timer fires, and the
others get ready by the same means.  Nothing is assumed of the player, of the
host, or of connections lasting; `MaxDrops` ends their losses.

## What the runs found

Three runs state a promise of the code's own comments and are violated by what
the code does.

- `game_orphan`.  The timer handlers read the record with `getRoomRecord`, which
  falls back to the local cache.  A failed GET reads as "no room", the handler
  succeeds and its timer is deleted: the round goes on without a timeout, which
  `cache/cache.service.ts:139-143` warns of and uses strict reads to avoid
  elsewhere.  `TimeoutKept`, proved, says that this is the only way.
- `game_stale`.  A timer does not carry its round and the guards look at the
  status only.  A stale round-timeout whose handler runs when the next round has
  begun ends that round.  The comment at `room-round.service.ts:187-191` expects
  it to be a no-op.
- `inquiry_rejected`.  `reject` claims the action in its UPDATE so that no
  executed action is shown as REJECTED (`inquiry.service.ts:155-159` in
  `apps/api/src/inquiry`).  The inquiry is saved afterwards without a condition,
  so an approval that overlaps with the last step of a rejection is executed and
  then shown as REJECTED.

Exceptions that properties state, because the code has them:

- `AllRoundsPlayed`, `RightSong`, `RoundsSpec`: a game that goes on for more than six
  hours loses its song order before it is over.  `getSongOrder` reads `[]`, and the
  next advance sets FINISHED in the middle of the game
  (`room-round.service.ts:242-253`); the last round may end without a reveal.  The
  comment at `room.repository.ts:127-135` names this early end as the danger that
  strict reads avoid; a TTL that saves do not renew leads to it as well.  The
  properties say that there is no other way.
- `AutoNextKept`: a `nextRound` that fails after it has cancelled the automatic
  next round leaves the room in ROUND_ENDED until the host tries again.
- `Tracked`: the ways of `lost` above.  Neither `Tracked` nor `OfflineRemoved` says
  that a user who is back is not removed: `handleDisconnectGraceExpired` looks at the
  sockets before it waits for the room lock (`room.gateway.ts:475`), and the removal
  takes place all the same.
- `ExecutesAlone`, `ClaimHeld`: the pipeline's write over a reviewer's claim; a
  worker whose call fails or whose process dies leaves an ADD_ANSWER that nobody
  can approve or reject again.
- `HeardAfter`: a player that gets ready after the scheduled start is muted again
  by `handlePlayerReady` and nothing unmutes it (`late`).  `playedRoundRef` outlives a
  game: a start marked for this round number by an earlier game keeps the scheduled
  start from happening (`GamePlayer.tsx:222-227`), and `late` covers that, too.
- `ReportCounts`, `LoadingEnds`: a report is made once, without an answer.  It is
  lost with the connection that carries it or refused before `room:enter`
  ("lost"); and the ref that says "reported" outlives a game that ended in the
  same round it starts with, that is a game of one round ("reported").
- `LoadingEnds`: `handleEnter` emits the room as it read it before its awaits, and
  a broadcast in between was not for this socket, so that the page stays behind
  until the next one; the comment at `room.gateway.ts:224-226` expects otherwise.

## Proofs

All proofs hold for every value of the constants under the assumptions named in
the modules.  Each proves an inductive invariant and derives the properties from
it.

`RoomLockProofs`.  The invariant has five parts.  `Shape` places commands and
lease fields: a call has at most the commands its place allows, and a write
that is late belongs to a call that is over.  `LeaseInv` is the argument about
time: a valid lease, and one about to be granted or renewed, is at most what
Redis has left on the key, because both count from an instant not later than
the execution of the command.  `FenceInv` keeps tokens distinct and below the
counter.  `SnapInv`: if the token of a pending write equals the counter then the
record has not changed since it was read, or this very write changed it, so
applying it, even twice, loses nothing.  `AckInv` ties outcomes to the record.
From these: `TypeCorrect`, `Conservative`, `Exclusion`, `Acknowledged`,
`UpdatesStay` and `Serializable`, the refinement of `SerialStore`.

`ImplementsFencedLock` is the refinement of `FencedLock`.  Its `writers` are
computed (`Writers`): who has a token equal to the counter, among the calls and
among the writes under way for a call that gave them up.  An acquisition, awaited
or late, raises the counter and so empties that set (`AcquireShutsOut`); no other
step adds to it (`WritersShrink`, `WritersStay`), except that the new holder
learns its token with the reply.  `OneWriter` follows from the tokens being
distinct: whatever calls believe of their leases, at most one can still write.

`DeadHolderFades` is what `DeadHolderFrees` rests on without fairness: a call that
is over stays over, the commands that could revive its hold (a late acquire or
extend) only get fewer, and unless one of them executes the time its key has left
never grows and shrinks with every tick.  (Commands, then ticks, is the measure
that decreases.)

`RoomGameProofs`.  The safety properties are proved together with facts without
which they are not inductive: `FreshRound` (a round being loaded has no answers or
skips, so a round that begins does not wait in vain), `OrderKept` (until the last
round has ended the song order has not been deleted: it exists or has expired, so
that only expiry ends a game early), `ReservedMeansOver` (if a handler that has succeeded still holds the
reservation of the timeout, the round is over: any later round would have armed
the timer again and overwritten the reservation; this is what makes the
compare-and-delete safe) and `AutoReserved`, the same for the automatic next
round.  `Sound` collects what each operation preserves; `ClericalSound` covers
the steps of handlers that leave the record alone.  From these: `TypeCorrect`,
`HostStays`, `SongsRight`, `NoVainWait`, `TimeoutNeverLost`, `AutoNextNeverLost`,
`NoEarlyEnd`.

`ImplementsRounds` is the refinement of `GameRounds`: every fate of every
operation, and every expiry, is one abstract step or none.  That the next round, or
the end, is the right one (`AdvanceIsNext`) needs `OrderKept`, since a deleted order
reads as one without songs; an expired one is `lost` in the abstraction (`Lost`).  That a departure begins the round exactly when the last one
missing has left (`LeaveIsLeave`), and a report exactly when it is the last
(`ReadyIsReady`), follows from the operations themselves.

`RoomPresenceProofs`.  `Joined` (a socket in the Socket.IO room has its entry, so
its disconnection will be handled) and `Settling` (while a grace handler that has
succeeded still holds the reservation of the timer, its member is not what keeps
track of the user: a socket, an entry or another handler does) carry
`NeverForgotten`, i.e. `Tracked`, through the gaps between awaits.
`GoneIsNoticed` adds `HeldByPages` (only a page in the room has a connection): for
a participant whose pages are all closed there is a closing to notice, a handler
to go on or a timer to claim.

`RoomIndexProofs`.  Under `~ExpiresInUse`.  `Current`: what the holder of the last
token of the index lock has read is still the index.  `Fenced`: a record that is
about to be saved, with the last token of its room, still lives (or its creation
has failed, `Doomed`), so that no save brings back a record seen gone.  `Removing`:
whoever is about to take an entry off does so for a room that is gone or doomed.
`Creation` and `Known`: a room is created once, and a creator that is going on is
not yet on the list nor answered.  From these `RoomsListed` and
`ImplementsDirectory`, the refinement of `RoomDirectory`.  `LocksAreFenced`, the
refinement of `FencedLock` by every lock, needs `Shape` only, and no assumption.
The `writers` of a lock are its `Bearers`: the last to have acquired it, while it
is in the section under it.  A request enters a section by acquiring (`SectionStep`)
and writes the index only past the comparison of `Accepted`, so a step either
acquires, or only ends sections and frees locks (`LockEnds`).  Without the
comparison a late writer would change the index after the next holder is done,
when there are no writers (the mutant of the property).

`InquiryProofs`.  `Goals` and `Starts` place workers (what each may finish with, and
that there is an action before there is a reviewer), `Alone` makes the claim in
the UPDATE exclusive from there to the save of COMPLETED, and `Effective` says that
who is about to record COMPLETED has had its effect.  From
these `AnswersAlone`, `ClaimsHeld`, `NothingPretended`.  `NotForgotten`: a received
inquiry is at a step of its own pipeline until it is decided or cut.

`QuizRegistrationProofs`.  `Locked` (who counts the quizzes of the interval holds the
row of the user until the save), `Fresh` (no save belongs to two quizzes), `NetOK` (what a net has left to
check, excluded and named add up) and `RowsOK` (rows go only through the net of
their own save) give `OneRegistration`, `SongsStay` and `NoticesTrue`.

`RoundPlaybackProofs`.  The properties are nearly inductive; `Indexed` (a round that
loads has an index, so that a ref is not taken for its report while null) is what
they lack.  `NeverEarly`, `GoesOnPlaying` and `ReportsCount` hold for any number of
rounds and lost connections.  `PlaysTheRounds`, the refinement of `GameRounds`,
needs that only a participant's socket enters (`EntersAsMember`).  `LoadingStirs`
says that a round loads only while somebody or something is still to come; it
puts `ReportCounts` together with `Asks` (a socket that is up has asked to enter)
and `AwaitsMe` (when the others are ready the round waits for this page).

Only model-checked, because liveness under fairness, and ENABLED, are out of the
prover's reach: `CallsSettle`, `DeadHolderFrees`, `RoundsEnd`, `OfflineRemoved`,
`Decided`, `LoadingEnds`.  Of four of them the half that does not depend on
fairness is proved, that there always is somebody or something left to act:
`DeadHolderFades`, `GoneIsNoticed`, `NotForgotten`, `LoadingStirs`; of `RoundsEnd`
it is `TimeoutNeverLost`.  These theorems name the steps by their conditions, not
by ENABLED, and do not say that what is left to act ever gets through: that is the
fairness the runs assume.  `TimeoutArmed`, `StaleTimerNoOp` and `RejectedStands` are false
of the code.

## Not modelled

- The mode without Redis (`withLocalLock`, in-process timers): a development
  set-up with one process.  Redis failover.
- Scores and points, texts of answers and nicknames, passwords and membership
  tokens; clips, artists and the search for songs; what the AI answers.
- Counters that are one get-add-set or one Lua script (abuse guard, e-mail codes,
  throttler), chat: `PROJECT.json` says what can go wrong with each; there is no
  order of several actors to explore beyond two lost increments.
- Pages that show what they fetch, the admin client, HTTP clients, scrapers,
  lambdas, infrastructure, evals and load tests: no state shared between actors.
  The pages are a large part of the code's lines, and are layout and forms.
- Timer commands of the game that are neither fenced nor awaited
  (`room-round.service.ts:193`): `RoomGame` executes or drops them with their
  operation.  A command of an old connection that arrives in a later operation
  needs `RoomLock` and `RoomGame` in one instance, whose product is beyond TLC at
  the size where it happens.

## What could come next

The composition of lock and game for the unfenced timer commands; guests, who are
a new participant at every join, in `RoomPresence`; the gateway's side of
`RoundPlayback` and of `RoomPresence` under one contract, as lock and rounds are.
