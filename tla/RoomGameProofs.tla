--------------------------- MODULE RoomGameProofs ---------------------------
(***************************************************************************)
(* What RoomGame promises for every number of users, rounds and handlers.  *)
(*                                                                         *)
(* The safety properties are not inductive one by one: that a round just   *)
(* begun does not wait in vain needs the emptiness of its sets, that a     *)
(* game ends after its last round only needs the song order to be there    *)
(* until then or to have expired, that the timeout survives late handlers needs what a        *)
(* reservation says of the room.  IInv puts them together.                 *)
(***************************************************************************)
EXTENDS RoomGame, FiniteSetTheorems, TLAPS

(* A round being loaded has no answers and no votes yet. *)
FreshRound == room.status = "LOADING" => room.correct = {} /\ room.skip = {}

(* The song order is there until the last round has ended, or has expired. *)
OrderKept == room.status = "ROUND_ENDED" => keys.order # "none" \/ room.round = Rounds - 1

(* If the timeout is still reserved by a handler that is over, the handler *)
(* saw the round end: nothing has armed the timeout since.                 *)
ReservedMeansOver ==
  \A i \in Runs :
    /\ runs[i].stage = "ok" /\ runs[i].kind = "round-timeout"
    /\ timer["round-timeout"].by = i
    => ~Playing

IInv ==
  /\ TypeOK /\ HostPresent /\ RightSong /\ NeverWaitsInVain
  /\ FreshRound /\ OrderKept /\ ReservedMeansOver

-----------------------------------------------------------------------------
(* What a save leaves behind: the record is the old or the new one, the    *)
(* timers it does not mention stay, those it arms are armed unless it      *)
(* succeeds and they are stale too.                                        *)
LEMMA SaveEffect ==
  ASSUME TypeOK, NEW r \in Record, NEW arm \in SUBSET Kinds, NEW stale \in SUBSET Kinds,
         NEW fate \in Fates, Save(r, arm, stale, fate)
  PROVE  /\ room' = IF fate = "armed" THEN room ELSE r
         /\ timer' \in [Kinds -> Timer]
         /\ \A k \in Kinds : k \in arm \ stale => timer'[k] = ArmedFor(r)
         /\ \A k \in Kinds : k \in arm => timer'[k] \in {ArmedFor(r), Unset}
         /\ \A k \in Kinds : k \notin arm \cup stale => timer'[k] = timer[k]
         /\ \A k \in Kinds : fate # "done" /\ k \notin arm => timer'[k] = timer[k]
         /\ \A k \in Kinds : timer'[k] \in {timer[k], ArmedFor(r), Unset}
  <1>1. ArmedFor(r) \in Timer /\ Unset \in Timer
    BY RoundsAssumption, RunsAssumption DEF ArmedFor, Unset, Timer, Record, RoundIds
  <1>2. timer \in [Kinds -> Timer]
    BY DEF TypeOK
  <1>3. PICK gone \in SUBSET (IF fate = "done" THEN stale ELSE {}) :
          timer' = Without(Armed(arm, r), gone)
    BY DEF Save
  <1>4. \A k \in Kinds :
          timer'[k] = IF k \in gone THEN Unset ELSE IF k \in arm THEN ArmedFor(r) ELSE timer[k]
    BY <1>3 DEF Without, Armed
  <1>5. timer' \in [Kinds -> Timer]
    <2>1. \A k \in Kinds : Armed(arm, r)[k] \in Timer
      BY <1>1, <1>2 DEF Armed
    <2>2. QED
      BY <1>1, <1>3, <2>1 DEF Without
  <1>6. room' = IF fate = "armed" THEN room ELSE r
    BY DEF Save
  <1>7. QED
    BY <1>3, <1>4, <1>5, <1>6

(* The records the operations make. *)
LEMMA RecordMade ==
  ASSUME TypeOK
  PROVE  /\ \A r \in Record, s \in Reveals : Revealed(r, s) \in Record
         /\ \A u \in Users : [room EXCEPT !.members = @ \cup {u}] \in Record
         /\ \A u \in Users : Remaining(u) \subseteq Record
         /\ \A s \in BOOLEAN : [room EXCEPT !.speed = s] \in Record
         /\ \A u \in Users : [room EXCEPT !.ready = @ \cup {u}] \in Record
         /\ \A u \in Users : [room EXCEPT !.correct = @ \cup {u}] \in Record
         /\ \A u \in Users : [room EXCEPT !.skip = @ \cup {u}] \in Record
         /\ \A r \in Record : [r EXCEPT !.status = "PLAYING"] \in Record
         /\ \A r \in Record, n \in RoundIds : Loading(r, n) \in Record
         /\ \A r \in Record, n \in RoundIds : [Loading(r, n) EXCEPT !.status = "FINISHED"] \in Record
  <1> USE DEF TypeOK, Record, Statuses
  <1>1. ASSUME NEW r \in Record, NEW s \in Reveals PROVE Revealed(r, s) \in Record
    <2>1. s \in RoundIds
      BY RoundsAssumption DEF Reveals, Keys, RoundIds
    <2>2. [r EXCEPT !.status = "ROUND_ENDED", !.shown = s] \in Record
      BY <2>1
    <2>3. QED
      BY <2>2 DEF Revealed
  <1>2. \A u \in Users : [room EXCEPT !.members = @ \cup {u}] \in Record
    OBVIOUS
  <1>3. ASSUME NEW u \in Users PROVE Remaining(u) \subseteq Record
    <2>1. \A h \in Users : [room EXCEPT !.members = @ \ {u}, !.host = h, !.ready = @ \ {u},
                                        !.correct = @ \ {u}, !.skip = @ \ {u}] \in Record
      OBVIOUS
    <2>2. (IF room.host = u THEN room.members \ {u} ELSE {room.host}) \subseteq Users
      OBVIOUS
    <2>3. SUFFICES ASSUME NEW r \in Remaining(u) PROVE r \in Record
      OBVIOUS
    <2>4. PICK h \in IF room.host = u THEN room.members \ {u} ELSE {room.host} :
            r = [room EXCEPT !.members = @ \ {u}, !.host = h, !.ready = @ \ {u},
                             !.correct = @ \ {u}, !.skip = @ \ {u}]
      BY <2>3 DEF Remaining
    <2>5. h \in Users
      BY <2>2, <2>4
    <2>6. QED
      BY <2>1, <2>4, <2>5
  <1>4. \A s \in BOOLEAN : [room EXCEPT !.speed = s] \in Record
    OBVIOUS
  <1>5. \A u \in Users : [room EXCEPT !.ready = @ \cup {u}] \in Record
    OBVIOUS
  <1>6. \A u \in Users : [room EXCEPT !.correct = @ \cup {u}] \in Record
    OBVIOUS
  <1>7. \A u \in Users : [room EXCEPT !.skip = @ \cup {u}] \in Record
    OBVIOUS
  <1>8. \A r \in Record : [r EXCEPT !.status = "PLAYING"] \in Record
    OBVIOUS
  <1>9. ASSUME NEW r \in Record, NEW n \in RoundIds PROVE Loading(r, n) \in Record
    <2>1. -1 \in RoundIds
      BY RoundsAssumption DEF RoundIds
    <2>2. QED
      BY <2>1 DEF Loading
  <1>10. \A r \in Record, n \in RoundIds : [Loading(r, n) EXCEPT !.status = "FINISHED"] \in Record
    BY <1>9
  <1>11. QED
    BY <1>1, <1>2, <1>3, <1>4, <1>5, <1>6, <1>7, <1>8, <1>9, <1>10

(* Votes against members: nobody's vote is no majority, and no majority    *)
(* becomes one when somebody joins.                                        *)
LEMMA Votes ==
  ASSUME NEW r \in Record, NEW u \in Users
  PROVE  /\ r.skip = {} => ~SkipMajority(r)
         /\ u \notin r.members /\ ~SkipMajority(r)
              => ~SkipMajority([r EXCEPT !.members = @ \cup {u}])
  <1>1. IsFiniteSet(r.members) /\ IsFiniteSet(r.skip)
    BY FS_Subset, UsersAssumption DEF Record
  <1>2. Cardinality(r.members) \in Nat /\ Cardinality(r.skip) \in Nat
    BY <1>1, FS_CardinalityType
  <1>3. \A n \in Nat : n \div 2 \in Nat /\ (n + 1) \div 2 >= n \div 2
    OBVIOUS
  <1>4. r.skip = {} => ~SkipMajority(r)
    BY <1>2, <1>3, FS_EmptySet DEF SkipMajority
  <1>5. ASSUME u \notin r.members, ~SkipMajority(r)
        PROVE  ~SkipMajority([r EXCEPT !.members = @ \cup {u}])
    <2>1. Cardinality(r.members \cup {u}) = Cardinality(r.members) + 1
      BY <1>1, <1>5, FS_AddElement
    <2>2. [r EXCEPT !.members = @ \cup {u}].members = r.members \cup {u}
      BY DEF Record
    <2>3. [r EXCEPT !.members = @ \cup {u}].skip = r.skip
      BY DEF Record
    <2>4. QED
      BY <1>2, <1>3, <1>5, <2>1, <2>2, <2>3 DEF SkipMajority
  <1>6. QED
    BY <1>4, <1>5

-----------------------------------------------------------------------------
RecInv == HostPresent /\ RightSong /\ NeverWaitsInVain /\ FreshRound /\ OrderKept

(* What a step may do to the timeout of the round it leaves in progress:   *)
(* arm it anew, or leave it alone.                                         *)
TimeoutSafe ==
  Playing' => \/ timer'["round-timeout"].set /\ timer'["round-timeout"].by = NoRun
              \/ Playing /\ timer'["round-timeout"] = timer["round-timeout"]

FinishLast ==
  room.status # "FINISHED" /\ room'.status = "FINISHED" =>
    room.round = Rounds - 1 \/ keys.order = "expired"

Sound ==
  /\ room' \in Record /\ timer' \in [Kinds -> Timer]
  /\ RecInv' /\ TimeoutSafe /\ FinishLast

(* A round in progress ends with the reveal of its own song. *)
LEMMA EndRoundSound ==
  ASSUME TypeOK, RecInv, Playing, UNCHANGED keys,
         NEW r \in Record, r.status = "PLAYING", r.round = room.round, r.host \in r.members,
         NEW fate \in Fates, EndRound(r, fate)
  PROVE  Sound
  <1>1. PICK reveal \in Reveals : Save(Revealed(r, reveal), AutoNext(r), StaleTimers(r), fate)
    BY DEF EndRound
  <1> DEFINE e == Revealed(r, reveal)
  <1>2. e \in Record /\ AutoNext(r) \in SUBSET Kinds /\ StaleTimers(r) \in SUBSET Kinds
    BY RecordMade DEF AutoNext, StaleTimers, Kinds
  <1>3. /\ e.status = "ROUND_ENDED" /\ e.shown = reveal
        /\ e.round = room.round /\ e.host \in e.members
    BY DEF Revealed, Record
  <1> HIDE DEF e
  <1>4. /\ room' = IF fate = "armed" THEN room ELSE e
        /\ timer' \in [Kinds -> Timer]
        /\ fate = "armed" => timer'["round-timeout"] = timer["round-timeout"]
    BY <1>1, <1>2, SaveEffect DEF AutoNext, Kinds, Fates, e
  <1>5. CASE fate = "armed"
    BY <1>4, <1>5 DEF Sound, RecInv, TimeoutSafe, FinishLast, Playing, TypeOK, HostPresent,
                      RightSong, NeverWaitsInVain, FreshRound, OrderKept
  <1>6. CASE fate # "armed"
    <2>1. /\ keys.order # "none"
          /\ reveal = room.round \/ (reveal = -1 /\ keys.order = "expired")
      BY DEF Reveals, RecInv, RightSong, Playing
    <2>2. QED
      BY <1>2, <1>3, <1>4, <1>6, <2>1
         DEF Sound, RecInv, TimeoutSafe, FinishLast, Playing, HostPresent,
             RightSong, NeverWaitsInVain, FreshRound, OrderKept
  <1>7. QED
    BY <1>5, <1>6

(* The record changes within a status that goes on. *)
LEMMA SaveSound ==
  ASSUME TypeOK, RecInv, UNCHANGED keys,
         NEW r \in Record, r.status = room.status, r.round = room.round, r.shown = room.shown,
         r.status # "GONE" => r.host \in r.members,
         r.status = "LOADING" => ~AllIn(r, r.ready) /\ r.correct = {} /\ r.skip = {},
         r.status = "PLAYING" => ~AllIn(r, r.correct) /\ ~SkipMajority(r),
         room' = r \/ room' = room,
         timer' \in [Kinds -> Timer],
         \/ timer'["round-timeout"] = timer["round-timeout"]
         \/ timer'["round-timeout"].set /\ timer'["round-timeout"].by = NoRun
  PROVE  Sound
  BY DEF Sound, RecInv, TimeoutSafe, FinishLast, Playing, TypeOK, HostPresent, RightSong,
         NeverWaitsInVain, FreshRound, OrderKept, AllIn, SkipMajority

(* Everybody is ready: the round is played, with its timeout. *)
LEMMA BeginSound ==
  ASSUME TypeOK, RecInv, room.status = "LOADING", UNCHANGED keys,
         NEW r \in Record, r.status = "LOADING", r.round = room.round, r.host \in r.members,
         r.correct = {}, r.skip = {},
         NEW fate \in Fates, BeginIfReady(r, fate), r.shown = room.shown
  PROVE  Sound
  <1>1. CASE AllIn(r, r.ready)
    <2> DEFINE p == [r EXCEPT !.status = "PLAYING"]
    <2>1. p \in Record /\ {"round-timeout"} \in SUBSET Kinds
      BY RecordMade DEF Kinds
    <2>2. Save(p, {"round-timeout"}, {}, fate)
      BY <1>1 DEF BeginIfReady
    <2>3. /\ room' = IF fate = "armed" THEN room ELSE p
          /\ timer' \in [Kinds -> Timer]
          /\ timer'["round-timeout"] = ArmedFor(p)
      BY <2>1, <2>2, SaveEffect DEF Kinds
    <2>4. ~SkipMajority(p) /\ ~AllIn(p, p.correct)
      BY <2>1, Votes DEF AllIn, Record
    <2>5. /\ p.status = "PLAYING" /\ p.round = room.round /\ p.host \in p.members
      BY DEF Record
    <2> HIDE DEF p
    <2>6. QED
      BY <2>1, <2>3, <2>4, <2>5
         DEF Sound, RecInv, TimeoutSafe, FinishLast, Playing, HostPresent, TypeOK, RightSong,
             NeverWaitsInVain, FreshRound, OrderKept, ArmedFor
  <1>2. CASE ~AllIn(r, r.ready)
    <2>1. room' = r /\ timer' = timer
      BY <1>2 DEF BeginIfReady, SaveOnly
    <2>2. QED
      BY <1>2, <2>1, SaveSound DEF TypeOK
  <1>3. QED
    BY <1>1, <1>2

(* However many writes of the preparation of a round take effect, the      *)
(* record that is there and the round data agree, because the record is    *)
(* written last.                                                           *)
LEMMA PreparedSound ==
  ASSUME TypeOK, RecInv, room.status \in {"WAITING", "ROUND_ENDED", "FINISHED"},
         room.status = "ROUND_ENDED" => MoreRounds,
         NEW n \in 0 .. Rounds - 1, NEW writes \in 0..3, Prepared(room, n, writes),
         timer' \in [Kinds -> Timer]
  PROVE  Sound /\ keys' \in Keys
  <1>1. n \in RoundIds
    BY RoundsAssumption DEF RoundIds
  <1>2. Loading(room, n) \in Record
    BY <1>1, RecordMade DEF TypeOK
  <1>3. keys' \in Keys /\ keys'.order = "stored"
    BY <1>1 DEF Prepared, TypeOK, Keys, Orders
  <1>4. CASE writes > 2
    <2>1. keys'.answers = n /\ keys'.reveal = n /\ room' = Loading(room, n)
      BY <1>4 DEF Prepared, TypeOK, Keys
    <2>2. /\ room'.status = "LOADING" /\ room'.round = n /\ room'.host \in room'.members
          /\ room'.ready = {} /\ room'.correct = {} /\ room'.skip = {}
      BY <2>1 DEF Loading, RecInv, HostPresent, TypeOK, Record
    <2>3. QED
      BY <1>2, <1>3, <2>1, <2>2
         DEF Sound, RecInv, TimeoutSafe, FinishLast, Playing, HostPresent, RightSong,
             NeverWaitsInVain, FreshRound, OrderKept, AllIn
  <1>5. CASE ~(writes > 2)
    <2>1. room' = room
      BY <1>5 DEF Prepared
    <2>2. QED
      BY <1>3, <2>1
         DEF MoreRounds, Sound, RecInv, TimeoutSafe, FinishLast, Playing, TypeOK, HostPresent, RightSong,
             NeverWaitsInVain, FreshRound, OrderKept, AllIn, SkipMajority
  <1>6. QED
    BY <1>4, <1>5

(* The end of the game, of which only some deletions may take effect. *)
LEMMA GameOverSound ==
  ASSUME TypeOK, RecInv, room.status = "ROUND_ENDED", ~MoreRounds,
         NEW done \in BOOLEAN, GameOver(done), timer' \in [Kinds -> Timer]
  PROVE  Sound /\ keys' \in Keys
  <1>1. room.round = Rounds - 1 \/ keys.order = "expired"
    BY RoundsAssumption
    DEF MoreRounds, RecInv, OrderKept, TypeOK, Record, RoundIds, Keys, Orders
  <1>2. \/ room' = [Loading(room, -1) EXCEPT !.status = "FINISHED"] /\ keys' = NoKeys
        \/ /\ room' = room
           /\ \/ keys' = keys
              \/ keys.order = "stored" /\ keys' = [keys EXCEPT !.order = "none"]
    BY DEF GameOver
  <1>3. -1 \in RoundIds
    BY RoundsAssumption DEF RoundIds
  <1>4. keys' \in Keys
    BY <1>2, <1>3 DEF NoKeys, Keys, Orders, TypeOK
  <1>5. CASE room' = [Loading(room, -1) EXCEPT !.status = "FINISHED"]
    <2>1. room' \in Record
      BY <1>3, <1>5, RecordMade DEF TypeOK
    <2>2. room'.status = "FINISHED" /\ room'.host \in room'.members
      BY <1>5 DEF Loading, RecInv, HostPresent, TypeOK, Record
    <2>3. QED
      BY <1>1, <1>4, <2>1, <2>2
         DEF Sound, RecInv, TimeoutSafe, FinishLast, Playing, HostPresent, RightSong,
             NeverWaitsInVain, FreshRound, OrderKept
  <1>6. CASE /\ room' = room
             /\ \/ keys' = keys
                \/ keys.order = "stored" /\ keys' = [keys EXCEPT !.order = "none"]
    <2>1. keys.order = "expired" => keys'.order = "expired"
      BY <1>6
    <2>2. keys.order = "none" => keys'.order = "none"
      BY <1>6
    <2>3. QED
      BY <1>1, <1>4, <1>6, <2>1, <2>2
         DEF Sound, RecInv, TimeoutSafe, FinishLast, Playing, TypeOK, HostPresent, RightSong,
             NeverWaitsInVain, FreshRound, OrderKept
  <1>7. QED
    BY <1>2, <1>5, <1>6

(* The round after this one, or the end of the game. *)
LEMMA AdvanceSound ==
  ASSUME TypeOK, RecInv, room.status = "ROUND_ENDED",
         NEW done \in BOOLEAN, Advance(done), timer' \in [Kinds -> Timer]
  PROVE  Sound /\ keys' \in Keys
  <1>1. CASE MoreRounds
    <2>1. PICK writes \in 0..3 : Prepared(room, room.round + 1, writes)
      BY <1>1 DEF Advance
    <2>2. room.round + 1 \in 0 .. Rounds - 1
      BY <1>1, RoundsAssumption DEF MoreRounds, TypeOK, Record, RoundIds
    <2>3. QED
      BY <1>1, <2>1, <2>2, PreparedSound
  <1>2. CASE ~MoreRounds
    BY <1>2, GameOverSound DEF Advance
  <1>3. QED
    BY <1>1, <1>2

-----------------------------------------------------------------------------
(* The steps that change the record or the round data are sound; the       *)
(* others leave both alone.                                                *)
Operation ==
  \/ \E u \in Users : JoinRoom(u) \/ LeaveRoom(u) \/ DeleteRoom(u)
  \/ \E u \in Users : MarkReady(u) \/ SubmitAnswer(u) \/ RequestSkip(u)
  \/ UpdateRoom \/ StartGame \/ NextRound \/ ForceSkip
  \/ OrderExpires \/ RoomExpires
  \/ \E i \in Runs : HandleRoundEnd(i) \/ HandleAutoNext(i)

(* A room that is no more promises nothing. *)
LEMMA NoRoomSound ==
  ASSUME TypeOK, NoRoom, timer' \in [Kinds -> Timer]
  PROVE  Sound /\ keys' \in Keys
  <1>1. -1 \in RoundIds
    BY RoundsAssumption DEF RoundIds
  <1>2. room' \in Record /\ room'.status = "GONE"
    BY <1>1 DEF NoRoom, TypeOK, Record, Statuses
  <1>3. keys' \in Keys
    BY <1>1 DEF NoRoom, NoKeys, Keys, Orders
  <1>4. QED
    BY <1>2, <1>3
       DEF Sound, RecInv, TimeoutSafe, FinishLast, Playing, HostPresent, RightSong,
           NeverWaitsInVain, FreshRound, OrderKept

(* No operation breaks what the record promises, disarms the timeout of a  *)
(* round it leaves in progress or ends a game early.                       *)
LEMMA OperationSound ==
  ASSUME TypeOK, RecInv, Operation
  PROVE  Sound /\ keys' \in Keys
  <1>1. ASSUME NEW u \in Users, JoinRoom(u) PROVE Sound /\ UNCHANGED keys
    <2> DEFINE r == [room EXCEPT !.members = @ \cup {u}]
    <2>1. room' = r /\ timer' = timer /\ UNCHANGED keys /\ room.status # "GONE" /\ u \notin room.members
      BY <1>1 DEF JoinRoom, SaveOnly, RestUnchanged
    <2>2. r \in Record /\ room \in Record
      BY RecordMade DEF TypeOK
    <2>3. /\ r.status = room.status /\ r.round = room.round /\ r.shown = room.shown
          /\ r.members = room.members \cup {u} /\ r.host = room.host /\ r.ready = room.ready
          /\ r.correct = room.correct /\ r.skip = room.skip
      BY <2>2 DEF Record
    <2>4. ~SkipMajority(room) => ~SkipMajority(r)
      BY <2>1, <2>2, Votes
    <2> HIDE DEF r
    <2>5. /\ r.status # "GONE" => r.host \in r.members
          /\ r.status = "LOADING" => ~AllIn(r, r.ready) /\ r.correct = {} /\ r.skip = {}
          /\ r.status = "PLAYING" => ~AllIn(r, r.correct) /\ ~SkipMajority(r)
      BY <2>3, <2>4 DEF RecInv, HostPresent, NeverWaitsInVain, FreshRound, AllIn, Playing
    <2>6. QED
      BY <2>1, <2>2, <2>3, <2>5, SaveSound DEF TypeOK
  <1>2. ASSUME NEW u \in Users, LeaveRoom(u) PROVE Sound /\ UNCHANGED keys
    <2>1. PICK r \in Remaining(u), fate \in Fates : Reassess(r, fate)
      BY <1>2 DEF LeaveRoom
    <2>2. r \in Record /\ UNCHANGED keys /\ u \in room.members /\ room.members # {u}
      BY <1>2, RecordMade DEF LeaveRoom, RestUnchanged
    <2>3. PICK h \in IF room.host = u THEN room.members \ {u} ELSE {room.host} :
            r = [room EXCEPT !.members = @ \ {u}, !.host = h, !.ready = @ \ {u},
                             !.correct = @ \ {u}, !.skip = @ \ {u}]
      BY <2>1 DEF Remaining
    <2>4. /\ r.status = room.status /\ r.round = room.round /\ r.shown = room.shown
          /\ r.members = room.members \ {u} /\ r.host = h
          /\ r.correct = room.correct \ {u} /\ r.skip = room.skip \ {u}
      BY <2>3 DEF TypeOK, Record
    <2>5. room.status # "GONE" => r.host \in r.members
      BY <2>2, <2>3, <2>4 DEF RecInv, HostPresent
    <2>6. CASE room.status = "PLAYING" /\ (AllIn(r, r.correct) \/ SkipMajority(r))
      BY <2>1, <2>2, <2>4, <2>5, <2>6, EndRoundSound DEF Reassess, Playing
    <2>7. CASE room.status = "LOADING"
      <3>1. BeginIfReady(r, fate) /\ r.correct = {} /\ r.skip = {}
        BY <2>1, <2>4, <2>7 DEF Reassess, RecInv, FreshRound
      <3>2. QED
        BY <2>2, <2>4, <2>5, <2>7, <3>1, BeginSound
    <2>8. CASE /\ room.status # "LOADING"
               /\ ~(room.status = "PLAYING" /\ (AllIn(r, r.correct) \/ SkipMajority(r)))
      <3>1. room' = r /\ timer' = timer
        BY <2>1, <2>4, <2>8 DEF Reassess, BeginIfReady, SaveOnly
      <3>2. QED
        BY <2>2, <2>4, <2>5, <2>8, <3>1, SaveSound DEF TypeOK
    <2>9. QED
      BY <2>2, <2>6, <2>7, <2>8
  <1>3. ASSUME NEW u \in Users, DeleteRoom(u)
        PROVE  Sound /\ keys' \in Keys
    <2>1. -1 \in RoundIds
      BY RoundsAssumption DEF RoundIds
    <2>2. NoRoom
      BY <1>3 DEF DeleteRoom
    <2>4. timer' \in [Kinds -> Timer]
      <3>1. PICK gone \in SUBSET Kinds : timer' = Without(timer, gone)
        BY <1>3 DEF DeleteRoom
      <3>2. QED
        BY <2>1, <3>1 DEF Without, Unset, Timer, TypeOK
    <2>5. QED
      BY <2>2, <2>4, NoRoomSound
  <1>4. ASSUME NEW u \in Users, MarkReady(u) PROVE Sound /\ UNCHANGED keys
    <2> DEFINE r == [room EXCEPT !.ready = @ \cup {u}]
    <2>1. PICK fate \in Fates : BeginIfReady(r, fate)
      BY <1>4 DEF MarkReady
    <2>2. room.status = "LOADING" /\ UNCHANGED keys
      BY <1>4 DEF MarkReady, RestUnchanged
    <2>3. r \in Record
      BY RecordMade
    <2>4. /\ r.status = room.status /\ r.round = room.round /\ r.shown = room.shown
          /\ r.host \in r.members /\ r.correct = {} /\ r.skip = {}
      BY <2>2 DEF RecInv, HostPresent, FreshRound, TypeOK, Record
    <2> HIDE DEF r
    <2>5. QED
      BY <2>1, <2>2, <2>3, <2>4, BeginSound
  <1>5. ASSUME NEW u \in Users, SubmitAnswer(u) PROVE Sound /\ UNCHANGED keys
    <2> DEFINE r == [room EXCEPT !.correct = @ \cup {u}]
    <2>1. room.status = "PLAYING" /\ UNCHANGED keys
      BY <1>5 DEF SubmitAnswer, RestUnchanged
    <2>2. r \in Record
      BY RecordMade
    <2>3. /\ r.status = room.status /\ r.round = room.round /\ r.shown = room.shown
          /\ r.host = room.host /\ r.members = room.members /\ r.skip = room.skip
      BY DEF TypeOK, Record
    <2>4. r.host \in r.members /\ ~SkipMajority(r)
      BY <2>1, <2>3 DEF RecInv, HostPresent, NeverWaitsInVain, Playing, SkipMajority
    <2>5. \/ \E fate \in Fates : EndRound(r, fate)
          \/ ~AllIn(r, r.correct) /\ \E fate \in Fates : Save(r, {"speed-reveal"}, {}, fate)
          \/ ~AllIn(r, r.correct) /\ SaveOnly(r)
      BY <1>5 DEF SubmitAnswer, Fates
    <2> HIDE DEF r
    <2>6. ASSUME NEW fate \in Fates, EndRound(r, fate) PROVE Sound
      BY <2>1, <2>2, <2>3, <2>4, <2>6, EndRoundSound DEF Playing
    <2>7. ASSUME ~AllIn(r, r.correct), NEW fate \in Fates, Save(r, {"speed-reveal"}, {}, fate)
          PROVE  Sound
      <3>1. {"speed-reveal"} \in SUBSET Kinds /\ {} \in SUBSET Kinds /\ "round-timeout" \in Kinds
        BY DEF Kinds
      <3>2. /\ room' = r \/ room' = room
            /\ timer' \in [Kinds -> Timer]
            /\ timer'["round-timeout"] = timer["round-timeout"]
        BY <2>2, <2>7, <3>1, SaveEffect
      <3>3. QED
        BY <2>1, <2>2, <2>3, <2>4, <2>7, <3>2, SaveSound
    <2>8. ASSUME ~AllIn(r, r.correct), SaveOnly(r) PROVE Sound
      BY <2>1, <2>2, <2>3, <2>4, <2>8, SaveSound DEF SaveOnly, TypeOK
    <2>9. QED
      BY <2>1, <2>5, <2>6, <2>7, <2>8
  <1>6. ASSUME NEW u \in Users, RequestSkip(u) PROVE Sound /\ UNCHANGED keys
    <2> DEFINE r == [room EXCEPT !.skip = @ \cup {u}]
    <2>1. room.status = "PLAYING" /\ UNCHANGED keys
      BY <1>6 DEF RequestSkip, RestUnchanged
    <2>2. r \in Record
      BY RecordMade
    <2>3. /\ r.status = room.status /\ r.round = room.round /\ r.shown = room.shown
          /\ r.host = room.host /\ r.members = room.members /\ r.correct = room.correct
      BY DEF TypeOK, Record
    <2>4. r.host \in r.members /\ ~AllIn(r, r.correct)
      BY <2>1, <2>3 DEF RecInv, HostPresent, NeverWaitsInVain, Playing, AllIn
    <2>5. (\E fate \in Fates : EndRound(r, fate)) \/ (~SkipMajority(r) /\ SaveOnly(r))
      BY <1>6 DEF RequestSkip
    <2> HIDE DEF r
    <2>6. ASSUME NEW fate \in Fates, EndRound(r, fate) PROVE Sound
      BY <2>1, <2>2, <2>3, <2>4, <2>6, EndRoundSound DEF Playing
    <2>7. ASSUME ~SkipMajority(r), SaveOnly(r) PROVE Sound
      BY <2>1, <2>2, <2>3, <2>4, <2>7, SaveSound DEF SaveOnly, TypeOK
    <2>8. QED
      BY <2>1, <2>5, <2>6, <2>7
  <1>7. ASSUME UpdateRoom PROVE Sound /\ UNCHANGED keys
    <2>1. PICK s \in BOOLEAN : SaveOnly([room EXCEPT !.speed = s])
      BY <1>7 DEF UpdateRoom
    <2> DEFINE r == [room EXCEPT !.speed = s]
    <2>2. r \in Record
      BY RecordMade
    <2>3. /\ r.status = room.status /\ r.round = room.round /\ r.shown = room.shown
          /\ r.host = room.host /\ r.members = room.members
      BY DEF TypeOK, Record
    <2>4. room.status \in {"WAITING", "FINISHED"} /\ UNCHANGED keys /\ room' = r /\ timer' = timer
      BY <1>7, <2>1 DEF UpdateRoom, RestUnchanged, SaveOnly
    <2> HIDE DEF r
    <2>5. r.host \in r.members
      BY <2>3, <2>4 DEF RecInv, HostPresent
    <2>6. QED
      BY <2>2, <2>3, <2>4, <2>5, SaveSound DEF TypeOK
  <1>8. ASSUME StartGame
        PROVE  Sound /\ keys' \in Keys
    BY <1>8, PreparedSound, RoundsAssumption DEF StartGame, TypeOK
  <1>9. ASSUME NextRound
        PROVE  Sound /\ keys' \in Keys
    <2>1. timer' \in [Kinds -> Timer]
      <3>1. PICK gone \in SUBSET {"speed-reveal", "speed-next"} : timer' = Without(timer, gone)
        BY <1>9 DEF NextRound
      <3>2. Unset \in Timer
        BY RoundsAssumption DEF Unset, Timer, RoundIds
      <3>3. QED
        BY <3>1, <3>2 DEF Without, TypeOK
    <2>2. QED
      BY <1>9, <2>1, AdvanceSound DEF NextRound
  <1>10. ASSUME ForceSkip PROVE Sound /\ UNCHANGED keys
    <2>1. {"round-timeout"} \in SUBSET Kinds /\ {} \in SUBSET Kinds /\ "done" \in Fates
      BY DEF Kinds, Fates
    <2>2. /\ room.status = "PLAYING" /\ UNCHANGED keys /\ room \in Record
          /\ Save(room, {"round-timeout"}, {}, "done")
      BY <1>10 DEF ForceSkip, RestUnchanged, TypeOK
    <2>3. /\ room' = room /\ timer' \in [Kinds -> Timer]
          /\ timer'["round-timeout"] = ArmedFor(room)
      BY <2>1, <2>2, SaveEffect DEF Kinds
    <2>4. QED
      BY <2>2, <2>3, SaveSound
         DEF ArmedFor, RecInv, HostPresent, NeverWaitsInVain, FreshRound, Playing
  <1>11. ASSUME NEW i \in Runs, HandleRoundEnd(i) PROVE Sound /\ UNCHANGED keys
    <2>1. PICK fate \in Fates : EndRound(room, fate)
      BY <1>11 DEF HandleRoundEnd, Fates
    <2>2. /\ room.status = "PLAYING" /\ UNCHANGED keys
          /\ room \in Record /\ room.host \in room.members
      BY <1>11 DEF HandleRoundEnd, TypeOK, RecInv, HostPresent
    <2>3. QED
      BY <2>1, <2>2, EndRoundSound DEF Playing
  <1>12. ASSUME NEW i \in Runs, HandleAutoNext(i)
         PROVE  Sound /\ keys' \in Keys
    BY <1>12, AdvanceSound DEF HandleAutoNext, TypeOK
  <1>13. keys \in Keys
    BY DEF TypeOK
  <1>14. CASE OrderExpires
    <2>1. /\ room' = room /\ timer' = timer
          /\ keys' \in Keys /\ keys'.order = "expired"
          /\ keys'.answers = keys.answers /\ keys'.reveal = keys.reveal
      BY <1>13, <1>14 DEF OrderExpires, Keys, Orders
    <2>2. QED
      BY <2>1 DEF Sound, RecInv, TimeoutSafe, FinishLast, Playing, TypeOK, HostPresent, RightSong,
                  NeverWaitsInVain, FreshRound, OrderKept, AllIn, SkipMajority
  <1>15. CASE RoomExpires
    BY <1>15, NoRoomSound DEF RoomExpires, TypeOK
  <1>16. QED
    BY <1>1, <1>2, <1>3, <1>4, <1>5, <1>6, <1>7, <1>8, <1>9, <1>10, <1>11, <1>12, <1>13,
       <1>14, <1>15 DEF Operation

-----------------------------------------------------------------------------
(* The steps that only concern handlers: they are claimed, find nothing to *)
(* do, fail, or settle.                                                    *)
Clerical ==
  \/ \E k \in Kinds, i \in Runs : Claim(k, i)
  \/ \E i \in Runs : HandlerNoOp(i) \/ HandlerMisses(i) \/ HandlerFails(i) \/ Settle(i)
  \/ \E u \in Users : Enter(u)

(* Every step is an operation or clerical. *)
LEMMA StepKinds == Next => Operation \/ Clerical
  BY DEF Next, Handle, Operation, Clerical

(* What an operation does to the handlers: it is none of their business,   *)
(* or it is one of them, which ends the round or is not about rounds.      *)
LEMMA OperationRuns ==
  ASSUME TypeOK, Operation
  PROVE  /\ entered' = entered
         /\ runs' \in [Runs -> Run]
         /\ \A i \in Runs : \/ runs'[i] = runs[i]
                            \/ runs'[i].stage = "idle"
                            \/ runs'[i].kind = "speed-next"
                            \/ ~Playing'
  <1>1. Idle \in Run
    BY RoundsAssumption DEF Idle, Run, Kinds, RoundIds
  <1>2. ASSUME NEW i \in Runs, Ends(i, "ok") \/ Dies(i)
        PROVE  /\ runs' \in [Runs -> Run]
               /\ \A j \in Runs \ {i} : runs'[j] = runs[j]
               /\ runs'[i].kind = runs[i].kind \/ runs'[i].stage = "idle"
               /\ Dies(i) => runs'[i].stage = "idle"
    <2>1. CASE Dies(i)
      BY <1>1, <2>1 DEF Dies, TypeOK, Idle
    <2>2. CASE Ends(i, "ok") /\ ~Dies(i)
      BY <2>2 DEF Ends, TypeOK, Run
    <2>3. QED
      BY <1>2, <2>1, <2>2
  <1>3. ASSUME NEW i \in Runs, HandleRoundEnd(i)
        PROVE  entered' = entered /\ ((Ends(i, "ok") /\ ~Playing') \/ Dies(i))
    <2>1. CASE EndRound(room, "done") /\ Ends(i, "ok")
      <3>1. \E s \in Reveals : room' = Revealed(room, s)
        BY <2>1 DEF EndRound, Save
      <3>2. room'.status = "ROUND_ENDED"
        BY <3>1 DEF Revealed, TypeOK, Record
      <3>3. QED
        BY <1>3, <2>1, <3>2 DEF Playing, HandleRoundEnd
    <2>2. CASE Dies(i)
      BY <1>3, <2>2 DEF HandleRoundEnd
    <2>3. QED
      BY <1>3, <2>1, <2>2 DEF HandleRoundEnd
  <1>4. ASSUME NEW i \in Runs, HandleAutoNext(i)
        PROVE  entered' = entered /\ (Ends(i, "ok") \/ Dies(i)) /\ runs[i].kind = "speed-next"
    BY <1>4 DEF HandleAutoNext
  <1>5. ASSUME ~\E i \in Runs : HandleRoundEnd(i) \/ HandleAutoNext(i)
        PROVE  UNCHANGED runs /\ entered' = entered
    BY <1>5 DEF Operation, JoinRoom, LeaveRoom, DeleteRoom, MarkReady, SubmitAnswer, RequestSkip,
       UpdateRoom, StartGame, NextRound, ForceSkip, OrderExpires, RoomExpires, RestUnchanged
  <1>6. CASE \E i \in Runs : HandleRoundEnd(i)
    <2>1. PICK i \in Runs : HandleRoundEnd(i)
      BY <1>6
    <2>2. QED
      BY <1>2, <1>3, <2>1
  <1>7. CASE \E i \in Runs : HandleAutoNext(i)
    <2>1. PICK i \in Runs : HandleAutoNext(i)
      BY <1>7
    <2>2. QED
      BY <1>2, <1>4, <2>1
  <1>8. QED
    BY <1>5, <1>6, <1>7 DEF TypeOK

(* A clerical step leaves the invariant alone.  It takes the timeout of a  *)
(* round in progress only if the handler had not found the room.           *)
LEMMA ClericalSound ==
  ASSUME IInv, Clerical
  PROVE  /\ UNCHANGED <<room, keys>>
         /\ TypeOK' /\ ReservedMeansOver'
         /\ Playing /\ timer["round-timeout"].set /\ ~timer'["round-timeout"].set
              => \E i \in Runs : runs[i].stage = "missed" /\ runs'[i] = Idle
  <1> USE DEF IInv
  <1>1. Idle \in Run /\ Unset \in Timer /\ "round-timeout" \in Kinds
    BY RoundsAssumption DEF Idle, Run, Unset, Timer, Kinds, RoundIds
  <1>2. ASSUME NEW k \in Kinds, NEW i \in Runs, Claim(k, i)
        PROVE  /\ TypeOK' /\ ReservedMeansOver'
               /\ timer["round-timeout"].set => timer'["round-timeout"].set
    <2>1. /\ timer' \in [Kinds -> Timer]
          /\ \A x \in Kinds \ {k} : timer'[x] = timer[x]
          /\ timer'[k].set /\ timer'[k].by = i
      BY <1>2 DEF Claim, TypeOK, Timer
    <2>2. /\ runs' \in [Runs -> Run]
          /\ \A j \in Runs \ {i} : runs'[j] = runs[j]
          /\ runs'[i].stage = "fired"
      BY <1>2 DEF Claim, TypeOK, Run, Timer
    <2>3. UNCHANGED <<room, keys, entered>>
      BY <1>2 DEF Claim
    <2>4. TypeOK'
      BY <2>1, <2>2, <2>3 DEF TypeOK
    <2>5. ReservedMeansOver'
      BY <1>1, <2>1, <2>2, <2>3 DEF ReservedMeansOver, Playing
    <2>6. QED
      BY <1>1, <2>1, <2>4, <2>5
  <1>3. ASSUME NEW i \in Runs, HandlerNoOp(i) \/ HandlerMisses(i) \/ HandlerFails(i)
        PROVE  TypeOK' /\ ReservedMeansOver' /\ timer' = timer
    <2>1. UNCHANGED <<room, keys, entered, timer>>
      BY <1>3 DEF HandlerNoOp, HandlerMisses, HandlerFails
    <2>2. /\ runs' \in [Runs -> Run]
          /\ \A j \in Runs \ {i} : runs'[j] = runs[j]
          /\ runs'[i].stage = "ok" =>
               runs'[i].kind = runs[i].kind /\ room.status # Awaits(runs[i].kind)
      <3>1. CASE HandlerNoOp(i)
        BY <3>1 DEF HandlerNoOp, Ends, TypeOK, Run
      <3>2. CASE HandlerMisses(i)
        BY <3>2 DEF HandlerMisses, Ends, TypeOK, Run
      <3>3. CASE HandlerFails(i)
        BY <1>1, <3>3 DEF HandlerFails, Dies, TypeOK, Idle
      <3>4. QED
        BY <1>3, <3>1, <3>2, <3>3
    <2>3. TypeOK'
      BY <2>1, <2>2 DEF TypeOK
    <2>4. ReservedMeansOver'
      BY <2>1, <2>2 DEF ReservedMeansOver, Playing, Awaits
    <2>5. QED
      BY <2>1, <2>3, <2>4
  <1>4. ASSUME NEW i \in Runs, Settle(i)
        PROVE  /\ TypeOK' /\ ReservedMeansOver'
               /\ Playing /\ timer["round-timeout"].set /\ ~timer'["round-timeout"].set
                    => runs[i].stage = "missed" /\ runs'[i] = Idle
    <2>1. UNCHANGED <<room, keys, entered>> /\ runs[i].stage \in {"ok", "missed"}
      BY <1>4 DEF Settle
    <2>2. /\ runs' \in [Runs -> Run]
          /\ \A j \in Runs \ {i} : runs'[j] = runs[j]
          /\ runs'[i] = Idle
      BY <1>1, <1>4 DEF Settle, Dies, TypeOK
    <2>3. /\ timer' \in [Kinds -> Timer]
          /\ \A k \in Kinds : \/ timer'[k] = timer[k]
                              \/ timer'[k] = Unset /\ k = runs[i].kind /\ timer[k].by = i
      <3>1. CASE UNCHANGED timer
        BY <3>1 DEF TypeOK
      <3>2. CASE DeleteReserved(i)
        BY <1>1, <3>2 DEF DeleteReserved, TypeOK
      <3>3. QED
        BY <1>4, <3>1, <3>2 DEF Settle
    <2>4. TypeOK'
      BY <2>1, <2>2, <2>3 DEF TypeOK
    <2>5. ReservedMeansOver'
      BY <1>1, <2>1, <2>2, <2>3, RunsAssumption DEF ReservedMeansOver, Playing, Idle, Unset
    <2>6. QED
      BY <1>1, <2>1, <2>2, <2>3, <2>4, <2>5 DEF ReservedMeansOver, Playing
  <1>5. ASSUME NEW u \in Users, Enter(u) PROVE TypeOK' /\ ReservedMeansOver' /\ timer' = timer
    BY <1>5 DEF Enter, TypeOK, ReservedMeansOver, Playing
  <1>6. UNCHANGED <<room, keys>>
    BY DEF Clerical, Claim, HandlerNoOp, HandlerMisses, HandlerFails, Settle, Enter
  <1>7. QED
    BY <1>2, <1>3, <1>4, <1>5, <1>6 DEF Clerical

-----------------------------------------------------------------------------
(* A step keeps the invariant, loses no timeout and ends no game early. *)
LEMMA Inductive ==
  ASSUME IInv, [Next]_vars
  PROVE  /\ IInv'
         /\ TimeoutArmed /\ ~TimeoutArmed' =>
              \E i \in Runs : runs[i].stage = "missed" /\ runs'[i] = Idle
         /\ FinishLast
  <1>1. CASE Operation
    <2>1. Sound /\ keys' \in Keys
      BY <1>1, OperationSound DEF IInv, RecInv
    <2>2. /\ entered' = entered
          /\ runs' \in [Runs -> Run]
          /\ \A i \in Runs : \/ runs'[i] = runs[i]
                             \/ runs'[i].stage = "idle"
                             \/ runs'[i].kind = "speed-next"
                             \/ ~Playing'
      BY <1>1, OperationRuns DEF IInv
    <2>3. TypeOK'
      BY <2>1, <2>2 DEF TypeOK, Sound, IInv
    <2>4. ReservedMeansOver'
      BY <2>1, <2>2, RunsAssumption DEF IInv, ReservedMeansOver, Sound, TimeoutSafe
    <2>5. TimeoutArmed => TimeoutArmed'
      BY <2>1 DEF Sound, TimeoutSafe, TimeoutArmed
    <2>6. QED
      BY <2>1, <2>3, <2>4, <2>5 DEF IInv, RecInv, Sound
  <1>2. CASE Clerical
    <2>1. /\ UNCHANGED <<room, keys>> /\ TypeOK' /\ ReservedMeansOver'
          /\ Playing /\ timer["round-timeout"].set /\ ~timer'["round-timeout"].set
               => \E i \in Runs : runs[i].stage = "missed" /\ runs'[i] = Idle
      BY <1>2, ClericalSound
    <2>2. HostPresent' /\ RightSong' /\ NeverWaitsInVain' /\ FreshRound' /\ OrderKept'
      BY <2>1 DEF IInv, HostPresent, RightSong, NeverWaitsInVain, FreshRound, OrderKept, Playing,
                  AllIn, SkipMajority
    <2>3. QED
      BY <2>1, <2>2 DEF IInv, TimeoutArmed, Playing, FinishLast
  <1>3. CASE UNCHANGED vars
    BY <1>3 DEF vars, IInv, TypeOK, HostPresent, RightSong, NeverWaitsInVain, FreshRound,
                OrderKept, ReservedMeansOver, Playing, AllIn, SkipMajority, TimeoutArmed, FinishLast
  <1>4. QED
    BY <1>1, <1>2, <1>3, StepKinds

(* A room that was just created satisfies the invariant. *)
LEMMA Initially == Init => IInv
  <1> SUFFICES ASSUME Init PROVE IInv
    OBVIOUS
  <1>1. /\ room \in Record /\ room.status = "WAITING" /\ room.host \in room.members
    BY RoundsAssumption DEF Init, Record, Statuses, RoundIds
  <1>2. /\ keys \in Keys
        /\ timer \in [Kinds -> Timer] /\ runs \in [Runs -> Run] /\ entered \in SUBSET Users
    BY RoundsAssumption DEF Init, NoKeys, Keys, Orders, Unset, Timer, Idle, Run, Kinds, RoundIds
  <1>3. QED
    BY <1>1, <1>2 DEF IInv, TypeOK, HostPresent, RightSong, NeverWaitsInVain, FreshRound,
                      OrderKept, ReservedMeansOver, Playing

(* The invariant holds throughout. *)
LEMMA Always == Spec => []IInv
  <1>1. IInv /\ [Next]_vars => IInv'
    BY Inductive
  <1>2. QED
    BY Initially, <1>1, PTL DEF Spec

(* Record, round data, timers and handlers always have their types. *)
THEOREM TypeCorrect == Spec => []TypeOK
  <1>1. IInv => TypeOK
    BY DEF IInv
  <1>2. QED
    BY Always, <1>1, PTL

(* Whoever leaves, in whatever order and in whatever status of the game,   *)
(* the host of a room is one of its participants (leaveRoom's succession). *)
THEOREM HostStays == Spec => []HostPresent
  <1>1. IInv => HostPresent
    BY DEF IInv
  <1>2. QED
    BY Always, <1>1, PTL

(* The record, the answers and the reveal of a round agree although they   *)
(* are written one by one and any write may fail (prepareRoundData).       *)
THEOREM SongsRight == Spec => []RightSong
  <1>1. IInv => RightSong
    BY DEF IInv
  <1>2. QED
    BY Always, <1>1, PTL

(* No room waits for somebody to be ready, to answer or to vote when all   *)
(* that can has been done (leaveRoom's second look at who is left).        *)
THEOREM NoVainWait == Spec => []NeverWaitsInVain
  <1>1. IInv => NeverWaitsInVain
    BY DEF IInv
  <1>2. QED
    BY Always, <1>1, PTL

(* Whatever fails, the timeout of a round being played is not lost, except *)
(* by the clean-up of a handler that could not read the record.            *)
THEOREM TimeoutNeverLost == Spec => TimeoutKept
  <1>1. IInv /\ [Next]_vars =>
          [TimeoutArmed /\ ~TimeoutArmed' =>
             \E i \in Runs : runs[i].stage = "missed" /\ runs'[i] = Idle]_vars
    BY Inductive
  <1>2. QED
    BY Always, <1>1, PTL DEF Spec, TimeoutKept

(* A game is over only after its last round, although the song order that  *)
(* decides it is deleted while the game is being ended (advanceToNextRound),*)
(* and only a game that has outlived the TTL of its song order is over     *)
(* earlier (setSongOrder writes it once, at the start).                    *)
THEOREM NoEarlyEnd == Spec => AllRoundsPlayed
  <1>1. IInv /\ [Next]_vars =>
          [room.status # "FINISHED" /\ room'.status = "FINISHED" =>
             room.round = Rounds - 1 \/ keys.order = "expired"]_vars
    BY Inductive DEF FinishLast
  <1>2. QED
    BY Always, <1>1, PTL DEF Spec, AllRoundsPlayed

-----------------------------------------------------------------------------
(* The automatic next round.  If its timer is still reserved by a handler  *)
(* that is over, the handler saw the round left: nothing has armed it since.*)
Ended == room.status = "ROUND_ENDED" /\ room.speed
AutoReserved ==
  \A i \in Runs :
    /\ runs[i].stage = "ok" /\ runs[i].kind = "speed-next"
    /\ timer["speed-next"].by = i
    => ~Ended

(* No record that Advance makes is one whose round has ended. *)
LEMMA AdvanceLeaves ==
  ASSUME TypeOK, NEW done \in BOOLEAN, Advance(done)
  PROVE  room' = room \/ room'.status # "ROUND_ENDED"
  <1>1. \A n \in RoundIds : Loading(room, n).status = "LOADING"
    BY DEF Loading, TypeOK, Record
  <1>2. [Loading(room, -1) EXCEPT !.status = "FINISHED"].status = "FINISHED"
    BY DEF Loading, TypeOK, Record
  <1>3. CASE MoreRounds
    <2>1. room.round + 1 \in RoundIds
      BY <1>3, RoundsAssumption DEF MoreRounds, TypeOK, Record, RoundIds
    <2>2. room' = Loading(room, room.round + 1) \/ room' = room
      BY <1>3 DEF Advance, Prepared
    <2>3. QED
      BY <1>1, <2>1, <2>2
  <1>4. CASE ~MoreRounds
    BY <1>2, <1>4 DEF Advance, GameOver
  <1>5. QED
    BY <1>3, <1>4

LEMMA AdvanceDone ==
  ASSUME TypeOK, Advance(TRUE)
  PROVE  room'.status # "ROUND_ENDED"
  <1>1. \A n \in RoundIds : Loading(room, n).status = "LOADING"
    BY DEF Loading, TypeOK, Record
  <1>2. [Loading(room, -1) EXCEPT !.status = "FINISHED"].status = "FINISHED"
    BY DEF Loading, TypeOK, Record
  <1>3. CASE MoreRounds
    <2>1. room.round + 1 \in RoundIds
      BY <1>3, RoundsAssumption DEF MoreRounds, TypeOK, Record, RoundIds
    <2>2. room' = Loading(room, room.round + 1)
      BY <1>3 DEF Advance, Prepared
    <2>3. QED
      BY <1>1, <2>1, <2>2
  <1>4. CASE ~MoreRounds
    BY <1>2, <1>4 DEF Advance, GameOver
  <1>5. QED
    BY <1>3, <1>4

(* A handler of an automatic next round is over only if the round is left. *)
LEMMA AutoRuns ==
  ASSUME TypeOK, Operation
  PROVE  \A i \in Runs : \/ runs'[i] = runs[i] \/ runs'[i].stage = "idle"
                         \/ runs'[i].kind # "speed-next" \/ room'.status # "ROUND_ENDED"
  <1>1. ASSUME NEW i \in Runs, HandleRoundEnd(i)
        PROVE  /\ \A j \in Runs \ {i} : runs'[j] = runs[j]
               /\ runs'[i].stage = "idle" \/ runs'[i].kind # "speed-next"
    <2>1. Ends(i, "ok") \/ Dies(i)
      BY <1>1 DEF HandleRoundEnd
    <2>2. runs[i].kind # "speed-next"
      BY <1>1 DEF HandleRoundEnd
    <2>3. CASE Dies(i)
      BY <2>3 DEF Dies, Idle, TypeOK
    <2>4. CASE Ends(i, "ok")
      BY <2>2, <2>4 DEF Ends, TypeOK, Run
    <2>5. QED
      BY <2>1, <2>3, <2>4
  <1>2. ASSUME NEW i \in Runs, HandleAutoNext(i)
        PROVE  /\ \A j \in Runs \ {i} : runs'[j] = runs[j]
               /\ runs'[i].stage = "idle" \/ room'.status # "ROUND_ENDED"
    <2>1. CASE Dies(i)
      BY <2>1 DEF Dies, Idle, TypeOK
    <2>2. CASE Advance(TRUE) /\ Ends(i, "ok")
      BY <2>2, AdvanceDone DEF Ends, TypeOK
    <2>3. QED
      BY <1>2, <2>1, <2>2 DEF HandleAutoNext
  <1>3. ASSUME ~\E i \in Runs : HandleRoundEnd(i) \/ HandleAutoNext(i)
        PROVE  UNCHANGED runs
    BY <1>3 DEF Operation, JoinRoom, LeaveRoom, DeleteRoom, MarkReady, SubmitAnswer, RequestSkip,
       UpdateRoom, StartGame, NextRound, ForceSkip, OrderExpires, RoomExpires, RestUnchanged
  <1>4. QED
    BY <1>1, <1>2, <1>3

(* While a round has ended, only what leaves it touches its timer. *)
LEMMA EndedOperation ==
  ASSUME TypeOK, Operation, room.status = "ROUND_ENDED", ~NextRound
  PROVE  \/ room'.status # "ROUND_ENDED"
         \/ timer' = timer /\ room'.speed = room.speed
  <1>1. ASSUME NEW u \in Users, JoinRoom(u) PROVE timer' = timer /\ room'.speed = room.speed
    BY <1>1 DEF JoinRoom, SaveOnly, TypeOK, Record
  <1>2. ASSUME NEW u \in Users, LeaveRoom(u) PROVE timer' = timer /\ room'.speed = room.speed
    <2>1. PICK r \in Remaining(u), fate \in Fates : Reassess(r, fate)
      BY <1>2 DEF LeaveRoom
    <2>2. r.status = "ROUND_ENDED" /\ r.speed = room.speed
      BY <2>1 DEF Remaining, TypeOK, Record
    <2>3. SaveOnly(r)
      BY <2>1, <2>2 DEF Reassess, BeginIfReady
    <2>4. QED
      BY <2>2, <2>3 DEF SaveOnly
  <1>3. ASSUME NEW u \in Users, DeleteRoom(u) PROVE room'.status # "ROUND_ENDED"
    BY <1>3 DEF DeleteRoom, NoRoom, TypeOK, Record
  <1>4. ASSUME NEW i \in Runs, HandleAutoNext(i)
        PROVE  \/ room'.status # "ROUND_ENDED"
               \/ timer' = timer /\ room' = room
    BY <1>4, AdvanceLeaves DEF HandleAutoNext
  <1>5. CASE RoomExpires
    BY <1>5 DEF RoomExpires, NoRoom, TypeOK, Record
  <1>6. QED
    BY <1>1, <1>2, <1>3, <1>4, <1>5
       DEF Operation, OrderExpires, MarkReady, SubmitAnswer, RequestSkip, UpdateRoom, StartGame, ForceSkip,
           HandleRoundEnd

(* A round that ends in speed mode has just had its timer armed. *)
LEMMA EndingArms ==
  ASSUME TypeOK, Operation, room.status # "ROUND_ENDED", room'.status = "ROUND_ENDED", room'.speed
  PROVE  timer'["speed-next"].by = NoRun
  <1>1. ASSUME NEW r \in Record, NEW fate \in Fates, EndRound(r, fate), room'.status = "ROUND_ENDED",
               room'.speed
        PROVE  timer'["speed-next"].by = NoRun
    <2>1. PICK reveal \in Reveals :
            Save(Revealed(r, reveal), AutoNext(r), StaleTimers(r), fate)
      BY <1>1 DEF EndRound
    <2> DEFINE e == Revealed(r, reveal)
    <2>2. e \in Record /\ e.speed = r.speed
      BY RecordMade DEF Revealed, Record
    <2>3. AutoNext(r) \in SUBSET Kinds /\ StaleTimers(r) \in SUBSET Kinds
      BY DEF AutoNext, StaleTimers, Kinds
    <2> HIDE DEF e
    <2>4. room' = IF fate = "armed" THEN room ELSE e
      BY <2>1 DEF Save, e
    <2>5. "speed-next" \in AutoNext(r) \ StaleTimers(r) /\ "speed-next" \in Kinds
      BY <1>1, <2>2, <2>4 DEF AutoNext, StaleTimers, Kinds
    <2>6. timer'["speed-next"] = ArmedFor(e)
      <3>1. Save(e, AutoNext(r), StaleTimers(r), fate)
        BY <2>1 DEF e
      <3>2. \A k \in Kinds : k \in AutoNext(r) \ StaleTimers(r) => timer'[k] = ArmedFor(e)
        BY <2>2, <2>3, <3>1, SaveEffect
      <3>3. QED
        BY <2>5, <3>2
    <2>7. QED
      BY <2>6 DEF ArmedFor
  <1>2. ASSUME NEW r \in Record, NEW fate \in Fates, BeginIfReady(r, fate), r.status # "ROUND_ENDED"
        PROVE  FALSE
    <2>1. [r EXCEPT !.status = "PLAYING"].status = "PLAYING"
      BY DEF Record
    <2>2. QED
      BY <1>2, <2>1 DEF BeginIfReady, Save, SaveOnly
  <1>3. ASSUME NEW u \in Users, JoinRoom(u) PROVE FALSE
    BY <1>3 DEF JoinRoom, SaveOnly, TypeOK, Record
  <1>4. ASSUME NEW u \in Users, LeaveRoom(u) PROVE timer'["speed-next"].by = NoRun
    <2>1. PICK r \in Remaining(u), fate \in Fates : Reassess(r, fate)
      BY <1>4 DEF LeaveRoom
    <2>2. r \in Record /\ r.status = room.status
      <3>1. r \in Record
        BY <1>4, RecordMade DEF LeaveRoom
      <3>2. r.status = room.status
        BY <2>1 DEF Remaining, TypeOK, Record
      <3>3. QED
        BY <3>1, <3>2
    <2>3. QED
      BY <1>1, <1>2, <2>1, <2>2 DEF Reassess
  <1>5. ASSUME \/ \E u \in Users : DeleteRoom(u)
               \/ OrderExpires \/ RoomExpires
        PROVE FALSE
    BY <1>5 DEF DeleteRoom, OrderExpires, RoomExpires, NoRoom, TypeOK, Record
  <1>6. ASSUME NEW u \in Users, MarkReady(u) PROVE FALSE
    <2>1. [room EXCEPT !.ready = @ \cup {u}] \in Record
      BY RecordMade
    <2>2. [room EXCEPT !.ready = @ \cup {u}].status = room.status
      BY DEF TypeOK, Record
    <2>3. QED
      BY <1>2, <1>6, <2>1, <2>2 DEF MarkReady
  <1>7. ASSUME NEW r \in Record, r.status = room.status, Save(r, {"speed-reveal"}, {}, "done") \/
               Save(r, {"speed-reveal"}, {}, "armed") \/ SaveOnly(r)
        PROVE  FALSE
    BY <1>7 DEF Save, SaveOnly
  <1>8. ASSUME NEW u \in Users, SubmitAnswer(u) PROVE timer'["speed-next"].by = NoRun
    <2> DEFINE r == [room EXCEPT !.correct = @ \cup {u}]
    <2>1. r \in Record
      BY RecordMade
    <2>2. r.status = room.status
      BY DEF TypeOK, Record
    <2>3. \/ \E fate \in Fates : EndRound(r, fate)
          \/ Save(r, {"speed-reveal"}, {}, "done") \/ Save(r, {"speed-reveal"}, {}, "armed")
          \/ SaveOnly(r)
      BY <1>8 DEF SubmitAnswer
    <2> HIDE DEF r
    <2>4. QED
      BY <1>1, <1>7, <2>1, <2>2, <2>3
  <1>9. ASSUME NEW u \in Users, RequestSkip(u) PROVE timer'["speed-next"].by = NoRun
    <2> DEFINE r == [room EXCEPT !.skip = @ \cup {u}]
    <2>1. r \in Record
      BY RecordMade
    <2>2. r.status = room.status
      BY DEF TypeOK, Record
    <2>3. (\E fate \in Fates : EndRound(r, fate)) \/ SaveOnly(r)
      BY <1>9 DEF RequestSkip
    <2> HIDE DEF r
    <2>4. QED
      BY <1>1, <1>7, <2>1, <2>2, <2>3
  <1>10. ASSUME UpdateRoom PROVE FALSE
    BY <1>10 DEF UpdateRoom, SaveOnly, TypeOK, Record
  <1>11. ASSUME StartGame PROVE FALSE
    <2>1. 0 \in RoundIds
      BY RoundsAssumption DEF RoundIds
    <2>2. Loading(room, 0).status = "LOADING"
      BY DEF Loading, TypeOK, Record
    <2>3. QED
      BY <1>11, <2>2 DEF StartGame, Prepared
  <1>12. ASSUME NextRound PROVE FALSE
    BY <1>12 DEF NextRound
  <1>13. ASSUME ForceSkip PROVE FALSE
    BY <1>13 DEF ForceSkip, Save
  <1>14. ASSUME NEW i \in Runs, HandleRoundEnd(i) PROVE timer'["speed-next"].by = NoRun
    <2>1. PICK fate \in Fates : EndRound(room, fate)
      BY <1>14 DEF HandleRoundEnd, Fates
    <2>2. QED
      BY <1>1, <2>1 DEF TypeOK
  <1>15. ASSUME NEW i \in Runs, HandleAutoNext(i) PROVE FALSE
    BY <1>15 DEF HandleAutoNext
  <1>16. QED
    BY <1>3, <1>4, <1>5, <1>6, <1>8, <1>9, <1>10, <1>11, <1>12, <1>13, <1>14, <1>15 DEF Operation

(* An operation keeps AutoReserved and takes the timer of a round that has *)
(* ended only if it is nextRound.                                          *)
LEMMA AutoOperation ==
  ASSUME TypeOK, AutoReserved, Operation
  PROVE  /\ AutoReserved'
         /\ AutoNextArmed /\ room'.status = "ROUND_ENDED" /\ ~timer'["speed-next"].set => NextRound
  <1>1. ASSUME NEW i \in Runs, runs'[i].stage = "ok", runs'[i].kind = "speed-next",
               timer'["speed-next"].by = i, Ended'
        PROVE  FALSE
    <2>1. runs[i].stage = "ok" /\ runs[i].kind = "speed-next"
      BY <1>1, AutoRuns DEF Ended
    <2>2. CASE room.status # "ROUND_ENDED"
      BY <1>1, <2>2, EndingArms, RunsAssumption DEF Ended
    <2>3. CASE NextRound
      <3>1. PICK gone \in SUBSET {"speed-reveal", "speed-next"} : timer' = Without(timer, gone)
        BY <2>3 DEF NextRound
      <3>2. timer'["speed-next"].by \in {timer["speed-next"].by, NoRun}
        BY <3>1 DEF Without, Unset, Kinds
      <3>3. room' = room \/ room'.status # "ROUND_ENDED"
        BY <2>3, AdvanceLeaves DEF NextRound
      <3>4. QED
        BY <1>1, <2>1, <3>2, <3>3, RunsAssumption DEF AutoReserved, Ended
    <2>4. CASE room.status = "ROUND_ENDED" /\ ~NextRound
      BY <1>1, <2>1, <2>4, EndedOperation DEF AutoReserved, Ended
    <2>5. QED
      BY <2>2, <2>3, <2>4
  <1>2. AutoReserved'
    BY <1>1 DEF AutoReserved
  <1>3. AutoNextArmed /\ room'.status = "ROUND_ENDED" /\ ~timer'["speed-next"].set => NextRound
    BY EndedOperation DEF AutoNextArmed
  <1>4. QED
    BY <1>2, <1>3

(* So does a clerical step, unless a handler had not found the room. *)
LEMMA AutoClerical ==
  ASSUME TypeOK, AutoReserved, Clerical
  PROVE  /\ AutoReserved'
         /\ AutoNextArmed /\ ~timer'["speed-next"].set
              => \E i \in Runs : runs[i].stage = "missed" /\ runs'[i] = Idle
  <1>1. UNCHANGED room
    BY DEF Clerical, Claim, HandlerNoOp, HandlerMisses, HandlerFails, Settle, Enter
  <1>2. ASSUME NEW k \in Kinds, NEW i \in Runs, Claim(k, i)
        PROVE  AutoReserved' /\ (timer["speed-next"].set => timer'["speed-next"].set)
    <2>1. /\ \A x \in Kinds \ {k} : timer'[x] = timer[x]
          /\ timer'[k].set /\ timer'[k].by = i
      BY <1>2 DEF Claim, TypeOK, Timer
    <2>2. /\ \A j \in Runs \ {i} : runs'[j] = runs[j]
          /\ runs'[i].stage = "fired"
      BY <1>2 DEF Claim, TypeOK, Run
    <2>3. "speed-next" \in Kinds
      BY DEF Kinds
    <2>4. QED
      BY <1>1, <2>1, <2>2, <2>3 DEF AutoReserved, Ended
  <1>3. ASSUME NEW i \in Runs, HandlerNoOp(i) \/ HandlerMisses(i) \/ HandlerFails(i)
        PROVE  AutoReserved' /\ timer' = timer
    <2>1. timer' = timer
      BY <1>3 DEF HandlerNoOp, HandlerMisses, HandlerFails
    <2>2. /\ \A j \in Runs \ {i} : runs'[j] = runs[j]
          /\ runs'[i].stage = "ok" =>
               runs'[i].kind = runs[i].kind /\ room.status # Awaits(runs[i].kind)
      <3>1. CASE HandlerNoOp(i)
        BY <3>1 DEF HandlerNoOp, Ends, TypeOK, Run
      <3>2. CASE HandlerMisses(i)
        BY <3>2 DEF HandlerMisses, Ends, TypeOK, Run
      <3>3. CASE HandlerFails(i)
        BY <3>3 DEF HandlerFails, Dies, TypeOK, Idle
      <3>4. QED
        BY <1>3, <3>1, <3>2, <3>3
    <2>3. QED
      BY <1>1, <2>1, <2>2 DEF AutoReserved, Ended, Awaits
  <1>4. ASSUME NEW i \in Runs, Settle(i)
        PROVE  /\ AutoReserved'
               /\ AutoNextArmed /\ ~timer'["speed-next"].set
                    => runs[i].stage = "missed" /\ runs'[i] = Idle
    <2>1. runs[i].stage \in {"ok", "missed"}
      BY <1>4 DEF Settle
    <2>2. /\ \A j \in Runs \ {i} : runs'[j] = runs[j]
          /\ runs'[i] = Idle
      BY <1>4 DEF Settle, Dies, TypeOK
    <2>3. \A k \in Kinds : \/ timer'[k] = timer[k]
                           \/ timer'[k] = Unset /\ k = runs[i].kind /\ timer[k].by = i
      <3>1. CASE UNCHANGED timer
        BY <3>1
      <3>2. CASE DeleteReserved(i)
        BY <3>2 DEF DeleteReserved, TypeOK
      <3>3. QED
        BY <1>4, <3>1, <3>2 DEF Settle
    <2>4. "speed-next" \in Kinds
      BY DEF Kinds
    <2>5. AutoReserved'
      BY <1>1, <2>2, <2>3, <2>4, RunsAssumption DEF AutoReserved, Ended, Idle, Unset
    <2>6. QED
      BY <2>1, <2>2, <2>3, <2>4, <2>5 DEF AutoReserved, Ended, AutoNextArmed
  <1>5. ASSUME NEW u \in Users, Enter(u) PROVE AutoReserved' /\ timer' = timer
    BY <1>5 DEF Enter, AutoReserved, Ended
  <1>6. QED
    BY <1>2, <1>3, <1>4, <1>5 DEF Clerical, AutoNextArmed

(* The timer of the automatic next round survives late handlers and failed *)
(* requests, but for the two cases the property names.                     *)
THEOREM AutoNextNeverLost == Spec => AutoNextKept
  <1>1. Init => AutoReserved
    BY DEF Init, AutoReserved, Idle
  <1>2. ASSUME IInv, AutoReserved, [Next]_vars
        PROVE  /\ AutoReserved'
               /\ [AutoNextArmed /\ room'.status = "ROUND_ENDED" /\ ~timer'["speed-next"].set =>
                     \/ NextRound
                     \/ \E i \in Runs : runs[i].stage = "missed" /\ runs'[i] = Idle]_vars
    <2>1. TypeOK
      BY <1>2 DEF IInv
    <2>2. CASE Operation
      BY <1>2, <2>1, <2>2, AutoOperation
    <2>3. CASE Clerical
      BY <1>2, <2>1, <2>3, AutoClerical
    <2>4. CASE UNCHANGED vars
      BY <1>2, <2>4 DEF vars, AutoReserved, Ended
    <2>5. QED
      BY <1>2, <2>2, <2>3, <2>4, StepKinds
  <1>3. QED
    BY Always, <1>1, <1>2, PTL DEF Spec, AutoNextKept
-----------------------------------------------------------------------------
(* The promise of GameRounds.                                              *)

(* The songs of the game that is on are lost: what `lost` of GameRounds is. *)
Lost == keys.order = "expired" /\ room.status \in {"LOADING", "PLAYING", "ROUND_ENDED"}

(* A step that saves nothing is none of the game's, unless songs are lost. *)
LEMMA GameStutters ==
  ASSUME room' = room, Lost' = Lost PROVE [Game!Next]_(Game!gvars)
  BY DEF Lost, Game!gvars

(* What a save makes of the record, whatever its fate. *)
LEMMA BeginEffect ==
  ASSUME NEW r, NEW fate, BeginIfReady(r, fate)
  PROVE  \/ room' = room
         \/ /\ r.status = "LOADING" /\ AllIn(r, r.ready)
            /\ room' = [r EXCEPT !.status = "PLAYING"]
         \/ ~(r.status = "LOADING" /\ AllIn(r, r.ready)) /\ room' = r
  BY DEF BeginIfReady, Save, SaveOnly

(* A round that ends, ends. *)
LEMMA EndIsEnd ==
  ASSUME TypeOK, UNCHANGED keys,
         NEW r \in Record, r.status = "PLAYING", room.status = "PLAYING",
         r.round = room.round, r.members = room.members, r.ready = room.ready,
         NEW fate, EndRound(r, fate)
  PROVE  [Game!Next]_(Game!gvars)
<1>1. CASE room' = room
  BY <1>1, GameStutters DEF Lost
<1>2. CASE \E s \in Reveals : room' = Revealed(r, s)
  <2>1. /\ room'.status = "ROUND_ENDED" /\ room'.round = room.round
        /\ room'.members = room.members /\ room'.ready = room.ready
    BY <1>2 DEF Revealed, Record
  <2>2. QED
    BY <2>1 DEF Game!Next, Game!End
<1>3. QED
  BY <1>1, <1>2 DEF EndRound, Save

(* Round data that are prepared: the next round loads, or nothing yet. *)
LEMMA PreparedLoads ==
  ASSUME TypeOK, NEW n \in RoundIds, NEW writes \in 0..3, Prepared(room, n, writes)
  PROVE  room' = room \/ Game!Load(n)
<1>1. room \in Record /\ keys'.order = "stored"
  BY DEF TypeOK, Prepared, Keys
<1>2. CASE room' = Loading(room, n)
  BY <1>1, <1>2 DEF Loading, Record, Game!Load
<1>3. QED
  BY <1>2 DEF Prepared

(* After a round comes the next one, or the end: after the last, or for    *)
(* want of songs.                                                          *)
LEMMA AdvanceIsNext ==
  ASSUME TypeOK, RecInv, room.status = "ROUND_ENDED", NEW done \in BOOLEAN, Advance(done)
  PROVE  [Game!Next]_(Game!gvars)
<1>1. room \in Record /\ room.round \in RoundIds
  BY DEF TypeOK, Record
<1>2. CASE MoreRounds
  <2>1. room.round + 1 \in RoundIds /\ room.round < Rounds - 1
    BY <1>1, <1>2, RoundsAssumption DEF MoreRounds, RoundIds
  <2>2. PICK writes \in 0..3 : Prepared(room, room.round + 1, writes)
    BY <1>2 DEF Advance
  <2>3. room' = room \/ Game!Load(room.round + 1)
    BY <2>1, <2>2, PreparedLoads
  <2>4. keys.order = "stored" /\ keys'.order = "stored"
    BY <1>2, <2>2 DEF MoreRounds, Prepared, TypeOK, Keys
  <2>5. CASE room' = room
    BY <2>4, <2>5, GameStutters DEF Lost
  <2>6. CASE Game!Load(room.round + 1)
    BY <2>1, <2>4, <2>6 DEF Game!Next, Game!NextRound
  <2>7. QED
    BY <2>3, <2>5, <2>6
<1>3. CASE ~MoreRounds
  <2>1. room.round = Rounds - 1 \/ keys.order = "expired"
    BY <1>1, <1>3, RoundsAssumption
    DEF MoreRounds, RecInv, OrderKept, RoundIds, TypeOK, Keys, Orders
  <2>2. \/ room' = [Loading(room, -1) EXCEPT !.status = "FINISHED"]
        \/ room' = room /\ (keys'.order = "expired" <=> keys.order = "expired")
    <3>1. CASE keys.order = "stored" /\ keys' = [keys EXCEPT !.order = "none"] /\ room' = room
      <4>1. keys'.order = "none"
        BY <3>1 DEF TypeOK, Keys
      <4>2. QED
        BY <3>1, <4>1
    <3>2. QED
      BY <1>3, <3>1 DEF Advance, GameOver
  <2>3. CASE room' = [Loading(room, -1) EXCEPT !.status = "FINISHED"]
    <3>1. /\ room'.status = "FINISHED" /\ room'.round = -1
          /\ room'.members = room.members /\ room'.ready = {}
      BY <1>1, <2>3 DEF Loading, Record
    <3>2. QED
      BY <2>1, <3>1 DEF Game!Next, Game!Finish
  <2>4. QED
    BY <2>2, <2>3, GameStutters DEF Lost
<1>4. QED
  BY <1>2, <1>3

(* Who leaves is no longer waited for, and nothing else changes unless the *)
(* round begins or ends by it.                                             *)
LEMMA LeaveIsLeave ==
  ASSUME TypeOK, NEW u \in Users, LeaveRoom(u)
  PROVE  [Game!Next]_(Game!gvars)
<1>1. room \in Record /\ u \in room.members /\ room.members # {u} /\ UNCHANGED keys
  BY DEF TypeOK, LeaveRoom, RestUnchanged
<1>2. PICK r \in Remaining(u), fate \in Fates : Reassess(r, fate)
  BY DEF LeaveRoom
<1>3. /\ r \in Record /\ r.status = room.status /\ r.round = room.round
      /\ r.members = room.members \ {u} /\ r.ready = room.ready \ {u}
  <2>1. r \in Record
    BY <1>2, RecordMade
  <2>2. PICK h : r = [room EXCEPT !.members = @ \ {u}, !.host = h, !.ready = @ \ {u},
                                  !.correct = @ \ {u}, !.skip = @ \ {u}]
    BY <1>2 DEF Remaining
  <2>3. QED
    BY <1>1, <2>1, <2>2 DEF Record
<1>4. ASSUME room' \in Record, room'.round = r.round, room'.members = r.members,
             room'.ready = r.ready,
             \/ /\ r.status = "LOADING" /\ r.members \subseteq r.ready
                /\ room'.status = "PLAYING"
             \/ ~(r.status = "LOADING" /\ r.members \subseteq r.ready) /\ room'.status = r.status
             \/ r.status = "PLAYING" /\ room'.status = "ROUND_ENDED"
      PROVE  [Game!Next]_(Game!gvars)
  <2>1. room'.status = Game!Begun \/ (room.status = "PLAYING" /\ room'.status = "ROUND_ENDED")
    BY <1>3, <1>4 DEF Game!Begun
  <2>2. Game!Leave(u)
    BY <1>1, <1>3, <1>4, <2>1 DEF Game!Leave
  <2>3. QED
    BY <2>2 DEF Game!Next
<1>5. CASE r.status = "PLAYING" /\ EndRound(r, fate)
  <2>1. room' = room \/ \E s \in Reveals : room' = Revealed(r, s)
    BY <1>5 DEF EndRound, Save
  <2>2. CASE \E s \in Reveals : room' = Revealed(r, s)
    <3>1. /\ room' \in Record /\ room'.status = "ROUND_ENDED" /\ room'.round = r.round
          /\ room'.members = r.members /\ room'.ready = r.ready
      <4>1. PICK s \in Reveals : room' = Revealed(r, s)
        BY <2>2
      <4>2. room' \in Record
        BY <1>3, <4>1, RecordMade
      <4>3. QED
        BY <1>3, <4>1, <4>2 DEF Revealed, Record
    <3>2. QED
      BY <1>4, <1>5, <3>1
  <2>3. QED
    BY <1>1, <2>1, <2>2, GameStutters DEF Lost
<1>6. CASE BeginIfReady(r, fate)
  <2>1. CASE /\ r.status = "LOADING" /\ AllIn(r, r.ready)
             /\ room' = [r EXCEPT !.status = "PLAYING"]
    <3>1. /\ room' \in Record /\ room'.status = "PLAYING" /\ room'.round = r.round
          /\ room'.members = r.members /\ room'.ready = r.ready
      BY <1>3, <2>1, RecordMade DEF Record
    <3>2. QED
      BY <1>4, <2>1, <3>1 DEF AllIn
  <2>2. CASE ~(r.status = "LOADING" /\ AllIn(r, r.ready)) /\ room' = r
    BY <1>3, <1>4, <2>2 DEF AllIn
  <2>3. QED
    BY <1>1, <1>6, <2>1, <2>2, BeginEffect, GameStutters DEF Lost
<1>7. QED
  BY <1>2, <1>5, <1>6 DEF Reassess

(* A report counts, and begins the round when it is the last. *)
LEMMA ReadyIsReady ==
  ASSUME TypeOK, NEW u \in Users, MarkReady(u)
  PROVE  [Game!Next]_(Game!gvars)
<1> DEFINE r == [room EXCEPT !.ready = @ \cup {u}]
<1>1. room \in Record /\ room.status = "LOADING" /\ UNCHANGED keys
  BY DEF TypeOK, MarkReady, RestUnchanged
<1>2. /\ r \in Record /\ r.status = room.status /\ r.round = room.round
      /\ r.members = room.members /\ r.ready = room.ready \cup {u}
  BY <1>1, RecordMade DEF Record
<1>3. PICK fate \in Fates : BeginIfReady(r, fate)
  BY DEF MarkReady
<1> HIDE DEF r
<1>4. CASE r.status = "LOADING" /\ AllIn(r, r.ready) /\ room' = [r EXCEPT !.status = "PLAYING"]
  <2>1. /\ room'.status = "PLAYING" /\ room'.round = r.round
        /\ room'.members = r.members /\ room'.ready = r.ready
    BY <1>2, <1>4 DEF Record
  <2>2. Game!Ready(u)
    BY <1>1, <1>2, <1>4, <2>1 DEF Game!Ready, Game!Begun, AllIn
  <2>3. QED
    BY <2>2 DEF Game!Next
<1>5. CASE ~(r.status = "LOADING" /\ AllIn(r, r.ready)) /\ room' = r
  <2>1. Game!Ready(u)
    BY <1>1, <1>2, <1>5 DEF Game!Ready, Game!Begun, AllIn
  <2>2. QED
    BY <2>1 DEF Game!Next
<1>6. QED
  BY <1>1, <1>3, <1>4, <1>5, BeginEffect, GameStutters DEF Lost

(* Every operation is a step of the game, or none. *)
LEMMA OperationIsGame ==
  ASSUME TypeOK, RecInv, Operation
  PROVE  [Game!Next]_(Game!gvars)
<1> USE DEF TypeOK
<1>1. ASSUME NEW u \in Users, JoinRoom(u) PROVE [Game!Next]_(Game!gvars)
  <2>1. /\ room' = [room EXCEPT !.members = @ \cup {u}] /\ room \in Record
        /\ room.status # "GONE" /\ u \notin room.members /\ UNCHANGED keys
    BY <1>1 DEF JoinRoom, SaveOnly, RestUnchanged
  <2>2. Game!Come(u)
    BY <2>1 DEF Game!Come, Record
  <2>3. QED
    BY <2>2 DEF Game!Next
<1>2. ASSUME NEW u \in Users, DeleteRoom(u) PROVE [Game!Next]_(Game!gvars)
  <2>1. Game!Close(u)
    BY <1>2 DEF DeleteRoom, NoRoom, Record, Game!Close, Game!Gone
  <2>2. QED
    BY <2>1 DEF Game!Next
<1>3. ASSUME NEW r \in Record, room' = r, r.status = room.status, r.round = room.round,
             r.members = room.members, r.ready = room.ready, UNCHANGED keys
      PROVE  [Game!Next]_(Game!gvars)
  BY <1>3 DEF Game!gvars
<1>4. CASE UpdateRoom
  <2>1. UNCHANGED keys /\ \E speed \in BOOLEAN : room' = [room EXCEPT !.speed = speed]
    BY <1>4 DEF UpdateRoom, SaveOnly, RestUnchanged
  <2>2. QED
    BY <2>1 DEF Record, Game!gvars
<1>5. CASE StartGame
  <2>1. PICK writes \in 0..3 : Prepared(room, 0, writes)
    BY <1>5 DEF StartGame
  <2>2. 0 \in RoundIds
    BY RoundsAssumption DEF RoundIds
  <2>3. room' = room \/ Game!Load(0)
    BY <2>1, <2>2, PreparedLoads
  <2>4. QED
    BY <1>5, <2>3, GameStutters DEF StartGame, Lost, Game!Next, Game!Start
<1>6. CASE NextRound
  BY <1>6, AdvanceIsNext DEF NextRound
<1>7. ASSUME NEW u \in Users, SubmitAnswer(u) \/ RequestSkip(u)
      PROVE  [Game!Next]_(Game!gvars)
  <2>1. PICK r \in {[room EXCEPT !.correct = @ \cup {u}], [room EXCEPT !.skip = @ \cup {u}]} :
          \/ \E fate \in Fates : EndRound(r, fate)
          \/ room' \in {room, r}
    BY <1>7 DEF SubmitAnswer, RequestSkip, Save, SaveOnly
  <2>2. /\ r \in Record /\ r.status = room.status /\ r.round = room.round
        /\ r.members = room.members /\ r.ready = room.ready /\ room.status = "PLAYING"
        /\ UNCHANGED keys
    <3>1. r \in Record /\ room \in Record
      BY <2>1, RecordMade
    <3>2. room.status = "PLAYING" /\ UNCHANGED keys
      BY <1>7 DEF SubmitAnswer, RequestSkip, RestUnchanged
    <3>3. QED
      BY <2>1, <3>1, <3>2 DEF Record
  <2>3. QED
    BY <1>3, <2>1, <2>2, EndIsEnd, GameStutters DEF Lost
<1>8. CASE ForceSkip
  BY <1>8, GameStutters DEF ForceSkip, Save, RestUnchanged, Lost
<1>9. ASSUME NEW i \in Runs, HandleRoundEnd(i) PROVE [Game!Next]_(Game!gvars)
  <2>1. /\ room \in Record /\ room.status = "PLAYING" /\ UNCHANGED keys
        /\ \E fate \in Fates : EndRound(room, fate)
    BY <1>9 DEF HandleRoundEnd, Fates
  <2>2. QED
    BY <2>1, EndIsEnd
<1>10. ASSUME NEW i \in Runs, HandleAutoNext(i) PROVE [Game!Next]_(Game!gvars)
  BY <1>10, AdvanceIsNext DEF HandleAutoNext
<1>11. CASE OrderExpires
  <2>1. ~Lost /\ Lost' /\ room' = room
    BY <1>11 DEF OrderExpires, Lost, Keys
  <2>2. Game!LoseSongs
    BY <1>11, <2>1 DEF OrderExpires, Lost, Game!LoseSongs
  <2>3. QED
    BY <2>2 DEF Game!Next
<1>12. CASE RoomExpires
  <2>1. room.status \in {"LOADING", "PLAYING"} => keys.order = "expired"
    BY <1>12 DEF RoomExpires, RecInv, RightSong, Keys, Orders
  <2>2. Game!Gone
    BY <1>12 DEF RoomExpires, NoRoom, Record, Game!Gone
  <2>3. Game!Lapse
    BY <1>12, <2>1, <2>2 DEF RoomExpires, Game!Lapse
  <2>4. QED
    BY <2>3 DEF Game!Next
<1>13. QED
  BY <1>1, <1>2, <1>4, <1>5, <1>6, <1>7, <1>8, <1>9, <1>10, <1>11, <1>12,
     LeaveIsLeave, ReadyIsReady DEF Operation

(* The room keeps the promise of GameRounds: rounds in order, each played  *)
(* when all who are in the room are ready, whatever fails half-way, and    *)
(* the end after the last or once the song order has expired.              *)
THEOREM ImplementsRounds == Spec => RoundsSpec
<1>1. Init => Game!Init
  BY DEF Init, NoKeys, Game!Init
<1>2. IInv /\ [Next]_vars => [Game!Next]_(Game!gvars)
  <2>1. SUFFICES ASSUME IInv, [Next]_vars PROVE [Game!Next]_(Game!gvars)
    OBVIOUS
  <2>2. TypeOK /\ RecInv
    BY <2>1 DEF IInv, RecInv
  <2>3. CASE Operation
    BY <2>2, <2>3, OperationIsGame
  <2>4. CASE Clerical \/ UNCHANGED vars
    BY <2>4, GameStutters
       DEF Lost, Clerical, Enter, Claim, HandlerNoOp, HandlerMisses, HandlerFails, Settle, vars
  <2>5. QED
    BY <2>1, <2>3, <2>4, StepKinds
<1>3. QED
  BY Always, <1>1, <1>2, PTL DEF Spec, RoundsSpec, Game!Spec
=============================================================================
