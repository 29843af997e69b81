------------------------ MODULE RoundPlaybackProofs ------------------------
(***************************************************************************)
(* What RoundPlayback promises for every number of rounds and of lost      *)
(* connections.  The player's properties are inductive together with the   *)
(* types; that reports count needs that a round which loads has an index.  *)
(***************************************************************************)
EXTENDS RoundPlayback, TLAPS

(* A round that loads has an index: no ref is null by accident. *)
Indexed == room.status = "LOADING" => room.round # NoRound

IInv == TypeOK /\ SilentBefore /\ HeardAfter /\ ReportCounts /\ Indexed

-----------------------------------------------------------------------------
(* The values of the constants and of the records in use. *)
LEMMA Values ==
  /\ NoRound \in RoundIds /\ 0 \in RoundIds /\ <<>> \in Seq({"ready", "enter"})
  /\ Waiting \in View /\ Unready \in [ready : BOOLEAN, muted : BOOLEAN, want : BOOLEAN, late : BOOLEAN]
  /\ NoRefs \in [reported : RoundIds, prebuffering : RoundIds,
                 prebuffered : RoundIds, played : RoundIds]
  BY LastAssumption
  DEF NoRound, RoundIds, Waiting, View, Statuses, Unready, NoRefs

(* What the page shows keeps its types and what is said of the player. *)
LEMMA ShowSound ==
  ASSUME TypeOK, SilentBefore, HeardAfter, NEW v \in View, Show(v)
  PROVE  /\ view' \in View
         /\ refs' \in [reported : RoundIds, prebuffering : RoundIds,
                       prebuffered : RoundIds, played : RoundIds]
         /\ warm' \in BOOLEAN
         /\ player' \in [ready : BOOLEAN, muted : BOOLEAN, want : BOOLEAN, late : BOOLEAN]
         /\ refs'.reported = refs.reported
         /\ SilentBefore' /\ HeardAfter'
  <1>1. v.round \in RoundIds /\ view' = v
    BY DEF View, Show
  <1>2. /\ refs' \in [reported : RoundIds, prebuffering : RoundIds,
                      prebuffered : RoundIds, played : RoundIds]
        /\ refs'.reported = refs.reported /\ refs'.played = refs.played
    BY <1>1, Values DEF TypeOK, Show
  <1>3. warm' \in BOOLEAN
    BY DEF TypeOK, Show, Warms
  <1> DEFINE old == IF v.round # view.round THEN Unready ELSE player
  <1>4. old \in [ready : BOOLEAN, muted : BOOLEAN, want : BOOLEAN, late : BOOLEAN]
    BY Values DEF TypeOK
  <1>5. /\ v.round # view.round => ~old.ready /\ ~old.want
        /\ v.round = view.round => old = player
    BY DEF Unready
  <1>6. player' = IF Warms(v) THEN [old EXCEPT !.muted = TRUE, !.want = TRUE]
                  ELSE IF Cut(v) THEN [old EXCEPT !.want = FALSE] ELSE old
    BY DEF Show
  <1> HIDE DEF old
  <1>7. player' \in [ready : BOOLEAN, muted : BOOLEAN, want : BOOLEAN, late : BOOLEAN]
    BY <1>4, <1>6
  <1>8. CASE Warms(v)
    <2>1. /\ player'.muted /\ refs.played # v.round
      BY <1>4, <1>6, <1>8 DEF Warms
    <2>2. QED
      BY <1>1, <1>2, <1>3, <1>7, <2>1 DEF SilentBefore, HeardAfter
  <1>9. CASE ~Warms(v) /\ Cut(v)
    <2>1. /\ ~player'.want /\ player'.ready = old.ready /\ refs.played # view.round
      BY <1>4, <1>6, <1>9 DEF Cut
    <2>2. QED
      BY <1>1, <1>2, <1>3, <1>5, <1>7, <2>1 DEF SilentBefore, HeardAfter
  <1>10. CASE ~Warms(v) /\ ~Cut(v)
    <2>1. player' = old
      BY <1>6, <1>10
    <2>2. QED
      BY <1>1, <1>2, <1>3, <1>5, <1>7, <2>1 DEF SilentBefore, HeardAfter
  <1>11. QED
    BY <1>8, <1>9, <1>10

(* What is to be kept of the player when a record is saved or an entry ends. *)
PageSound ==
  /\ view' \in View
  /\ refs' \in [reported : RoundIds, prebuffering : RoundIds,
                prebuffered : RoundIds, played : RoundIds]
  /\ warm' \in BOOLEAN
  /\ player' \in [ready : BOOLEAN, muted : BOOLEAN, want : BOOLEAN, late : BOOLEAN]
  /\ refs'.reported = refs.reported
  /\ SilentBefore' /\ HeardAfter'

Record == [status : Statuses, round : RoundIds, mine : BOOLEAN, others : BOOLEAN,
           lost : BOOLEAN]

(* A page that stays as it is is sound. *)
LEMMA PageStays ==
  ASSUME TypeOK, SilentBefore, HeardAfter, UNCHANGED page
  PROVE  PageSound
  BY DEF TypeOK, page, PageSound, SilentBefore, HeardAfter

(* A record that is saved reaches the page or not. *)
LEMMA BecomesSound ==
  ASSUME TypeOK, SilentBefore, HeardAfter, NEW r \in Record, Becomes(r)
  PROVE  PageSound /\ room' = r /\ UNCHANGED <<member, link, snap, drops>>
  <1>1. Seen(r) \in View
    BY DEF Seen, View, Record
  <1>2. CASE link = "in"
    BY <1>1, <1>2, ShowSound DEF Becomes, Broadcast, PageSound
  <1>3. CASE link # "in"
    BY <1>3, PageStays DEF Becomes, Broadcast
  <1>4. QED
    BY <1>2, <1>3

(* Who is ready changes nothing but the status. *)
LEMMA RecomputedFacts ==
  ASSUME NEW r \in Record, NEW m \in BOOLEAN
  PROVE  /\ Recomputed(r, m) \in Record
         /\ Recomputed(r, m).round = r.round /\ Recomputed(r, m).mine = r.mine
         /\ Recomputed(r, m).lost = r.lost
         /\ Recomputed(r, m).status = "LOADING" => r.status = "LOADING"
  BY DEF Recomputed, Record, Statuses

(* Reports on the way stay when one is added or room:enter arrives. *)
LEMMA SentStays ==
  ASSUME TypeOK, outbox' \in Seq({"ready", "enter"}),
         \/ \E e \in {"ready", "enter"} : outbox' = Append(outbox, e)
         \/ outbox # <<>> /\ Head(outbox) = "enter" /\ outbox' = Tail(outbox)
  PROVE  Sent => Sent'
  <1>1. ASSUME NEW e \in {"ready", "enter"}, outbox' = Append(outbox, e), Sent PROVE Sent'
    <2>1. PICK i \in 1 .. Len(outbox) : outbox[i] = "ready"
      BY <1>1 DEF Sent
    <2>2. i \in 1 .. Len(outbox') /\ outbox'[i] = "ready"
      BY <1>1, <2>1 DEF TypeOK
    <2>3. QED
      BY <2>2 DEF Sent
  <1>2. ASSUME outbox # <<>>, Head(outbox) = "enter", outbox' = Tail(outbox), Sent PROVE Sent'
    <2>1. PICK i \in 1 .. Len(outbox) : outbox[i] = "ready"
      BY <1>2 DEF Sent
    <2>2. i # 1
      BY <1>2, <2>1 DEF TypeOK
    <2>3. i - 1 \in 1 .. Len(outbox') /\ outbox'[i - 1] = "ready"
      BY <1>2, <2>1, <2>2 DEF TypeOK
    <2>4. QED
      BY <2>3 DEF Sent
  <1>3. QED
    BY <1>1, <1>2

(* A page that reports: its report is on the way. *)
LEMMA ReportSends ==
  ASSUME TypeOK, Report
  PROVE  /\ refs' \in [reported : RoundIds, prebuffering : RoundIds,
                       prebuffered : RoundIds, played : RoundIds]
         /\ refs'.played = refs.played
         /\ outbox' \in Seq({"ready", "enter"})
         /\ UNCHANGED <<link, snap, drops>>
         /\ Sent'
  <1>1. view.round \in RoundIds
    BY DEF TypeOK, View
  <1>2. /\ refs' \in [reported : RoundIds, prebuffering : RoundIds,
                      prebuffered : RoundIds, played : RoundIds]
        /\ refs'.played = refs.played
    BY <1>1 DEF TypeOK, Report
  <1>3. outbox' = Append(outbox, "ready") /\ UNCHANGED <<link, snap, drops>>
    BY DEF Report, Emit
  <1>4. outbox' \in Seq({"ready", "enter"})
    BY <1>3 DEF TypeOK
  <1>5. Len(outbox') \in 1 .. Len(outbox') /\ outbox'[Len(outbox')] = "ready"
    BY <1>3 DEF TypeOK
  <1>6. QED
    BY <1>2, <1>3, <1>4, <1>5 DEF Sent

-----------------------------------------------------------------------------
(* A step of the page keeps the invariant. *)
LEMMA PageStep == ASSUME IInv, Page PROVE IInv'
  <1> USE DEF IInv
  <1>1. ASSUME Report, UNCHANGED <<server, view, warm, player, gaps>> PROVE IInv'
    <2>1. TypeOK'
      BY <1>1, ReportSends DEF TypeOK, server
    <2>2. SilentBefore' /\ HeardAfter' /\ Indexed'
      BY <1>1, ReportSends DEF SilentBefore, HeardAfter, Indexed, server
    <2>3. ReportCounts'
      BY <1>1, ReportSends DEF ReportCounts
    <2>4. QED
      BY <2>1, <2>2, <2>3
  <1>2. CASE PlayerReady
    BY <1>2 DEF PlayerReady, TypeOK, SilentBefore, HeardAfter, ReportCounts, Sent, Indexed,
                server, socket
  <1>3. ASSUME Start \/ WarmEnds PROVE IInv'
    <2>1. view.round \in RoundIds /\ NoRound \in RoundIds
      BY Values DEF TypeOK, View
    <2>2. UNCHANGED <<server, socket, view, gaps>>
      BY <1>3 DEF Start, WarmEnds
    <2>3. /\ refs' \in [reported : RoundIds, prebuffering : RoundIds,
                        prebuffered : RoundIds, played : RoundIds]
          /\ refs'.reported = refs.reported
          /\ player' \in [ready : BOOLEAN, muted : BOOLEAN, want : BOOLEAN, late : BOOLEAN]
          /\ warm' \in BOOLEAN
      BY <1>3, <2>1 DEF Start, WarmEnds, TypeOK
    <2>4. SilentBefore' /\ HeardAfter'
      BY <1>3, <2>1 DEF Start, WarmEnds, TypeOK, SilentBefore, HeardAfter
    <2>5. TypeOK'
      BY <2>2, <2>3 DEF TypeOK, server, socket
    <2>6. QED
      BY <2>2, <2>3, <2>4, <2>5 DEF ReportCounts, Sent, Indexed, server, socket
  <1>4. QED
    BY <1>1, <1>2, <1>3 DEF Page, Fallback, PlayerPlays

(* A step of the socket keeps the invariant. *)
LEMMA SocketStep == ASSUME IInv, Socket PROVE IInv'
  <1> USE DEF IInv
  <1>1. CASE Connect
    <2>1. outbox' = Append(outbox, "enter") /\ outbox' \in Seq({"ready", "enter"})
      BY <1>1 DEF Connect, Emit, TypeOK
    <2>2. Sent => Sent'
      BY <2>1, SentStays
    <2>3. TypeOK'
      BY <1>1, <2>1 DEF Connect, TypeOK, Links, server, page
    <2>4. QED
      BY <1>1, <2>2, <2>3
      DEF Connect, SilentBefore, HeardAfter, ReportCounts, Indexed, server, page
  <1>2. CASE Drop
    <2>1. TypeOK'
      BY <1>2, DropsAssumption DEF Drop, TypeOK, Links, server, page
    <2>2. ReportCounts'
      BY <1>2 DEF Drop, ReportCounts, server, page
    <2>3. QED
      BY <1>2, <2>1, <2>2 DEF Drop, SilentBefore, HeardAfter, Indexed, server, page
  <1>3. CASE Reload
    <2>1. Seen(room) \in View
      BY DEF TypeOK, Seen, View
    <2>2. TypeOK'
      <3>1. drops' \in 0 .. MaxDrops
        BY <1>3, DropsAssumption DEF Reload, TypeOK
      <3>2. /\ view' \in View /\ warm' \in BOOLEAN /\ link' \in Links
            /\ gaps' = {} /\ UNCHANGED <<room, member, snap>>
        BY <1>3, <2>1 DEF Reload, Links, server
      <3>3. outbox' \in Seq({"ready", "enter"})
        BY <1>3, Values DEF Reload
      <3>4. refs' = NoRefs /\ player' = Unready
        BY <1>3 DEF Reload
      <3>5. QED
        BY <3>1, <3>2, <3>3, <3>4, Values DEF TypeOK
    <2>3. refs'.reported = NoRound /\ ~player'.want /\ ~player'.ready
      BY <1>3 DEF Reload, NoRefs, Unready
    <2>4. QED
      BY <1>3, <2>2, <2>3 DEF Reload, SilentBefore, HeardAfter, ReportCounts, Indexed, server
  <1>4. CASE EnterRead
    <2>1. outbox' = Tail(outbox) /\ outbox # <<>> /\ Head(outbox) = "enter"
      BY <1>4 DEF EnterRead
    <2>2. outbox' \in Seq({"ready", "enter"})
      BY <2>1 DEF TypeOK
    <2>3. Sent => Sent'
      BY <2>1, <2>2, SentStays
    <2>4. Seen(room) \in View
      BY DEF TypeOK, Seen, View
    <2>5. TypeOK'
      BY <1>4, <2>2, <2>4 DEF EnterRead, TypeOK, Links, server, page
    <2>6. QED
      BY <1>4, <2>3, <2>5
      DEF EnterRead, SilentBefore, HeardAfter, ReportCounts, Indexed, server, page
  <1>5. CASE EnterJoin
    <2>1. PageSound
      BY <1>5, ShowSound DEF EnterJoin, TypeOK, PageSound
    <2>2. TypeOK'
      BY <1>5, <2>1 DEF EnterJoin, TypeOK, PageSound, Links, server
    <2>3. QED
      BY <1>5, <2>1, <2>2 DEF EnterJoin, PageSound, ReportCounts, Sent, Indexed, server
  <1>6. QED
    BY <1>1, <1>2, <1>3, <1>4, <1>5 DEF Socket

(* A step of the room keeps the invariant. *)
LEMMA RoomStep == ASSUME IInv, Room PROVE IInv'
  <1> USE DEF IInv
  <1>1. ASSUME NEW r \in Record, Becomes(r), outbox' = outbox, gaps' = gaps,
               r.status = "LOADING" => /\ room.status = "LOADING"
                                       /\ r.round = room.round /\ (room.mine => r.mine)
        PROVE  IInv'
    <2>1. PageSound /\ room' = r /\ UNCHANGED <<member, link, snap, drops>>
      BY <1>1, BecomesSound
    <2>2. TypeOK'
      BY <1>1, <2>1 DEF TypeOK, PageSound, Record
    <2>3. QED
      BY <1>1, <2>1, <2>2 DEF PageSound, ReportCounts, Sent, Indexed
  <1>2. ASSUME NEW n \in RoundIds, n # NoRound, Load(n) PROVE IInv'
    <2>1. Loading(n) \in Record /\ Loading(n).round = n
      BY DEF Loading, Record, Statuses
    <2>2. PageSound /\ room' = Loading(n) /\ UNCHANGED <<member, link, snap, drops>>
      BY <1>2, <2>1, BecomesSound DEF Load
    <2>3. gaps' = (IF refs.reported = n THEN {"reported"} ELSE {}) /\ outbox' = outbox
      BY <1>2 DEF Load
    <2>4. TypeOK'
      BY <2>1, <2>2, <2>3 DEF TypeOK, PageSound, Record
    <2>5. QED
      BY <1>2, <2>1, <2>2, <2>3, <2>4 DEF PageSound, ReportCounts, Indexed
  <1>3. room \in Record /\ member \in BOOLEAN
    BY DEF TypeOK, Record
  <1>4. CASE ReadyArrives
    <2>1. outbox' \in Seq({"ready", "enter"})
      BY <1>4 DEF ReadyArrives, TypeOK
    <2>2. CASE link = "in" /\ room.status = "LOADING"
      <3> DEFINE r == [room EXCEPT !.mine = TRUE]
      <3>1. r \in Record /\ r.round = room.round /\ r.mine
        BY <1>3 DEF Record
      <3>2. PageSound /\ room' = Recomputed(r, member) /\ UNCHANGED <<member, link, snap, drops>>
        BY <1>3, <1>4, <2>2, <3>1, RecomputedFacts, BecomesSound DEF ReadyArrives
      <3> HIDE DEF r
      <3>3. room' \in Record /\ room'.round = room.round /\ room'.mine
        BY <1>3, <3>1, <3>2, RecomputedFacts
      <3>4. gaps' = gaps
        BY <1>4, <2>2 DEF ReadyArrives
      <3>5. TypeOK'
        BY <2>1, <3>2, <3>3, <3>4 DEF TypeOK, PageSound, Record
      <3>6. QED
        BY <2>2, <3>2, <3>3, <3>5 DEF PageSound, ReportCounts, Indexed
    <2>3. CASE ~(link = "in" /\ room.status = "LOADING")
      <3>1. UNCHANGED <<server, page, link, snap, drops>>
        BY <1>4, <2>3 DEF ReadyArrives
      <3>2. gaps' = IF link = "in" THEN gaps ELSE gaps \cup {"lost"}
        BY <1>4 DEF ReadyArrives
      <3>3. TypeOK'
        BY <2>1, <3>1, <3>2 DEF TypeOK, server, page
      <3>4. QED
        BY <2>3, <3>1, <3>2, <3>3
        DEF SilentBefore, HeardAfter, ReportCounts, Indexed, server, page
    <2>4. QED
      BY <2>2, <2>3
  <1>5. CASE OthersReady
    <2> DEFINE r == [room EXCEPT !.others = TRUE]
    <2>1. r \in Record /\ r.round = room.round /\ r.mine = room.mine /\ r.status = room.status
      BY <1>3 DEF Record
    <2> HIDE DEF r
    <2>2. Becomes(Recomputed(r, member)) /\ outbox' = outbox /\ gaps' = gaps
      BY <1>5 DEF OthersReady, r
    <2>3. QED
      BY <1>1, <1>3, <2>1, <2>2, RecomputedFacts
  <1>6. CASE StartGame
    <2>1. 0 \in RoundIds /\ 0 # NoRound
      BY Values DEF NoRound
    <2>2. QED
      BY <1>2, <1>6, <2>1 DEF StartGame
  <1>7. CASE RoundEnds
    <2> DEFINE r == [room EXCEPT !.status = "ROUND_ENDED"]
    <2>1. r \in Record /\ r.status # "LOADING"
      BY <1>3 DEF Record, Statuses
    <2>2. QED
      BY <1>1, <1>7, <2>1 DEF RoundEnds
  <1>8. CASE NextRound
    <2>1. CASE room.round < Last /\ ~room.lost /\ Load(room.round + 1)
      <3>1. room.round + 1 \in RoundIds /\ room.round + 1 # NoRound
        BY <1>3, <2>1, LastAssumption DEF Record, RoundIds, NoRound
      <3>2. QED
        BY <1>2, <2>1, <3>1
    <2>2. CASE ~(room.round < Last /\ ~room.lost /\ Load(room.round + 1))
      <3> DEFINE r == [Loading(NoRound) EXCEPT !.status = "FINISHED"]
      <3>1. r \in Record /\ r.status # "LOADING"
        BY Values DEF Loading, Record, Statuses
      <3>2. Becomes(r) /\ outbox' = outbox /\ gaps' = gaps
        BY <1>8, <2>2 DEF NextRound
      <3> HIDE DEF r
      <3>3. QED
        BY <1>1, <3>1, <3>2
    <2>3. QED
      BY <2>1, <2>2
  <1>9. CASE Updated
    BY <1>1, <1>3, <1>9 DEF Updated
  <1>10. CASE Removed
    <2>1. /\ room' \in Record /\ room'.round = room.round
          /\ room'.status = "LOADING" => room.status = "LOADING"
          /\ member' = FALSE /\ UNCHANGED <<socket, page, gaps>>
      BY <1>3, <1>10, RecomputedFacts DEF Removed
    <2>2. TypeOK'
      BY <2>1 DEF TypeOK, socket, page, Record
    <2>3. QED
      BY <2>1, <2>2 DEF SilentBefore, HeardAfter, ReportCounts, Indexed, page
  <1>11. CASE OrderExpires
    <2>1. /\ room' \in Record /\ room'.status = room.status
          /\ room'.round = room.round /\ room'.mine = room.mine
      BY <1>3, <1>11 DEF OrderExpires, Record
    <2>2. UNCHANGED <<member, socket, page, gaps>>
      BY <1>11 DEF OrderExpires
    <2>3. TypeOK'
      BY <2>1, <2>2 DEF TypeOK, socket, page, Record
    <2>4. QED
      BY <2>1, <2>2, <2>3
      DEF SilentBefore, HeardAfter, ReportCounts, Sent, Indexed, socket, page
  <1>12. QED
    BY <1>4, <1>5, <1>6, <1>7, <1>8, <1>9, <1>10, <1>11 DEF Room

(* The invariant holds throughout. *)
LEMMA Always == Spec => []IInv
  <1>1. Init => IInv
    <2>1. SUFFICES ASSUME Init PROVE IInv
      OBVIOUS
    <2>2. TypeOK
      <3>1. drops \in 0 .. MaxDrops /\ link \in Links /\ gaps = {}
        BY <2>1, DropsAssumption DEF Init, Links
      <3>2. room \in Record /\ member \in BOOLEAN /\ warm \in BOOLEAN
        BY <2>1, Values DEF Init, Record, Statuses
      <3>3. /\ snap \in View /\ view \in View /\ outbox \in Seq({"ready", "enter"})
            /\ refs = NoRefs /\ player = Unready
        BY <2>1, Values DEF Init
      <3>4. QED
        BY <3>1, <3>2, <3>3, Values DEF TypeOK, Record
    <2>3. QED
      BY <2>1, <2>2
      DEF Init, IInv, SilentBefore, HeardAfter, ReportCounts, Indexed, Unready, NoRefs
  <1>2. IInv /\ [Next]_vars => IInv'
    <2>1. ASSUME IInv, UNCHANGED vars PROVE IInv'
      BY <2>1
      DEF IInv, TypeOK, SilentBefore, HeardAfter, ReportCounts, Sent, Indexed,
          vars, server, socket, page
    <2>2. QED
      BY <2>1, PageStep, SocketStep, RoomStep DEF Next
  <1>3. QED
    BY <1>1, <1>2, PTL DEF Spec

(* Room, socket and page always have their types. *)
THEOREM TypeCorrect == Spec => []TypeOK
  <1>1. IInv => TypeOK
    BY DEF IInv
  <1>2. QED
    BY Always, <1>1, PTL

(* The player is muted until the scheduled start, whatever the warm-up, the *)
(* player and the broadcasts do in which order (the effects of GamePlayer). *)
THEOREM NeverEarly == Spec => []SilentBefore
  <1>1. IInv => SilentBefore
    BY DEF IInv
  <1>2. QED
    BY Always, <1>1, PTL

(* Once started, a player that was ready in time goes on: neither timer nor *)
(* clean-up of the warm-up stops it.                                        *)
THEOREM GoesOnPlaying == Spec => []HeardAfter
  <1>1. IInv => HeardAfter
    BY DEF IInv
  <1>2. QED
    BY Always, <1>1, PTL

(* A report made for the round that loads has arrived or is on its way,     *)
(* unless it was lost with its socket or belongs to an earlier game.        *)
THEOREM ReportsCount == Spec => []ReportCounts
  <1>1. IInv => ReportCounts
    BY DEF IInv
  <1>2. QED
    BY Always, <1>1, PTL
-----------------------------------------------------------------------------
(* The promise of GameRounds.                                              *)

(* A socket that enters, or has entered, is a participant's. *)
EntersAsMember == link \in {"entering", "in"} => member

(* It stays so: only who is not connected is removed. *)
LEMMA EntersStep == EntersAsMember /\ [Next]_vars => EntersAsMember'
<1> SUFFICES ASSUME EntersAsMember, [Next]_vars PROVE EntersAsMember'
  OBVIOUS
<1> USE DEF EntersAsMember
<1>1. CASE Page
  BY <1>1 DEF Page, Fallback, PlayerPlays, Report, PlayerReady, Start, WarmEnds, server, socket
<1>2. CASE Socket
  BY <1>2 DEF Socket, Connect, Drop, Reload, EnterRead, EnterJoin, server
<1>3. CASE Room
  BY <1>3 DEF Room, ReadyArrives, OthersReady, StartGame, RoundEnds, NextRound, Updated, Removed,
              OrderExpires, Load, Becomes, server, socket
<1>4. CASE UNCHANGED vars
  BY <1>4 DEF vars, server, socket
<1>5. QED
  BY <1>1, <1>2, <1>3, <1>4 DEF Next

(* A round that loads loads for everybody. *)
LEMMA LoadIsLoad ==
  ASSUME NEW n \in RoundIds, Load(n) PROVE Game!Load(n)
  BY DEF Load, Becomes, Loading, Game!Load

(* A report of the others, or of this page, counts. *)
LEMMA ReportIsReady ==
  ASSUME TypeOK, room.status = "LOADING", member' = member,
         NEW mine \in BOOLEAN, NEW others \in BOOLEAN,
         \/ others = room.others /\ mine /\ member
         \/ mine = room.mine /\ others,
         room' = Recomputed([room EXCEPT !.mine = mine, !.others = others], member)
  PROVE  Game!Next
<1> DEFINE r == [room EXCEPT !.mine = mine, !.others = others]
<1>1. /\ r \in Record /\ r.status = "LOADING" /\ r.round = room.round
      /\ r.mine = mine /\ r.others = others /\ r.lost = room.lost
  BY DEF TypeOK, Record
<1> HIDE DEF r
<1>2. /\ room'.round = room.round /\ room'.mine = mine /\ room'.others = others
      /\ room'.lost = room.lost
      /\ room'.status = IF others /\ (member => mine) THEN "PLAYING" ELSE "LOADING"
  BY <1>1 DEF Recomputed, Record, r
<1>3. CASE others = room.others /\ mine /\ member
  <2>1. Game!Ready("me")
    BY <1>2, <1>3 DEF Game!Ready, Game!Begun
  <2>2. QED
    BY <2>1 DEF Game!Next
<1>4. CASE mine = room.mine /\ others
  <2>1. Game!Ready("others")
    BY <1>2, <1>4 DEF Game!Ready, Game!Begun
  <2>2. QED
    BY <2>1 DEF Game!Next
<1>5. QED
  BY <1>3, <1>4

(* Every step is one of the game, or none. *)
LEMMA GameStep ==
  ASSUME TypeOK, EntersAsMember, [Next]_vars
  PROVE  [Game!Next]_(Game!gvars)
<1>1. ASSUME UNCHANGED server PROVE [Game!Next]_(Game!gvars)
  BY <1>1 DEF server, Game!gvars
<1>2. CASE Page \/ Socket \/ UNCHANGED vars
  BY <1>1, <1>2 DEF Page, Fallback, PlayerPlays, PlayerReady, Start, WarmEnds,
                    Socket, Connect, Drop, Reload, EnterRead, EnterJoin, vars
<1>3. CASE ReadyArrives
  <2>1. CASE link = "in" /\ room.status = "LOADING"
    <3>1. /\ room' = Recomputed([room EXCEPT !.mine = TRUE], member) /\ member' = member /\ member
      BY <1>3, <2>1 DEF ReadyArrives, Becomes, EntersAsMember
    <3>2. [room EXCEPT !.mine = TRUE] = [room EXCEPT !.mine = TRUE, !.others = room.others]
          /\ room.others \in BOOLEAN
      BY DEF TypeOK
    <3>3. QED
      BY <2>1, <3>1, <3>2, ReportIsReady
  <2>2. CASE ~(link = "in" /\ room.status = "LOADING")
    BY <1>1, <1>3, <2>2 DEF ReadyArrives
  <2>3. QED
    BY <2>1, <2>2
<1>4. CASE OthersReady
  <2>1. /\ room' = Recomputed([room EXCEPT !.others = TRUE], member) /\ member' = member
        /\ room.status = "LOADING"
    BY <1>4 DEF OthersReady, Becomes
  <2>2. [room EXCEPT !.others = TRUE] = [room EXCEPT !.mine = room.mine, !.others = TRUE]
        /\ room.mine \in BOOLEAN
    BY DEF TypeOK
  <2>3. QED
    BY <2>1, <2>2, ReportIsReady
<1>5. CASE StartGame
  <2>1. Game!Load(0)
    BY <1>5, LoadIsLoad, Values DEF StartGame
  <2>2. QED
    BY <1>5, <2>1 DEF StartGame, Game!Next, Game!Start
<1>6. CASE RoundEnds
  <2>1. Game!End
    <3>1. room \in Record /\ room' = [room EXCEPT !.status = "ROUND_ENDED"] /\ member' = member
      BY <1>6 DEF RoundEnds, Becomes, TypeOK, Record
    <3>2. /\ room'.status = "ROUND_ENDED" /\ room'.round = room.round
          /\ room'.mine = room.mine /\ room'.others = room.others /\ room'.lost = room.lost
      BY <3>1 DEF Record
    <3>3. QED
      BY <1>6, <3>1, <3>2 DEF RoundEnds, Game!End
  <2>2. QED
    BY <2>1 DEF Game!Next
<1>7. CASE NextRound
  <2>1. CASE room.round < Last /\ ~room.lost /\ Load(room.round + 1)
    <3>1. room.round + 1 \in RoundIds
      BY <2>1, LastAssumption DEF TypeOK, RoundIds, NoRound
    <3>2. QED
      BY <1>7, <2>1, <3>1, LoadIsLoad DEF NextRound, Game!Next, Game!NextRound
  <2>2. CASE /\ room.round = Last \/ room.lost
             /\ Becomes([Loading(NoRound) EXCEPT !.status = "FINISHED"])
    <3>1. Game!Finish
      BY <1>7, <2>2 DEF NextRound, Becomes, Loading, NoRound, Game!Finish
    <3>2. QED
      BY <3>1 DEF Game!Next
  <2>3. QED
    BY <1>7, <2>1, <2>2 DEF NextRound
<1>8. CASE Updated
  BY <1>1, <1>8 DEF Updated, Becomes, server
<1>9. CASE Removed
  <2>1. /\ member /\ ~member' /\ room' = Recomputed(room, FALSE)
        /\ room \in Record
    BY <1>9 DEF Removed, TypeOK, Record
  <2>2. /\ room'.round = room.round /\ room'.mine = room.mine /\ room'.others = room.others
        /\ room'.lost = room.lost
        /\ room'.status = IF room.status = "LOADING" /\ room.others THEN "PLAYING" ELSE room.status
    BY <2>1 DEF Recomputed, Record
  <2> DEFINE R == IF room.others THEN {"others"} ELSE {}
             M == IF room.mine THEN {"me"} ELSE {}
  <2>3. /\ ({"others"} \cup {}) = ({"others"} \cup {"me"}) \ {"me"}
        /\ (R \cup {}) = (R \cup M) \ {"me"}
        /\ ({"others"} \cup {} \subseteq R \cup {}) <=> room.others
    OBVIOUS
  <2>4. /\ (IF member THEN {"me"} ELSE {}) = {"me"} /\ (IF member' THEN {"me"} ELSE {}) = {}
        /\ (IF member /\ room.mine THEN {"me"} ELSE {}) = M
        /\ (IF member' /\ room'.mine THEN {"me"} ELSE {}) = {}
        /\ (IF room'.others THEN {"others"} ELSE {}) = R
    BY <2>1, <2>2
  <2>5. "me" \in {"others"} \cup {"me"} /\ {"others"} \cup {"me"} # {"me"}
    OBVIOUS
  <2> HIDE DEF R, M
  <2>6. Game!Leave("me")
    BY <2>2, <2>3, <2>4, <2>5 DEF Game!Leave, Game!Begun
  <2>7. QED
    BY <2>6 DEF Game!Next
<1>10. CASE OrderExpires
  <2>1. room \in Record /\ room' = [room EXCEPT !.lost = TRUE] /\ member' = member
    BY <1>10 DEF OrderExpires, TypeOK, Record
  <2>2. /\ room'.status = room.status /\ room'.round = room.round /\ room'.mine = room.mine
        /\ room'.others = room.others /\ room'.lost
    BY <2>1 DEF Record
  <2>3. Game!LoseSongs
    BY <1>10, <2>1, <2>2 DEF OrderExpires, Game!LoseSongs
  <2>4. QED
    BY <2>3 DEF Game!Next
<1>11. QED
  BY <1>2, <1>3, <1>4, <1>5, <1>6, <1>7, <1>8, <1>9, <1>10 DEF Next, Room

(* What the page is checked against is a room that keeps the promise of    *)
(* GameRounds, as the game server's does (recomputeReadyStatus,            *)
(* removeParticipant, advanceToNextRound).                                 *)
THEOREM PlaysTheRounds == Spec => RoundsSpec
<1>1. Init => Game!Init
  BY DEF Init, NoRound, Game!Init
<1>2. Init => EntersAsMember
  BY DEF Init, EntersAsMember
<1>3. TypeOK /\ EntersAsMember /\ [Next]_vars => [Game!Next]_(Game!gvars)
  BY GameStep
<1>4. QED
  BY <1>1, <1>2, <1>3, EntersStep, TypeCorrect, PTL DEF Spec, RoundsSpec, Game!Spec

-----------------------------------------------------------------------------
(* Loading never comes to a standstill: the part of LoadingEnds that does  *)
(* not depend on fairness.                                                 *)

(* A socket that is up has asked to enter, unless nobody would let it in. *)
Asks == link = "up" /\ member => \E i \in 1 .. Len(outbox) : outbox[i] = "enter"

(* A round for which the others are ready waits for this page. *)
AwaitsMe == room.status = "LOADING" /\ room.others => member /\ ~room.mine

(* What is asked stays asked until it arrives. *)
LEMMA AskStays ==
  ASSUME TypeOK, NEW e \in {"ready", "enter"},
         \E i \in 1 .. Len(outbox) : outbox[i] = "enter",
         \/ outbox' = Append(outbox, e)
         \/ outbox # <<>> /\ Head(outbox) = "ready" /\ outbox' = Tail(outbox)
  PROVE  \E i \in 1 .. Len(outbox') : outbox'[i] = "enter"
<1>1. PICK i \in 1 .. Len(outbox) : outbox[i] = "enter"
  OBVIOUS
<1>2. CASE outbox' = Append(outbox, e)
  <2>1. i \in 1 .. Len(outbox') /\ outbox'[i] = "enter"
    BY <1>1, <1>2 DEF TypeOK
  <2>2. QED
    BY <2>1
<1>3. CASE outbox # <<>> /\ Head(outbox) = "ready" /\ outbox' = Tail(outbox)
  <2>1. i # 1
    BY <1>1, <1>3 DEF TypeOK
  <2>2. i - 1 \in 1 .. Len(outbox') /\ outbox'[i - 1] = "enter"
    BY <1>1, <1>3, <2>1 DEF TypeOK
  <2>3. QED
    BY <2>2
<1>4. QED
  BY <1>2, <1>3

(* No step takes back what was asked. *)
LEMMA AsksStep == TypeOK /\ Asks /\ [Next]_vars => Asks'
<1> SUFFICES ASSUME TypeOK, Asks, [Next]_vars PROVE Asks'
  OBVIOUS
<1> USE DEF Asks
<1>1. ASSUME UNCHANGED <<link, outbox>>, member' => member PROVE Asks'
  BY <1>1
<1>2. CASE Page
  <2>1. CASE Report /\ UNCHANGED member
    BY <2>1, AskStays DEF Report, Emit
  <2>2. QED
    BY <1>1, <1>2, <2>1
    DEF Page, Fallback, PlayerPlays, PlayerReady, Start, WarmEnds, server, socket
<1>3. CASE Connect
  <2>1. outbox' = Append(outbox, "enter")
    BY <1>3 DEF Connect, Emit
  <2>2. Len(outbox') \in 1 .. Len(outbox') /\ outbox'[Len(outbox')] = "enter"
    BY <2>1 DEF TypeOK
  <2>3. QED
    BY <2>2
<1>4. CASE Drop \/ Reload \/ EnterJoin
  BY <1>4 DEF Drop, Reload, EnterJoin
<1>5. CASE EnterRead
  BY <1>5 DEF EnterRead, server
<1>6. CASE ReadyArrives
  <2>1. /\ outbox # <<>> /\ Head(outbox) = "ready" /\ outbox' = Tail(outbox)
        /\ UNCHANGED <<member, link>>
    BY <1>6 DEF ReadyArrives, Becomes, server
  <2>2. QED
    BY <2>1, AskStays
<1>7. CASE OthersReady \/ StartGame \/ RoundEnds \/ NextRound \/ Updated
  BY <1>1, <1>7 DEF OthersReady, StartGame, RoundEnds, NextRound, Updated, Load, Becomes
<1>8. CASE OrderExpires \/ Removed \/ UNCHANGED vars
  BY <1>1, <1>8 DEF OrderExpires, Removed, vars, server, socket
<1>9. QED
  BY <1>2, <1>3, <1>4, <1>5, <1>6, <1>7, <1>8 DEF Next, Socket, Room

(* Every step that makes somebody ready looks whether that was the last.   *)
LEMMA AwaitsStep == TypeOK /\ AwaitsMe /\ [Next]_vars => AwaitsMe'
<1> SUFFICES ASSUME TypeOK, AwaitsMe, [Next]_vars PROVE AwaitsMe'
  OBVIOUS
<1> USE DEF AwaitsMe
<1>1. ASSUME UNCHANGED server PROVE AwaitsMe'
  BY <1>1 DEF server
<1>2. ASSUME NEW r \in Record, room' = Recomputed(r, member') PROVE AwaitsMe'
  BY <1>2 DEF Recomputed, Record
<1>3. ASSUME NEW n, room' = Loading(n) PROVE AwaitsMe'
  BY <1>3 DEF Loading
<1>4. room \in Record
  BY DEF TypeOK, Record
<1>5. CASE Page \/ Socket \/ Updated \/ UNCHANGED vars
  BY <1>1, <1>5 DEF Page, Fallback, PlayerPlays, PlayerReady, Start, WarmEnds,
                    Socket, Connect, Drop, Reload, EnterRead, EnterJoin,
                    Updated, Becomes, server, vars
<1>6. CASE ReadyArrives
  <2>1. [room EXCEPT !.mine = TRUE] \in Record
    BY <1>4 DEF Record
  <2>2. QED
    BY <1>1, <1>2, <1>6, <2>1 DEF ReadyArrives, Becomes
<1>7. CASE OthersReady
  <2>1. [room EXCEPT !.others = TRUE] \in Record
    BY <1>4 DEF Record
  <2>2. QED
    BY <1>2, <1>7, <2>1 DEF OthersReady, Becomes
<1>8. CASE Removed
  BY <1>2, <1>4, <1>8 DEF Removed
<1>9. CASE StartGame
  BY <1>3, <1>9 DEF StartGame, Load, Becomes
<1>10. CASE RoundEnds
  <2>1. room'.status = "ROUND_ENDED"
    BY <1>4, <1>10 DEF RoundEnds, Becomes, Record
  <2>2. QED
    BY <2>1
<1>11. CASE NextRound
  <2>1. CASE room'.status = "FINISHED"
    BY <2>1
  <2>2. QED
    BY <1>3, <1>11, <2>1 DEF NextRound, Load, Becomes, Loading
<1>12. CASE OrderExpires
  BY <1>4, <1>12 DEF OrderExpires, Record
<1>13. QED
  BY <1>5, <1>6, <1>7, <1>8, <1>9, <1>10, <1>11, <1>12 DEF Next, Room

(* While a round loads some fair step can be taken: the others' report,    *)
(* connecting and entering, the arrival of what was sent, or the fallback  *)
(* that sends this page's report.                                          *)
Stirring ==
  \/ ~room.others
  \/ link \in {"down", "entering"}
  \/ outbox # <<>> /\ Head(outbox) \in {"ready", "enter"}
  \/ view.status = "LOADING" /\ refs.reported # view.round

(* Nobody waits for anybody who has nothing left to do: a round loads only *)
(* while somebody, or something sent, is still to come (READY_FALLBACK in  *)
(* GamePlayer, game:ready, room:enter), but for the recorded gaps.         *)
THEOREM LoadingStirs ==
  Spec => [](room.status = "LOADING" /\ gaps = {} /\ ~Behind => Stirring)
<1>1. Init => Asks /\ AwaitsMe
  BY DEF Init, Asks, AwaitsMe
<1>2. ASSUME TypeOK, ReportCounts, Asks, AwaitsMe,
             room.status = "LOADING", gaps = {}, ~Behind, ~Stirring
      PROVE  FALSE
  <2>1. outbox = <<>>
    BY <1>2 DEF TypeOK, Stirring
  <2>2. link = "in" /\ member /\ ~room.mine
    BY <1>2, <2>1 DEF TypeOK, Links, Stirring, AwaitsMe, Asks
  <2>3. refs.reported = room.round
    BY <1>2, <2>2 DEF Behind, Seen, Stirring
  <2>4. QED
    BY <1>2, <2>1, <2>2, <2>3 DEF ReportCounts, Sent
<1>3. TypeOK /\ ReportCounts /\ Asks /\ AwaitsMe
        => (room.status = "LOADING" /\ gaps = {} /\ ~Behind => Stirring)
  BY <1>2
<1>4. QED
  BY <1>1, <1>3, AsksStep, AwaitsStep, TypeCorrect, ReportsCount, PTL DEF Spec
=============================================================================
