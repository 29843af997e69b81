-------------------------- MODULE RoomIndexProofs --------------------------
(***************************************************************************)
(* RoomIndex for all sets of rooms and requests: type correctness, that    *)
(* the rooms one can join are on the list, and that the list behaves as    *)
(* the directory; the last two where no record expires while a request is  *)
(* about to save it.                                                       *)
(*                                                                         *)
(* The inductive invariant: Shape says which requests are in which stage.  *)
(* Creation: a room has one creation, and is on no list before its end.    *)
(* Current: whoever may still write the index has read it as it is.        *)
(* Fenced and Removing: whoever may still save a record saves a room that  *)
(* lives, so whoever takes an entry away takes that of a room that is gone *)
(* for good; or of a Doomed one, whose creation failed: createRoom undoes  *)
(* its record without a lock, and a request may bring it back.             *)
(***************************************************************************)
EXTENDS RoomIndex, TLAPS

Listing == {"list", "listed", "relist"}
Later == {"update", "delete", "reconcile"}

Shape ==
  \A w \in Workers :
    /\ pc[w] = "idle" => op[w] = "none"
    /\ pc[w] # "idle" => room[w] \in Rooms
    /\ pc[w] \in {"save", "rollback"} => op[w] = "create"
    /\ pc[w] \in {"lock", "look", "write"} => op[w] \in Later
    /\ pc[w] \in Listing => op[w] \in {"create", "delete", "reconcile"}

Creates(w, r) == op[w] = "create" /\ room[w] = r

Creation ==
  \A w \in Workers : op[w] = "create" =>
    /\ room[w] \notin created
    /\ \A v \in Workers : Creates(v, room[w]) => v = w
    /\ pc[w] = "save" <=> record[room[w]] = "unborn"
    /\ pc[w] # "rollback" => room[w] \notin index
    /\ pc[w] = "relist" => room[w] \notin base[w]

Known ==
  /\ \A r \in index \cup created : record[r] # "unborn"
  /\ \A w \in Workers : op[w] \in Later => record[room[w]] # "unborn"

Current == \A w \in Workers : pc[w] = "relist" /\ last[Index] = w => base[w] = index

Doomed(r) ==
  r \notin created /\ \A w \in Workers : Creates(w, r) => pc[w] = "rollback"

Fenced ==
  \A w \in Workers, r \in Rooms : pc[w] = "write" /\ room[w] = r /\ last[r] = w =>
    record[r] = "live" \/ Doomed(r)

Removing ==
  \A w \in Workers, r \in Rooms : pc[w] \in Listing /\ op[w] # "create" /\ room[w] = r =>
    record[r] = "gone" \/ Doomed(r)

Base == TypeOK /\ Shape /\ Creation /\ Known /\ Current
IInv == Base /\ Fenced /\ Removing /\ OpenRoomsListed

-----------------------------------------------------------------------------
(* What a step leaves alone. *)

Apart(w) ==
  /\ \A v \in Workers \ {w} : UNCHANGED <<pc[v], op[v], room[v], base[v]>>
  /\ \A r \in Rooms \ {room[w]} : record'[r] = record[r]
  /\ created \subseteq created' /\ created' \subseteq created \cup {room[w]}
  /\ \A k \in Locks : last'[k] \in {last[k], w}

Acts(w) == GoesOn(w) \/ Dies(w)

(* Who is idle is no request. *)
LEMMA IdleFacts ==
  ASSUME TypeOK, NEW w \in Workers, Idle(w)
  PROVE  /\ pc' \in [Workers -> Stages] /\ pc'[w] = "idle"
         /\ op' \in [Workers -> Ops] /\ op'[w] = "none"
         /\ room' \in [Workers -> Rooms \cup {None}]
         /\ base' \in [Workers -> SUBSET Rooms]
         /\ \A v \in Workers \ {w} : UNCHANGED <<pc[v], op[v], room[v], base[v]>>
  BY DEF TypeOK, Idle, Goto, Stages, Ops

(* Who goes on is in the stage it goes to. *)
LEMMA GotoFacts ==
  ASSUME TypeOK, NEW w \in Workers, NEW stage \in Stages, Goto(w, stage)
  PROVE  /\ pc' \in [Workers -> Stages] /\ pc'[w] = stage
         /\ \A v \in Workers \ {w} : pc'[v] = pc[v]
  BY DEF TypeOK, Goto

(* Who acquires a lock is the last one to have acquired it. *)
LEMMA AcquireFacts ==
  ASSUME TypeOK, NEW w \in Workers, NEW k \in Locks, NEW stage \in Stages, Acquire(w, k, stage)
  PROVE  /\ pc' \in [Workers -> Stages] /\ pc'[w] = stage
         /\ \A v \in Workers \ {w} : pc'[v] = pc[v]
         /\ last' \in [Locks -> Workers \cup {None}] /\ last'[k] = w
         /\ \A l \in Locks \ {k} : last'[l] = last[l]
         /\ held' \subseteq Locks
         /\ UNCHANGED <<keys, request, base>>
  BY GotoFacts DEF TypeOK, Acquire

(* A new request is in its first stage. *)
LEMMA RequestFacts ==
  ASSUME TypeOK, NEW w \in Workers, NEW o \in Ops, NEW r \in Rooms, NEW stage \in Stages,
         Request(w, o, r, stage)
  PROVE  /\ pc' \in [Workers -> Stages] /\ pc'[w] = stage
         /\ op' \in [Workers -> Ops] /\ op'[w] = o
         /\ room' \in [Workers -> Rooms \cup {None}] /\ room'[w] = r
         /\ \A v \in Workers \ {w} : UNCHANGED <<pc[v], op[v], room[v]>>
         /\ UNCHANGED <<keys, held, last, base>>
         /\ pc[w] = "idle"
  BY GotoFacts DEF TypeOK, Request

(* Locks are only freed. *)
LEMMA ReleaseType ==
  ASSUME TypeOK, NEW w \in Workers, NEW ks, Release(w, ks) PROVE held' \subseteq Locks
  BY DEF TypeOK, Release, Freed

-----------------------------------------------------------------------------
(* Type correctness. *)

(* A failed index update ends the request, or lets it undo the record. *)
LEMMA IndexFailsFacts ==
  ASSUME TypeOK, NEW w \in Workers, IndexFails(w)
  PROVE  /\ pc' \in [Workers -> Stages] /\ op' \in [Workers -> Ops]
         /\ room' \in [Workers -> Rooms \cup {None}] /\ base' \in [Workers -> SUBSET Rooms]
         /\ held' \subseteq Locks
         /\ \A v \in Workers \ {w} : UNCHANGED <<pc[v], op[v], room[v], base[v]>>
         /\ \/ op[w] = "create" /\ pc'[w] = "rollback" /\ UNCHANGED <<request, base>>
            \/ op[w] # "create" /\ pc'[w] = "idle" /\ op'[w] = "none"
<1>1. CASE op[w] = "create" /\ Goto(w, "rollback") /\ UNCHANGED <<request, base>> /\ Release(w, {Index})
  BY <1>1, GotoFacts, ReleaseType DEF TypeOK, request, Stages
<1>2. CASE op[w] # "create" /\ Idle(w) /\ Release(w, {Index, room[w]})
  BY <1>2, IdleFacts, ReleaseType
<1>3. QED
  BY <1>1, <1>2 DEF IndexFails

(* A creation that is done is reported. *)
LEMMA IndexDoneFacts ==
  ASSUME TypeOK, NEW w \in Workers, IndexDone(w)
  PROVE  /\ Idle(w) /\ held' \subseteq Locks
         /\ created' = IF op[w] = "create" THEN created \cup {room[w]} ELSE created
  BY ReleaseType DEF IndexDone

(* Every step keeps every variable in its type. *)
LEMMA TypeStep == TypeOK /\ Shape /\ [Next]_vars => TypeOK'
<1> SUFFICES ASSUME TypeOK, Shape, [Next]_vars PROVE TypeOK'
  OBVIOUS
<1> USE DEF Stages, Ops, keys, request
<1>1. CASE UNCHANGED vars
  BY <1>1 DEF vars, TypeOK
<1>2. ASSUME NEW w \in Workers, NEW r \in Rooms, Arrives(w, r) PROVE TypeOK'
  BY <1>2, RequestFacts DEF Arrives, CreateRoom, UpdateRoom, DeleteRoom, Reconcile, TypeOK
<1>3. ASSUME NEW w \in Workers, SaveNew(w) \/ Rollback(w) PROVE TypeOK'
  <2>1. record' \in [Rooms -> {"unborn", "live", "gone"}]
    BY <1>3 DEF SaveNew, Rollback, TypeOK
  <2>2. QED
    BY <1>3, <2>1, IdleFacts, GotoFacts DEF SaveNew, Rollback, TypeOK
<1>4. ASSUME NEW w \in Workers, LockRoom(w) \/ LockIndex(w) PROVE TypeOK'
  <2>1. room[w] \in Locks /\ Index \in Locks
    BY <1>4 DEF LockRoom, LockIndex, Shape, Locks
  <2>2. QED
    BY <1>4, <2>1, AcquireFacts DEF LockRoom, LockIndex, TypeOK
<1>5. ASSUME NEW w \in Workers, RoomUnavailable(w) \/ Dies(w) PROVE TypeOK'
  BY <1>5, IdleFacts DEF RoomUnavailable, Dies, TypeOK
<1>6. ASSUME NEW w \in Workers, Look(w) PROVE TypeOK'
  BY <1>6, IdleFacts, GotoFacts, ReleaseType DEF Look, Leave, TypeOK
<1>7. ASSUME NEW w \in Workers, Write(w) PROVE TypeOK'
  <2>1. record' \in [Rooms -> {"unborn", "live", "gone"}]
    BY <1>7 DEF Write, TypeOK
  <2>2. /\ pc' \in [Workers -> Stages] /\ op' \in [Workers -> Ops]
        /\ room' \in [Workers -> Rooms \cup {None}] /\ base' \in [Workers -> SUBSET Rooms]
        /\ held' \subseteq Locks
    BY <1>7, IdleFacts, GotoFacts, ReleaseType DEF Write, Leave, TypeOK
  <2>3. QED
    BY <1>7, <2>1, <2>2 DEF Write, TypeOK
<1>8. ASSUME NEW w \in Workers, IndexUnavailable(w) PROVE TypeOK'
  BY <1>8, IndexFailsFacts DEF IndexUnavailable, TypeOK
<1>9. ASSUME NEW w \in Workers, ReadIndex(w) PROVE TypeOK'
  BY <1>9, GotoFacts DEF ReadIndex, TypeOK
<1>10. ASSUME NEW w \in Workers, WriteIndex(w) PROVE TypeOK'
  <2>1. room[w] \in Rooms /\ Wanted(w) \subseteq Rooms
    BY <1>10 DEF WriteIndex, Shape, Wanted, TypeOK
  <2>2. index' \subseteq Rooms
    BY <1>10, <2>1 DEF WriteIndex, TypeOK
  <2>3. CASE IndexDone(w)
    BY <1>10, <2>1, <2>2, <2>3, IndexDoneFacts, IdleFacts DEF WriteIndex, TypeOK
  <2>4. CASE IndexFails(w) /\ UNCHANGED created
    BY <1>10, <2>2, <2>4, IndexFailsFacts DEF WriteIndex, TypeOK
  <2>5. QED
    BY <1>10, <2>3, <2>4 DEF WriteIndex
<1>11. ASSUME NEW k \in Locks, Lapse(k) PROVE TypeOK'
  BY <1>11 DEF Lapse, TypeOK
<1>12. ASSUME NEW r \in Rooms, Expire(r) PROVE TypeOK'
  BY <1>12 DEF Expire, TypeOK
<1>13. QED
  BY <1>1, <1>2, <1>3, <1>4, <1>5, <1>6, <1>7, <1>8, <1>9, <1>10, <1>11, <1>12 DEF Next, GoesOn

-----------------------------------------------------------------------------
(* Requests. *)

(* What any step of a request leaves alone. *)
LEMMA ActsApart ==
  ASSUME TypeOK, Shape, NEW w \in Workers, Acts(w)
  PROVE  Apart(w)
<1> USE DEF Stages, Ops, keys, request
<1>1. CASE SaveNew(w) \/ Rollback(w)
  BY <1>1, IdleFacts, GotoFacts DEF SaveNew, Rollback, Apart, TypeOK
<1>2. CASE LockRoom(w) \/ LockIndex(w)
  <2>1. room[w] \in Locks \/ LockIndex(w)
    BY <1>2 DEF LockRoom, Shape, Locks
  <2>2. QED
    BY <1>2, <2>1, AcquireFacts DEF LockRoom, LockIndex, Apart, Locks
<1>3. CASE RoomUnavailable(w) \/ Dies(w)
  BY <1>3, IdleFacts DEF RoomUnavailable, Dies, Apart
<1>4. CASE Look(w)
  BY <1>4, IdleFacts, GotoFacts DEF Look, Leave, Apart
<1>5. CASE Write(w)
  <2>1. \A r \in Rooms \ {room[w]} : record'[r] = record[r]
    BY <1>5 DEF Write, TypeOK
  <2>2. \A v \in Workers \ {w} : UNCHANGED <<pc[v], op[v], room[v], base[v]>>
    BY <1>5, IdleFacts, GotoFacts DEF Write, Leave
  <2>3. QED
    BY <1>5, <2>1, <2>2 DEF Write, Apart
<1>6. CASE IndexUnavailable(w)
  BY <1>6, IndexFailsFacts DEF IndexUnavailable, Apart
<1>7. CASE ReadIndex(w)
  BY <1>7, GotoFacts DEF ReadIndex, Apart, TypeOK
<1>8. CASE WriteIndex(w)
  BY <1>8, IndexFailsFacts, IndexDoneFacts, IdleFacts DEF WriteIndex, Apart
<1>9. QED
  BY <1>1, <1>2, <1>3, <1>4, <1>5, <1>6, <1>7, <1>8 DEF Acts, GoesOn

(* What a request does to its stage. *)
LEMMA StageStep ==
  ASSUME TypeOK, Shape, NEW w \in Workers, Acts(w)
  PROVE  \/ pc'[w] = "idle" /\ op'[w] = "none"
         \/ /\ UNCHANGED <<op[w], room[w]>>
            /\ \/ pc[w] = "save" /\ pc'[w] = "list" /\ record'[room[w]] = "live"
               \/ pc[w] = "lock" /\ pc'[w] = "look"
               \/ pc[w] = "look" /\ pc'[w] = "write" /\ record[room[w]] = "live"
               \/ pc[w] = "look" /\ pc'[w] = "list" /\ op[w] = "reconcile" /\ record[room[w]] # "live"
               \/ pc[w] = "write" /\ pc'[w] = "list" /\ op[w] = "delete"
               \/ pc[w] = "list" /\ pc'[w] = "listed"
               \/ pc[w] = "listed" /\ pc'[w] = "relist" /\ base'[w] = index /\ index' = index
               \/ pc[w] \in Listing /\ pc'[w] = "rollback" /\ op[w] = "create"
<1> USE DEF Stages, Ops, keys, request, Listing
<1>1. CASE SaveNew(w) \/ Rollback(w)
  BY <1>1, IdleFacts, GotoFacts DEF SaveNew, Rollback, Shape, TypeOK
<1>2. CASE LockRoom(w) \/ LockIndex(w)
  <2>1. room[w] \in Locks \/ LockIndex(w)
    BY <1>2 DEF LockRoom, Shape, Locks
  <2>2. QED
    BY <1>2, <2>1, AcquireFacts DEF LockRoom, LockIndex, Locks
<1>3. CASE RoomUnavailable(w) \/ Dies(w)
  BY <1>3, IdleFacts DEF RoomUnavailable, Dies
<1>4. CASE Look(w)
  BY <1>4, IdleFacts, GotoFacts DEF Look, Leave, Absent
<1>5. CASE Write(w)
  BY <1>5, IdleFacts, GotoFacts DEF Write, Leave
<1>6. CASE IndexUnavailable(w)
  BY <1>6, IndexFailsFacts DEF IndexUnavailable
<1>7. CASE ReadIndex(w)
  BY <1>7, GotoFacts DEF ReadIndex, TypeOK
<1>8. CASE WriteIndex(w)
  BY <1>8, IndexFailsFacts, IndexDoneFacts, IdleFacts DEF WriteIndex
<1>9. QED
  BY <1>1, <1>2, <1>3, <1>4, <1>5, <1>6, <1>7, <1>8 DEF Acts, GoesOn

(* What a request does to the record, the list and the reported rooms. *)
LEMMA KeyStep ==
  ASSUME TypeOK, Shape, Creation, Current, NEW w \in Workers, Acts(w)
  PROVE  LET r == room[w] IN
         \/ UNCHANGED keys
         \/ /\ pc[w] = "save" /\ record'[r] = "live" /\ UNCHANGED <<index, created>>
         \/ /\ pc[w] = "rollback" /\ record'[r] = "gone" /\ pc'[w] = "idle"
            /\ UNCHANGED <<index, created>>
         \/ /\ pc[w] = "write" /\ last[r] = w /\ UNCHANGED <<index, created>>
            /\ record'[r] = IF op[w] = "delete" THEN "gone" ELSE "live"
         \/ /\ pc[w] = "relist" /\ op[w] = "create" /\ UNCHANGED record
            /\ index' = index \cup {r}
            /\ \/ created' = created \cup {r} /\ pc'[w] = "idle"
               \/ created' = created /\ pc'[w] = "rollback" /\ UNCHANGED <<op[w], room[w]>>
         \/ /\ pc[w] = "relist" /\ op[w] # "create" /\ UNCHANGED <<record, created>>
            /\ index' = index \ {r}
<1> USE DEF Stages, Ops, keys, request
<1>1. CASE SaveNew(w)
  BY <1>1 DEF SaveNew, TypeOK, Shape
<1>2. CASE Rollback(w)
  BY <1>2, IdleFacts DEF Rollback, TypeOK, Shape
<1>3. CASE Write(w)
  BY <1>3 DEF Write, TypeOK, Shape, Accepted
<1>4. CASE WriteIndex(w)
  <2>1. pc[w] = "relist" /\ record' = record
    BY <1>4 DEF WriteIndex
  <2>2. CASE op[w] = "create"
    <3>1. room[w] \notin index /\ room[w] \notin base[w]
      BY <2>1, <2>2 DEF Creation
    <3>2. last[Index] = w => base[w] = index
      BY <2>1 DEF Current
    <3>3. CASE /\ Wanted(w) = base[w] \/ Accepted(w, Index)
               /\ index' = IF Wanted(w) = base[w] THEN index ELSE Wanted(w)
               /\ IndexDone(w)
      BY <2>1, <2>2, <3>1, <3>2, <3>3, IndexDoneFacts, IdleFacts DEF Wanted, Accepted
    <3>4. CASE /\ index' \in {index, IF Accepted(w, Index) THEN Wanted(w) ELSE index}
               /\ IndexFails(w)
               /\ UNCHANGED created
      BY <2>1, <2>2, <3>1, <3>2, <3>4, IndexFailsFacts DEF Wanted, Accepted
    <3>5. QED
      BY <1>4, <3>3, <3>4 DEF WriteIndex
  <2>3. CASE op[w] # "create"
    <3>1. created' = created
      BY <1>4, <2>3, IndexDoneFacts DEF WriteIndex
    <3>2. index' \in {index, index \ {room[w]}}
      BY <1>4, <2>1, <2>3 DEF WriteIndex, Wanted, Accepted, Current
    <3>3. QED
      BY <2>1, <2>3, <3>1, <3>2
  <2>4. QED
    BY <2>2, <2>3
<1>5. CASE LockRoom(w) \/ LockIndex(w)
  BY <1>5 DEF LockRoom, LockIndex, Acquire
<1>6. CASE RoomUnavailable(w) \/ Dies(w) \/ Look(w) \/ IndexUnavailable(w) \/ ReadIndex(w)
  BY <1>6 DEF RoomUnavailable, Dies, Look, IndexUnavailable, ReadIndex
<1>7. QED
  BY <1>1, <1>2, <1>3, <1>4, <1>5, <1>6 DEF Acts, GoesOn

(* A step of a request leaves every request and creation in shape. *)
LEMMA ShapeStep == TypeOK /\ Shape /\ [Next]_vars => Shape'
<1> SUFFICES ASSUME TypeOK, Shape, [Next]_vars PROVE Shape'
  OBVIOUS
<1>1. CASE UNCHANGED vars
  BY <1>1 DEF vars, Shape, request
<1>2. ASSUME NEW w \in Workers, NEW r \in Rooms, Arrives(w, r) PROVE Shape'
  BY <1>2, RequestFacts
     DEF Arrives, CreateRoom, UpdateRoom, DeleteRoom, Reconcile, Shape, Ops, Stages, Later, Listing
<1>3. ASSUME NEW w \in Workers, Acts(w) PROVE Shape'
  BY <1>3, ActsApart, StageStep DEF Shape, Apart, Later, Listing
<1>4. ASSUME NEW k \in Locks, Lapse(k) PROVE Shape'
  BY <1>4 DEF Lapse, Shape, request
<1>5. ASSUME NEW r \in Rooms, Expire(r) PROVE Shape'
  BY <1>5 DEF Expire, Shape, request
<1>6. QED
  BY <1>1, <1>2, <1>3, <1>4, <1>5 DEF Next, Acts

(* A room has one creation, and a request only what was created. *)
LEMMA CreationStep == Base /\ [Next]_vars => Creation' /\ Known'
<1> SUFFICES ASSUME Base, [Next]_vars PROVE Creation' /\ Known'
  OBVIOUS
<1> USE DEF Base, keys, request
<1>1. CASE UNCHANGED vars
  BY <1>1 DEF vars, Creation, Creates, Known
<1>2. ASSUME NEW w \in Workers, NEW r \in Rooms, CreateRoom(w, r) PROVE Creation' /\ Known'
  <2>1. Request(w, "create", r, "save") /\ record[r] = "unborn" /\ \A v \in Workers : room[v] # r
    BY <1>2 DEF CreateRoom
  <2>2. /\ pc'[w] = "save" /\ op'[w] = "create" /\ room'[w] = r
        /\ \A v \in Workers \ {w} : UNCHANGED <<pc[v], op[v], room[v]>>
        /\ UNCHANGED <<keys, held, last, base>>
    BY <2>1, RequestFacts DEF Ops, Stages
  <2>3. r \notin index /\ r \notin created
    BY <2>1 DEF Known
  <2>4. Creation'
    BY <2>1, <2>2, <2>3 DEF Creation, Creates
  <2>5. Known'
    BY <2>2 DEF Known, Later
  <2>6. QED
    BY <2>4, <2>5
<1>3. ASSUME NEW w \in Workers, NEW r \in Rooms, UpdateRoom(w, r) \/ DeleteRoom(w, r) \/ Reconcile(w, r)
      PROVE  Creation' /\ Known'
  <2>1. /\ op'[w] \in Later /\ room'[w] = r /\ record[r] # "unborn"
        /\ \A v \in Workers \ {w} : UNCHANGED <<pc[v], op[v], room[v]>>
        /\ UNCHANGED <<keys, base>>
    BY <1>3, RequestFacts DEF UpdateRoom, DeleteRoom, Reconcile, Ops, Stages, Later, Known
  <2>2. Creation'
    BY <2>1 DEF Creation, Creates, Later
  <2>3. Known'
    BY <2>1 DEF Known
  <2>4. QED
    BY <2>2, <2>3
<1>4. ASSUME NEW w \in Workers, Acts(w) PROVE Creation' /\ Known'
  <2> DEFINE r == room[w]
  <2>1. Apart(w)
    BY <1>4, ActsApart
  <2>2. ASSUME NEW q \in Rooms, record[q] # "unborn" PROVE record'[q] # "unborn"
    <3>1. CASE q # r
      BY <2>1, <2>2, <3>1 DEF Apart
    <3>2. CASE q = r
      BY <1>4, <2>2, <3>2, KeyStep
    <3>3. QED
      BY <3>1, <3>2
  <2>3. Known'
    <3>1. \A q \in index' \cup created' : record'[q] # "unborn"
      <4>1. ASSUME NEW q \in index' \cup created', q \notin index \cup created
            PROVE  q = r /\ pc[w] = "relist" /\ op[w] = "create"
        BY <1>4, <4>1, KeyStep
      <4>2. pc[w] = "relist" /\ op[w] = "create" => record[r] # "unborn" /\ r \in Rooms
        BY DEF Creation, Shape
      <4>3. index \cup created \subseteq Rooms
        BY DEF TypeOK
      <4>4. QED
        BY <2>2, <4>1, <4>2, <4>3 DEF Known
    <3>2. ASSUME NEW v \in Workers, op'[v] \in Later PROVE record'[room'[v]] # "unborn"
      <4>1. op[v] \in Later /\ room'[v] = room[v] /\ room[v] \in Rooms
        BY <1>4, <2>1, <3>2, StageStep DEF Apart, Shape, Later
      <4>2. QED
        BY <2>2, <4>1 DEF Known
    <3>3. QED
      BY <3>1, <3>2 DEF Known
  <2>4. ASSUME NEW v \in Workers, v # w, op'[v] = "create"
        PROVE  /\ room'[v] \notin created'
               /\ \A u \in Workers : Creates(u, room[v])' => u = v
               /\ pc'[v] = "save" <=> record'[room'[v]] = "unborn"
               /\ pc'[v] # "rollback" => room'[v] \notin index'
               /\ pc'[v] = "relist" => room'[v] \notin base'[v]
    <3>1. UNCHANGED <<pc[v], op[v], room[v], base[v]>>
      BY <2>1, <2>4 DEF Apart
    <3>2. \A u \in Workers : Creates(u, room[v])' => Creates(u, room[v])
      <4>1. op'[w] = "none" \/ UNCHANGED <<op[w], room[w]>>
        BY <1>4, StageStep
      <4>2. QED
        BY <2>1, <3>1, <4>1 DEF Apart, Creates
    <3>3. op[w] = "create" => room[v] # r
      BY <2>4, <3>1 DEF Creation, Creates
    <3>4. op[w] # "create" => created' = created /\ index' \subseteq index
      BY <1>4, KeyStep DEF Shape
    <3>5. op[w] = "create" => created' \subseteq created \cup {r} /\ index' \subseteq index \cup {r}
      BY <1>4, KeyStep DEF Shape
    <3>6. record'[room[v]] = "unborn" <=> record[room[v]] = "unborn"
      <4>1. CASE op[w] = "create"
        BY <2>1, <3>1, <2>4, <3>3, <4>1 DEF Apart, Shape
      <4>2. CASE op[w] # "create"
        <5>1. room[v] = r => record[room[v]] # "unborn" \/ record' = record
          BY <1>4, <4>2, KeyStep DEF Known, Later, Shape
        <5>2. room[v] \in Rooms
          BY <2>4, <3>1 DEF Shape
        <5>3. QED
          BY <2>1, <2>2, <5>1, <5>2 DEF Apart
      <4>3. QED
        BY <4>1, <4>2
    <3>7. QED
      BY <2>4, <3>1, <3>2, <3>3, <3>4, <3>5, <3>6 DEF Creation
  <2>5. ASSUME op'[w] = "create"
        PROVE  /\ room'[w] \notin created'
               /\ \A u \in Workers : Creates(u, room[w])' => u = w
               /\ pc'[w] = "save" <=> record'[room'[w]] = "unborn"
               /\ pc'[w] # "rollback" => room'[w] \notin index'
               /\ pc'[w] = "relist" => room'[w] \notin base'[w]
    <3>1. op[w] = "create" /\ room'[w] = r /\ r \in Rooms /\ pc'[w] # "save" /\ pc'[w] # "idle"
      BY <1>4, <2>5, StageStep DEF Shape
    <3>2. \A u \in Workers : Creates(u, r)' => u = w
      BY <2>1, <3>1 DEF Creation, Creates, Apart
    <3>3. r \notin created'
      BY <1>4, <3>1, KeyStep DEF Creation
    <3>4. record'[r] # "unborn"
      <4>1. pc[w] = "save" => record'[r] = "live"
        BY <1>4, <2>5, StageStep DEF Listing
      <4>2. pc[w] # "save" => record[r] # "unborn"
        BY <3>1 DEF Creation
      <4>3. QED
        BY <2>2, <3>1, <4>1, <4>2
    <3>5. pc'[w] # "rollback" => r \notin index'
      BY <1>4, <3>1, StageStep, KeyStep DEF Creation, Shape
    <3>6. pc'[w] = "relist" => r \notin base'[w]
      <4>1. pc'[w] = "relist" => pc[w] = "listed" /\ base'[w] = index
        BY <1>4, <2>5, StageStep
      <4>2. QED
        BY <3>1, <4>1 DEF Creation
    <3>7. QED
      BY <3>1, <3>2, <3>3, <3>4, <3>5, <3>6
  <2>6. QED
    BY <2>3, <2>4, <2>5 DEF Creation
<1>5. ASSUME NEW k \in Locks, Lapse(k) PROVE Creation' /\ Known'
  BY <1>5 DEF Lapse, Creation, Creates, Known
<1>6. ASSUME NEW r \in Rooms, Expire(r) PROVE Creation' /\ Known'
  <2>1. \A q \in Rooms : record'[q] = "unborn" <=> record[q] = "unborn"
    BY <1>6 DEF Expire, TypeOK
  <2>2. \A w \in Workers : op[w] # "none" => room[w] \in Rooms
    BY DEF Shape
  <2>3. QED
    BY <1>6, <2>1, <2>2 DEF Expire, Creation, Creates, Known, Later, TypeOK
<1>7. QED
  BY <1>1, <1>2, <1>3, <1>4, <1>5, <1>6 DEF Next, Acts, Arrives

(* Whoever may still write the list has read it as it is. *)
LEMMA CurrentStep == Base /\ [Next]_vars => Current'
<1> SUFFICES ASSUME Base, [Next]_vars PROVE Current'
  OBVIOUS
<1> USE DEF Base, keys, request
<1>1. CASE UNCHANGED vars
  BY <1>1 DEF vars, Current
<1>2. ASSUME NEW w \in Workers, NEW r \in Rooms, Arrives(w, r) PROVE Current'
  BY <1>2, RequestFacts DEF Arrives, CreateRoom, UpdateRoom, DeleteRoom, Reconcile, Current, Ops, Stages
<1>3. ASSUME NEW w \in Workers, Acts(w) PROVE Current'
  <2>1. Apart(w)
    BY <1>3, ActsApart
  <2>2. ASSUME NEW v \in Workers, v # w, pc'[v] = "relist", last'[Index] = v
        PROVE  base'[v] = index'
    <3>1. pc[v] = "relist" /\ last[Index] = v /\ base'[v] = base[v]
      BY <2>1, <2>2 DEF Apart, Locks
    <3>2. index' = index
      BY <1>3, <2>2, <3>1 DEF Acts, GoesOn, SaveNew, Rollback, LockRoom, RoomUnavailable, Look, Write,
                              LockIndex, IndexUnavailable, ReadIndex, WriteIndex, Dies, Acquire, Accepted
    <3>3. QED
      BY <3>1, <3>2 DEF Current
  <2>3. ASSUME pc'[w] = "relist" PROVE base'[w] = index'
    BY <1>3, <2>3, StageStep
  <2>4. QED
    BY <2>2, <2>3 DEF Current
<1>4. ASSUME NEW k \in Locks, Lapse(k) PROVE Current'
  BY <1>4 DEF Lapse, Current
<1>5. ASSUME NEW r \in Rooms, Expire(r) PROVE Current'
  BY <1>5 DEF Expire, Current
<1>6. QED
  BY <1>1, <1>2, <1>3, <1>4, <1>5 DEF Next, Acts
-----------------------------------------------------------------------------
(* Records and the list. *)

(* What is doomed stays doomed. *)
LEMMA DoomedStays ==
  ASSUME Base, [Next]_vars, NEW r \in Rooms, record[r] # "unborn", Doomed(r)
  PROVE  Doomed(r)'
<1> USE DEF Base, keys, request
<1>1. CASE UNCHANGED vars
  BY <1>1 DEF vars, Doomed, Creates
<1>2. ASSUME NEW w \in Workers, NEW q \in Rooms, CreateRoom(w, q) PROVE Doomed(r)'
  <2>1. q # r /\ Request(w, "create", q, "save")
    BY <1>2 DEF CreateRoom
  <2>2. /\ room'[w] = q /\ UNCHANGED keys
        /\ \A v \in Workers \ {w} : UNCHANGED <<pc[v], op[v], room[v]>>
    BY <2>1, RequestFacts DEF Ops, Stages
  <2>3. QED
    BY <2>1, <2>2 DEF Doomed, Creates
<1>3. ASSUME NEW w \in Workers, NEW q \in Rooms, UpdateRoom(w, q) \/ DeleteRoom(w, q) \/ Reconcile(w, q)
      PROVE  Doomed(r)'
  <2>1. /\ op'[w] \in Later /\ UNCHANGED keys
        /\ \A v \in Workers \ {w} : UNCHANGED <<pc[v], op[v], room[v]>>
    BY <1>3, RequestFacts DEF UpdateRoom, DeleteRoom, Reconcile, Ops, Stages, Later
  <2>2. QED
    BY <2>1 DEF Doomed, Creates, Later
<1>4. ASSUME NEW w \in Workers, Acts(w) PROVE Doomed(r)'
  <2>1. Apart(w)
    BY <1>4, ActsApart
  <2>2. op'[w] = "none" \/ (UNCHANGED <<op[w], room[w]>> /\ pc[w] # "rollback")
    BY <1>4, StageStep DEF Listing
  <2>3. Creates(w, r)' => Creates(w, r) /\ pc[w] # "rollback"
    BY <2>2 DEF Creates
  <2>4. \A v \in Workers : Creates(v, r)' => Creates(v, r) /\ v # w
    BY <2>1, <2>3 DEF Doomed, Creates, Apart
  <2>5. r \notin created'
    BY <1>4, KeyStep DEF Doomed, Creates
  <2>6. QED
    BY <2>1, <2>4, <2>5 DEF Doomed, Apart
<1>5. ASSUME NEW k \in Locks, Lapse(k) PROVE Doomed(r)'
  BY <1>5 DEF Lapse, Doomed, Creates
<1>6. ASSUME NEW q \in Rooms, Expire(q) PROVE Doomed(r)'
  BY <1>6 DEF Expire, Doomed, Creates
<1>7. QED
  BY <1>1, <1>2, <1>3, <1>4, <1>5, <1>6 DEF Next, Acts, Arrives

(* A record that is being undone is doomed. *)
LEMMA UndoneDoomed ==
  ASSUME Base, NEW w \in Workers, pc[w] = "rollback"
  PROVE  Doomed(room[w]) /\ room[w] \in Rooms
  BY DEF Base, Shape, Creation, Doomed, Creates

(* A record of a room that is not doomed comes and goes by the rules: only *)
(* who has its lock writes it, and nobody undoes it.                       *)
LEMMA RecordStep ==
  ASSUME Base, NEW w \in Workers, Acts(w), NEW r \in Rooms, record[r] # "unborn", ~Doomed(r)
  PROVE  \/ record'[r] = record[r]
         \/ /\ room[w] = r /\ pc[w] = "write" /\ last[r] = w
            /\ record'[r] = IF op[w] = "delete" THEN "gone" ELSE "live"
<1> USE DEF Base
<1>1. CASE room[w] # r
  BY <1>1, ActsApart DEF Apart
<1>2. CASE room[w] = r
  <2>1. pc[w] # "rollback"
    BY <1>2, UndoneDoomed
  <2>2. pc[w] # "save"
    BY <1>2 DEF Creation, Shape
  <2>3. QED
    BY <1>2, <2>1, <2>2, KeyStep DEF keys
<1>3. QED
  BY <1>1, <1>2

(* Whoever may still save a room saves one that lives, or is doomed. *)
LEMMA FencedStep == ~ExpiresInUse /\ IInv /\ [Next]_vars => Fenced'
<1> SUFFICES ASSUME ~ExpiresInUse, IInv, [Next]_vars, NEW v \in Workers, NEW r \in Rooms,
                    pc'[v] = "write", room'[v] = r, last'[r] = v
             PROVE  record'[r] = "live" \/ Doomed(r)'
  BY DEF Fenced
<1> USE DEF IInv, Base, keys, request
<1>1. ASSUME pc[v] = "write", room[v] = r, last[r] = v, record' = record
      PROVE  record'[r] = "live" \/ Doomed(r)'
  <2>1. record[r] = "live" \/ Doomed(r)
    BY <1>1 DEF Fenced
  <2>2. record[r] # "unborn"
    BY <1>1 DEF Shape, Known
  <2>3. QED
    BY <1>1, <2>1, <2>2, DoomedStays
<1>2. CASE UNCHANGED vars
  BY <1>1, <1>2 DEF vars
<1>3. ASSUME NEW w \in Workers, NEW q \in Rooms, Arrives(w, q)
      PROVE  record'[r] = "live" \/ Doomed(r)'
  <2>1. /\ pc'[w] # "write" /\ UNCHANGED <<keys, last>>
        /\ \A u \in Workers \ {w} : UNCHANGED <<pc[u], room[u]>>
    BY <1>3, RequestFacts DEF Arrives, CreateRoom, UpdateRoom, DeleteRoom, Reconcile, Ops, Stages
  <2>2. QED
    BY <1>1, <2>1
<1>4. ASSUME NEW w \in Workers, Acts(w)
      PROVE  record'[r] = "live" \/ Doomed(r)'
  <2>1. Apart(w)
    BY <1>4, ActsApart
  <2>2. CASE v = w
    <3>1. pc[w] = "look" /\ room[w] = r /\ record[r] = "live"
      BY <1>4, <2>2, StageStep
    <3>2. record'[r] = record[r] \/ Doomed(r)
      BY <1>4, <3>1, RecordStep
    <3>3. QED
      BY <3>1, <3>2, DoomedStays
  <2>3. CASE v # w
    <3>1. pc[v] = "write" /\ room[v] = r /\ last[r] = v
      BY <2>1, <2>3 DEF Apart, Locks
    <3>2. record[r] # "unborn"
      BY <3>1 DEF Shape, Known
    <3>3. record[r] = "live" \/ Doomed(r)
      BY <3>1 DEF Fenced
    <3>4. record'[r] = record[r] \/ Doomed(r)
      BY <1>4, <2>3, <3>1, <3>2, RecordStep
    <3>5. QED
      BY <3>2, <3>3, <3>4, DoomedStays
  <2>4. QED
    BY <2>2, <2>3
<1>5. ASSUME NEW k \in Locks, Lapse(k) PROVE record'[r] = "live" \/ Doomed(r)'
  BY <1>1, <1>5 DEF Lapse
<1>6. ASSUME NEW q \in Rooms, Expire(q) PROVE record'[r] = "live" \/ Doomed(r)'
  <2>1. pc[v] = "write" /\ room[v] = r /\ last[r] = v
    BY <1>6 DEF Expire
  <2>2. q # r
    BY <1>6, <2>1 DEF Expire, InUse
  <2>3. record'[r] = record[r]
    BY <1>6, <2>2 DEF Expire, TypeOK
  <2>4. record[r] # "unborn" /\ (record[r] = "live" \/ Doomed(r))
    BY <2>1 DEF Shape, Known, Fenced
  <2>5. QED
    BY <2>3, <2>4, DoomedStays
<1>7. QED
  BY <1>2, <1>3, <1>4, <1>5, <1>6 DEF Next, Acts

(* Whoever takes an entry away takes that of a room gone for good, or of a *)
(* doomed one.                                                             *)
LEMMA RemovingStep == IInv /\ [Next]_vars => Removing'
<1> SUFFICES ASSUME IInv, [Next]_vars, NEW v \in Workers, NEW r \in Rooms,
                    pc'[v] \in Listing, op'[v] # "create", room'[v] = r
             PROVE  record'[r] = "gone" \/ Doomed(r)'
  BY DEF Removing
<1> USE DEF IInv, Base, keys, request
<1>1. ASSUME pc[v] \in Listing, op[v] # "create", room[v] = r,
             record'[r] = record[r] \/ record'[r] = "gone"
      PROVE  record'[r] = "gone" \/ Doomed(r)'
  <2>1. record[r] = "gone" \/ Doomed(r)
    BY <1>1 DEF Removing
  <2>2. record[r] # "unborn"
    BY <1>1 DEF Shape, Known, Later
  <2>3. QED
    BY <1>1, <2>1, <2>2, DoomedStays
<1>2. CASE UNCHANGED vars
  BY <1>1, <1>2 DEF vars
<1>3. ASSUME NEW w \in Workers, NEW q \in Rooms, Arrives(w, q)
      PROVE  record'[r] = "gone" \/ Doomed(r)'
  <2>1. /\ pc'[w] \notin Listing /\ UNCHANGED keys
        /\ \A u \in Workers \ {w} : UNCHANGED <<pc[u], op[u], room[u]>>
    BY <1>3, RequestFacts
       DEF Arrives, CreateRoom, UpdateRoom, DeleteRoom, Reconcile, Ops, Stages, Listing
  <2>2. QED
    BY <1>1, <2>1
<1>4. ASSUME NEW w \in Workers, Acts(w)
      PROVE  record'[r] = "gone" \/ Doomed(r)'
  <2>1. Apart(w)
    BY <1>4, ActsApart
  <2>2. CASE v = w
    <3>1. op[w] = op'[w] /\ op[w] \in Later /\ room[w] = r /\ record[r] # "unborn"
      BY <1>4, <2>2, StageStep DEF Listing, Shape, Known, Later
    <3>2. CASE pc[w] \in Listing
      <4>1. record'[r] = record[r] \/ Doomed(r)
        BY <1>4, <3>1, <3>2, RecordStep DEF Listing
      <4>2. record[r] = "gone" \/ Doomed(r)
        BY <3>1, <3>2 DEF Removing, Later
      <4>3. QED
        BY <3>1, <4>1, <4>2, DoomedStays
    <3>3. CASE pc[w] = "look"
      <4>1. record[r] = "gone"
        BY <1>4, <2>2, <3>1, <3>3, StageStep DEF TypeOK, Listing
      <4>2. record'[r] = record[r] \/ Doomed(r)
        BY <1>4, <3>1, <3>3, RecordStep
      <4>3. QED
        BY <3>1, <4>1, <4>2, DoomedStays
    <3>4. CASE pc[w] = "write"
      <4>1. Write(w) /\ op[w] = "delete"
        BY <1>4, <2>2, <3>4, StageStep, IdleFacts
           DEF Listing, Acts, GoesOn, SaveNew, Rollback, LockRoom, RoomUnavailable, Look,
               LockIndex, IndexUnavailable, ReadIndex, WriteIndex, Dies
      <4>2. record'[r] = "gone"
        BY <2>2, <3>1, <4>1, IdleFacts DEF Write, Leave, TypeOK, Listing
      <4>3. QED
        BY <4>2
    <3>5. QED
      BY <1>4, <2>2, <3>1, <3>2, <3>3, <3>4, StageStep DEF Listing, Later, Shape
  <2>3. CASE v # w
    <3>1. pc[v] \in Listing /\ op[v] # "create" /\ room[v] = r
      BY <2>1, <2>3 DEF Apart
    <3>2. record[r] # "unborn" /\ (record[r] = "gone" \/ Doomed(r))
      BY <3>1 DEF Shape, Known, Later, Removing
    <3>3. CASE Doomed(r)
      BY <3>2, <3>3, DoomedStays
    <3>4. CASE ~Doomed(r)
      <4>1. \/ record'[r] = record[r]
            \/ room[w] = r /\ pc[w] = "write" /\ last[r] = w
        BY <1>4, <3>2, <3>4, RecordStep
      <4>2. ~(room[w] = r /\ pc[w] = "write" /\ last[r] = w)
        BY <3>2, <3>4 DEF Fenced
      <4>3. QED
        BY <3>2, <3>4, <4>1, <4>2
    <3>5. QED
      BY <3>3, <3>4
  <2>4. QED
    BY <2>2, <2>3
<1>5. ASSUME NEW k \in Locks, Lapse(k) PROVE record'[r] = "gone" \/ Doomed(r)'
  BY <1>1, <1>5 DEF Lapse
<1>6. ASSUME NEW q \in Rooms, Expire(q) PROVE record'[r] = "gone" \/ Doomed(r)'
  BY <1>1, <1>6 DEF Expire, TypeOK
<1>7. QED
  BY <1>2, <1>3, <1>4, <1>5, <1>6 DEF Next, Acts

(* Each step is one of the directory, or none. *)
LEMMA DirectoryStep ==
  IInv /\ [Next]_vars => [Directory!Next]_<<Listed, index>> /\ OpenRoomsListed'
<1> SUFFICES ASSUME IInv, [Next]_vars
             PROVE  [Directory!Next]_<<Listed, index>> /\ OpenRoomsListed'
  OBVIOUS
<1> USE DEF IInv, Base, keys, request, Directory!Next
<1>1. ASSUME UNCHANGED keys PROVE UNCHANGED <<Listed, index>>
  BY <1>1 DEF Listed
<1>2. ASSUME UNCHANGED <<Listed, index>>
      PROVE  [Directory!Next]_<<Listed, index>> /\ OpenRoomsListed'
  BY <1>2 DEF OpenRoomsListed
<1>3. ASSUME NEW r \in Rooms, index' = index, Listed' \in {Listed, Listed \ {r}}
      PROVE  [Directory!Next]_<<Listed, index>> /\ OpenRoomsListed'
  <2>1. CASE Listed' = Listed
    BY <1>2, <1>3, <2>1
  <2>2. CASE Listed' = Listed \ {r}
    BY <1>3, <2>2 DEF OpenRoomsListed, Directory!Close
  <2>3. QED
    BY <1>3, <2>1, <2>2
<1>4. ASSUME NEW w \in Workers, Acts(w)
      PROVE  [Directory!Next]_<<Listed, index>> /\ OpenRoomsListed'
  <2> DEFINE r == room[w]
  <2>1. \A q \in Rooms \ {r} : record'[q] = record[q]
    BY <1>4, ActsApart DEF Apart
  <2>2. CASE UNCHANGED keys
    BY <1>1, <1>2, <2>2
  <2>3. CASE pc[w] \in {"save", "rollback", "write"} /\ UNCHANGED <<index, created>> /\ ~UNCHANGED keys
    <3>1. r \in Rooms
      BY <2>3 DEF Shape
    <3>2. Listed' = Listed \/ Listed' = Listed \ {r} \/ (r \in created /\ record'[r] = "live" /\ record[r] # "live")
      BY <2>1, <2>3, <3>1 DEF Listed, TypeOK
    <3>3. r \in created => ~(record'[r] = "live" /\ record[r] # "live")
      <4>1. ASSUME r \in created PROVE record[r] # "unborn" /\ ~Doomed(r)
        BY <4>1 DEF Known, Doomed
      <4>2. ASSUME r \in created, pc[w] = "write", last[r] = w PROVE record[r] = "live"
        BY <3>1, <4>1, <4>2 DEF Fenced
      <4>3. QED
        BY <1>4, <3>1, <4>1, <4>2, RecordStep
    <3>4. QED
      BY <1>3, <2>3, <3>1, <3>2, <3>3
  <2>4. CASE pc[w] = "relist" /\ op[w] = "create" /\ UNCHANGED record /\ index' = index \cup {r}
             /\ created' \in {created, created \cup {r}}
    <3>1. r \in Rooms
      BY <2>4 DEF Shape
    <3>2. CASE Listed' = Listed
      BY <2>4, <3>1, <3>2 DEF OpenRoomsListed, Directory!Enlist
    <3>3. CASE Listed' = Listed \cup {r}
      BY <2>4, <3>1, <3>3 DEF OpenRoomsListed, Directory!Open
    <3>4. QED
      BY <2>4, <3>2, <3>3 DEF Listed
  <2>5. CASE pc[w] = "relist" /\ op[w] # "create" /\ UNCHANGED <<record, created>> /\ index' = index \ {r}
    <3>1. r \in Rooms /\ (record[r] = "gone" \/ Doomed(r))
      BY <2>5 DEF Shape, Removing, Listing
    <3>2. r \notin Listed /\ Listed' = Listed
      BY <2>5, <3>1 DEF Listed, Doomed
    <3>3. QED
      BY <2>5, <3>1, <3>2 DEF OpenRoomsListed, Directory!Delist
  <2>6. QED
    BY <1>4, <2>2, <2>3, <2>4, <2>5, KeyStep
<1>5. ASSUME NEW r \in Rooms, Expire(r)
      PROVE  [Directory!Next]_<<Listed, index>> /\ OpenRoomsListed'
  <2>1. Listed' \in {Listed, Listed \ {r}} /\ index' = index
    BY <1>5 DEF Expire, Listed, TypeOK
  <2>2. QED
    BY <1>3, <2>1
<1>6. ASSUME NEW w \in Workers, NEW r \in Rooms, Arrives(w, r) PROVE UNCHANGED keys
  BY <1>6, RequestFacts DEF Arrives, CreateRoom, UpdateRoom, DeleteRoom, Reconcile, Ops, Stages
<1>7. ASSUME NEW k \in Locks, Lapse(k) PROVE UNCHANGED keys
  BY <1>7 DEF Lapse
<1>8. ASSUME UNCHANGED vars PROVE UNCHANGED keys
  BY <1>8 DEF vars
<1>9. QED
  BY <1>1, <1>2, <1>4, <1>5, <1>6, <1>7, <1>8 DEF Next, Acts

-----------------------------------------------------------------------------
(* The locks.                                                              *)

(* A step that acquires nothing, and writes the index only on behalf of a  *)
(* bearer of its lock, can only free a lock and end the section under it.  *)
LEMMA LockEnds ==
  ASSUME NEW k \in Locks, last'[k] = last[k], held' \subseteq held,
         Bearers(k)' \subseteq Bearers(k),
         k = Index /\ index' # index => Bearers(k) # {}
  PROVE  [Lock(k)!Next]_(Lock(k)!fvars)
<1> USE DEF Lock!Next, Lock!fvars
<1>1. (IF k \in held' THEN last'[k] ELSE None) \in {IF k \in held THEN last[k] ELSE None, None}
  OBVIOUS
<1>2. CASE Bearers(k) # {}
  <2>1. PICK w \in Workers : w \in Bearers(k)
    BY <1>2 DEF Bearers
  <2>2. QED
    BY <1>1, <2>1 DEF Lock!Write
<1>3. CASE Bearers(k) = {}
  <2>1. Bearers(k)' = Bearers(k) /\ (k = Index => index' = index)
    BY <1>3
  <2>2. QED
    BY <1>1, <2>1 DEF Lock!Free
<1>4. QED
  BY <1>2, <1>3

(* An acquisition shuts out whoever had the lock before. *)
LEMMA LockAcquired ==
  ASSUME TypeOK, NEW w \in Workers, NEW l \in Locks, NEW stage \in Stages, Acquire(w, l, stage),
         \/ l = room[w] /\ stage = "look" /\ pc[w] = "lock"
         \/ l = Index /\ stage = "listed" /\ pc[w] = "list",
         NEW k \in Locks
  PROVE  [Lock(k)!Next]_(Lock(k)!fvars)
<1>1. last'[l] = w /\ (\A m \in Locks \ {l} : last'[m] = last[m]) /\ UNCHANGED <<index, room>>
  BY AcquireFacts DEF keys, request
<1>2. held' = held \cup {l} /\ l \notin held
  BY DEF Acquire
<1>3. pc'[w] = stage /\ \A v \in Workers \ {w} : pc'[v] = pc[v]
  BY AcquireFacts
<1>4. CASE k = l
  <2>1. Bearers(k)' \subseteq {w}
    BY <1>1, <1>4 DEF Bearers
  <2>2. QED
    BY <1>1, <1>2, <1>4, <2>1 DEF Lock!Next, Lock!Acquire
<1>5. CASE k # l
  <2>1. \A v \in Workers : InSection(v, k)' <=> InSection(v, k)
    BY <1>1, <1>3, <1>5 DEF InSection
  <2>2. Bearers(k)' = Bearers(k)
    BY <1>1, <1>5, <2>1 DEF Bearers
  <2>3. QED
    BY <1>1, <1>2, <1>5, <2>2 DEF Lock!fvars
<1>6. QED
  BY <1>4, <1>5

(* A request enters a section by its lock only. *)
LEMMA SectionStep ==
  ASSUME TypeOK, Shape, NEW w \in Workers, Acts(w), pc'[w] \notin {"look", "listed"}, last' = last,
         NEW k \in Locks
  PROVE  Bearers(k)' \subseteq Bearers(k)
<1>1. \A v \in Workers \ {w} : UNCHANGED <<pc[v], room[v]>>
  BY ActsApart DEF Apart
<1>2. InSection(w, k)' => InSection(w, k)
  BY StageStep DEF InSection, Listing
<1>3. \A v \in Workers : InSection(v, k)' => InSection(v, k)
  BY <1>1, <1>2 DEF InSection
<1>4. QED
  BY <1>3 DEF Bearers

(* Every step is, for each lock, one of a fenced lock. *)
LEMMA LockStep ==
  ASSUME TypeOK, Shape, [Next]_vars, NEW k \in Locks
  PROVE  [Lock(k)!Next]_(Lock(k)!fvars)
<1> USE DEF keys, request
<1>1. ASSUME UNCHANGED <<index, last>>, held' \subseteq held,
             \/ UNCHANGED <<pc, room>>
             \/ \E w \in Workers : Acts(w) /\ pc'[w] \notin {"look", "listed"}
      PROVE  [Lock(k)!Next]_(Lock(k)!fvars)
  <2>1. Bearers(k)' \subseteq Bearers(k)
    BY <1>1, SectionStep DEF Bearers, InSection
  <2>2. QED
    BY <1>1, <2>1, LockEnds
<1>2. ASSUME NEW w \in Workers, SaveNew(w) \/ Rollback(w) \/ RoomUnavailable(w) \/ Dies(w)
                                \/ ReadIndex(w)
      PROVE  [Lock(k)!Next]_(Lock(k)!fvars)
  <2>1. pc'[w] \notin {"look", "listed"}
    BY <1>2, IdleFacts, GotoFacts DEF SaveNew, Rollback, RoomUnavailable, Dies, ReadIndex, Stages
  <2>2. UNCHANGED <<index, last, held>> /\ Acts(w)
    BY <1>2 DEF SaveNew, Rollback, RoomUnavailable, Dies, ReadIndex, Acts, GoesOn
  <2>3. QED
    BY <1>1, <2>1, <2>2
<1>3. ASSUME NEW w \in Workers, Look(w) \/ Write(w) \/ IndexUnavailable(w)
      PROVE  [Lock(k)!Next]_(Lock(k)!fvars)
  <2>1. pc'[w] \notin {"look", "listed"}
    BY <1>3, IdleFacts, GotoFacts, IndexFailsFacts
       DEF Look, Write, Leave, IndexUnavailable, Stages
  <2>2. UNCHANGED <<index, last>> /\ held' \subseteq held
    BY <1>3 DEF Look, Write, Leave, IndexUnavailable, IndexFails, Release, Freed
  <2>3. Acts(w)
    BY <1>3 DEF Acts, GoesOn
  <2>4. QED
    BY <1>1, <2>1, <2>2, <2>3
<1>4. ASSUME NEW w \in Workers, LockRoom(w) \/ LockIndex(w)
      PROVE  [Lock(k)!Next]_(Lock(k)!fvars)
  <2>1. CASE LockRoom(w)
    <3>1. room[w] \in Locks
      BY <2>1 DEF LockRoom, Shape, Locks
    <3>2. pc[w] = "lock" /\ Acquire(w, room[w], "look")
      BY <2>1 DEF LockRoom
    <3>3. "look" \in Stages
      BY DEF Stages
    <3>4. QED
      BY <3>1, <3>2, <3>3, LockAcquired
  <2>2. CASE LockIndex(w)
    BY <2>2, LockAcquired DEF LockIndex, Stages, Locks
  <2>3. QED
    BY <1>4, <2>1, <2>2
<1>5. ASSUME NEW w \in Workers, WriteIndex(w)
      PROVE  [Lock(k)!Next]_(Lock(k)!fvars)
  <2>1. held' \subseteq held /\ last' = last
    BY <1>5 DEF WriteIndex, IndexDone, IndexFails, Release, Freed
  <2>2. Acts(w) /\ pc'[w] \notin {"look", "listed"}
    BY <1>5, IndexFailsFacts, IndexDoneFacts, IdleFacts DEF WriteIndex, Acts, GoesOn
  <2>3. Bearers(k)' \subseteq Bearers(k)
    BY <2>1, <2>2, SectionStep
  <2>4. index' # index => w \in Bearers(Index)
    BY <1>5 DEF WriteIndex, Accepted, Bearers, InSection
  <2>5. QED
    BY <2>1, <2>3, <2>4, LockEnds
<1>6. ASSUME NEW w \in Workers, NEW r \in Rooms, Arrives(w, r)
      PROVE  [Lock(k)!Next]_(Lock(k)!fvars)
  <2>1. pc'[w] \notin {"look", "write", "listed", "relist"}
    BY <1>6, RequestFacts
       DEF Arrives, CreateRoom, UpdateRoom, DeleteRoom, Reconcile, Stages, Ops
  <2>2. \A v \in Workers \ {w} : UNCHANGED <<pc[v], room[v]>>
    BY <1>6, RequestFacts
       DEF Arrives, CreateRoom, UpdateRoom, DeleteRoom, Reconcile, Stages, Ops
  <2>3. UNCHANGED <<index, last, held>>
    BY <1>6 DEF Arrives, CreateRoom, UpdateRoom, DeleteRoom, Reconcile, Request
  <2>4. Bearers(k)' \subseteq Bearers(k)
    BY <2>1, <2>2, <2>3 DEF Bearers, InSection
  <2>5. QED
    BY <2>3, <2>4, LockEnds
<1>7. ASSUME NEW l \in Locks, Lapse(l) PROVE [Lock(k)!Next]_(Lock(k)!fvars)
  BY <1>1, <1>7 DEF Lapse
<1>8. ASSUME NEW r \in Rooms, Expire(r) PROVE [Lock(k)!Next]_(Lock(k)!fvars)
  BY <1>1, <1>8 DEF Expire
<1>9. CASE UNCHANGED vars
  BY <1>1, <1>9 DEF vars
<1>10. QED
  BY <1>2, <1>3, <1>4, <1>5, <1>6, <1>7, <1>8, <1>9 DEF Next, GoesOn

-----------------------------------------------------------------------------
(* The theorems. *)

(* The inductive invariant holds at first. *)
LEMMA Initially == Init => IInv
  BY DEF Init, IInv, Base, TypeOK, Shape, Creation, Known, Current, Fenced, Removing, OpenRoomsListed,
         Listed, Locks, Stages, Ops, Later, Listing

(* What needs no assumption on expiry. *)
LEMMA AlwaysBase == Spec => []Base
<1>1. Init => Base
  BY Initially DEF IInv
<1>2. Base /\ [Next]_vars => Base'
  BY TypeStep, ShapeStep, CreationStep, CurrentStep DEF Base
<1>3. QED
  BY <1>1, <1>2, PTL DEF Spec

(* The inductive invariant always holds. *)
LEMMA Always == ASSUME ~ExpiresInUse PROVE Spec => []IInv
<1>1. IInv /\ [Next]_vars => IInv'
  BY TypeStep, ShapeStep, CreationStep, CurrentStep, FencedStep, RemovingStep, DirectoryStep
     DEF IInv, Base
<1>2. QED
  BY Initially, <1>1, PTL DEF Spec

(* Records, locks and requests are of their types. *)
THEOREM TypeCorrect == Spec => []TypeOK
<1>1. Base => TypeOK
  BY DEF Base
<1>2. QED
  BY AlwaysBase, <1>1, PTL

(* A room whose creation was reported and that lives is on the list,       *)
(* whatever reconcilers, lapsed locks and failed writes do (createRoom,    *)
(* reconcileOne, deleteRoom).                                              *)
THEOREM RoomsListed == ASSUME ~ExpiresInUse PROVE Spec => []OpenRoomsListed
<1>1. IInv => OpenRoomsListed
  BY DEF IInv
<1>2. QED
  BY Always, <1>1, PTL

(* The two keys and their two locks implement the directory. *)
THEOREM ImplementsDirectory == ASSUME ~ExpiresInUse PROVE Spec => DirectorySpec
<1>1. Init => Directory!Init
  BY DEF Init, Directory!Init, Listed
<1>2. IInv /\ [Next]_vars => [Directory!Next]_Directory!dvars
  BY DirectoryStep DEF Directory!dvars
<1>3. QED
  BY Always, <1>1, <1>2, PTL DEF Spec, DirectorySpec, Directory!Spec

(* Every lock of a room, and that of the list, is a fenced lock, and the   *)
(* list is not written while the last to have acquired its own is done or  *)
(* dead, whatever expires (RoomIndexRepository.writeIndex).                *)
THEOREM LocksAreFenced == Spec => LocksFenced
<1>1. Init => \A k \in Locks : Lock(k)!Init
  BY DEF Init, Lock!Init, Bearers, InSection
<1>2. Base /\ [Next]_vars => [\A k \in Locks : [Lock(k)!Next]_(Lock(k)!fvars)]_vars
  BY LockStep DEF Base
<1>3. QED
  BY AlwaysBase, <1>1, <1>2, PTL DEF Spec, LocksFenced
=============================================================================
