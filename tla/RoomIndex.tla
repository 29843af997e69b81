----------------------------- MODULE RoomIndex -----------------------------
(***************************************************************************)
(* Room records and the list of rooms, two Redis keys under two locks.     *)
(* apps/game/src/room/room.service.ts (createRoom, getRooms, deleteRoom),  *)
(* room-index.repository.ts, room-index-reconciler.service.ts.             *)
(*                                                                         *)
(* A lock is what module RoomLock shows of it: the last one to acquire it  *)
(* has the largest fencing token, so a write on behalf of anyone else is   *)
(* refused; its TTL may pass while its holder works on, and then another   *)
(* acquires it.  The index lock is taken inside the room lock, and the     *)
(* write of the index looks at the token of the index lock only.  A room   *)
(* id is a fresh UUID: it is created once.  A record is its existence; it  *)
(* expires by its TTL, the index never does.                               *)
(***************************************************************************)
EXTENDS FiniteSets

CONSTANTS
  Rooms,        (* room ids *)
  Workers,      (* requests in progress at once, on any instance *)
  None,
  ExpiresInUse  (* a record may expire while a request is about to save it *)

ASSUME WorkersAssumption == None \notin Workers /\ None \notin Rooms /\ ExpiresInUse \in BOOLEAN

Index == "room-index"
Locks == Rooms \cup {Index}
ASSUME IndexAssumption == Index \notin Rooms

VARIABLES
  record,   (* room:<id> *)
  created,  (* rooms whose createRoom has answered its caller *)
  index,    (* room:index *)
  held,     (* locks whose key is in Redis *)
  last,     (* who acquired each lock last *)
  pc, op, room,  (* the request of each worker *)
  base      (* the index it has read *)

request == <<op, room>>
keys == <<record, created, index>>
vars == <<record, created, index, held, last, pc, op, room, base>>

Ops == {"none", "create", "update", "delete", "reconcile"}
Stages == {"idle", "save", "lock", "look", "write", "list", "listed", "relist", "rollback"}

Init ==
  /\ record = [r \in Rooms |-> "unborn"]
  /\ created = {}
  /\ index = {}
  /\ held = {}
  /\ last = [k \in Locks |-> None]
  /\ pc = [w \in Workers |-> "idle"]
  /\ op = [w \in Workers |-> "none"]
  /\ room = [w \in Workers |-> None]
  /\ base = [w \in Workers |-> {}]

-----------------------------------------------------------------------------

Goto(w, stage) == pc' = [pc EXCEPT ![w] = stage]

Idle(w) ==
  /\ Goto(w, "idle")
  /\ op' = [op EXCEPT ![w] = "none"]
  /\ room' = [room EXCEPT ![w] = None]
  /\ base' = [base EXCEPT ![w] = {}]

Request(w, o, r, stage) ==
  /\ pc[w] = "idle"
  /\ Goto(w, stage)
  /\ op' = [op EXCEPT ![w] = o]
  /\ room' = [room EXCEPT ![w] = r]
  /\ UNCHANGED <<keys, held, last, base>>

(* A RELEASE frees the lock of its own token only, and may be lost. *)
Freed(w, ks) == held \ {k \in ks : last[k] = w}
Release(w, ks) == held' \in {held, Freed(w, ks)}

(* Mutant of Accepted: no fencing. *)
AcceptedAlways(w, k) == TRUE

(* FENCED_SET_SCRIPT, FENCED_DEL_SCRIPT *)
Accepted(w, k) == last[k] = w

(* The end of a request under the room lock. *)
Leave(w) == Idle(w) /\ Release(w, {room[w]})

(* The TTL of a lock passes: its holder is slow, or gone. *)
Lapse(k) ==
  /\ k \in held
  /\ held' = held \ {k}
  /\ UNCHANGED <<keys, last, pc, request, base>>

Acquire(w, k, stage) ==
  /\ k \notin held
  /\ held' = held \cup {k}
  /\ last' = [last EXCEPT ![k] = w]
  /\ Goto(w, stage)
  /\ UNCHANGED <<keys, request, base>>

-----------------------------------------------------------------------------
(* createRoom: the record without a lock, then the index, else undone. *)

CreateRoom(w, r) ==
  /\ record[r] = "unborn"
  /\ \A v \in Workers : room[v] # r
  /\ Request(w, "create", r, "save")

SaveNew(w) ==
  /\ pc[w] = "save"
  /\ \/ /\ record' = [record EXCEPT ![room[w]] = "live"]
        /\ Goto(w, "list")
        /\ UNCHANGED <<request, base>>
     \/ /\ record' \in {record, [record EXCEPT ![room[w]] = "live"]}
        /\ Idle(w)
  /\ UNCHANGED <<created, index, held, last>>

Rollback(w) ==
  /\ pc[w] = "rollback"
  /\ record' \in {record, [record EXCEPT ![room[w]] = "gone"]}
  /\ Idle(w)
  /\ UNCHANGED <<created, index, held, last>>

(* What a failed addToIndex or removeFromIndex means to the request. *)
IndexFails(w) ==
  \/ op[w] = "create" /\ Goto(w, "rollback") /\ UNCHANGED <<request, base>> /\ Release(w, {Index})
  \/ op[w] # "create" /\ Idle(w) /\ Release(w, {Index, room[w]})

(* Mutant of IndexDone: answers with what it has just cleared. *)
IndexDoneCleared(w) ==
  /\ Idle(w)
  /\ created' = created \cup {room'[w]}
  /\ Release(w, {Index, room[w]})

IndexDone(w) ==
  /\ Idle(w)
  /\ IF op[w] = "create"
     THEN created' = created \cup {room[w]} /\ Release(w, {Index})
     ELSE UNCHANGED created /\ Release(w, {Index, room[w]})

-----------------------------------------------------------------------------
(* Requests under the room lock. *)

(* joinRoom, leaveRoom and the rest: read, then save.  The last one to     *)
(* leave deletes.                                                          *)
UpdateRoom(w, r) == record[r] # "unborn" /\ Request(w, "update", r, "lock")
DeleteRoom(w, r) == record[r] # "unborn" /\ Request(w, "delete", r, "lock")

(* getRooms found an entry without a record, or could not read it. *)
Reconcile(w, r) == r \in index /\ Request(w, "reconcile", r, "lock")

LockRoom(w) == pc[w] = "lock" /\ Acquire(w, room[w], "look")

(* Mutant of Absent: the reconciler trusts what getRooms has seen. *)
AbsentAsSeen(w) == TRUE

(* getRoomOrThrow, which may also take a record it cannot read for absent; *)
(* roomExistsStrict fails instead.                                         *)
Absent(w) == record[room[w]] # "live"

Look(w) ==
  /\ pc[w] = "look"
  /\ \/ /\ op[w] # "reconcile" /\ ~Absent(w)
        /\ Goto(w, "write") /\ UNCHANGED <<request, base, held>>
     \/ /\ op[w] = "reconcile" /\ Absent(w)
        /\ Goto(w, "list") /\ UNCHANGED <<request, base, held>>
     \/ Leave(w)
  /\ UNCHANGED <<keys, last>>

(* saveRoom and deleteRoomRecord: fenced by the room lock; the command may *)
(* take effect though its caller is told otherwise.                        *)
Write(w) ==
  LET r == room[w]
      written == [record EXCEPT ![r] = IF op[w] = "delete" THEN "gone" ELSE "live"] IN
  /\ pc[w] = "write"
  /\ \/ /\ Accepted(w, r)
        /\ record' = written
        /\ IF op[w] = "delete" THEN Goto(w, "list") /\ UNCHANGED <<request, base, held>> ELSE Leave(w)
     \/ /\ record' \in {record, IF Accepted(w, r) THEN written ELSE record}
        /\ Leave(w)
  /\ UNCHANGED <<created, index, last>>

-----------------------------------------------------------------------------
(* addToIndex and removeFromIndex. *)

LockIndex(w) == pc[w] = "list" /\ Acquire(w, Index, "listed")

ReadIndex(w) ==
  /\ pc[w] = "listed"
  /\ base' = [base EXCEPT ![w] = index]
  /\ Goto(w, "relist")
  /\ UNCHANGED <<keys, held, last, request>>

Wanted(w) == IF op[w] = "create" THEN base[w] \cup {room[w]} ELSE base[w] \ {room[w]}

(* Nothing is written when the entry is as wanted. *)
WriteIndex(w) ==
  /\ pc[w] = "relist"
  /\ \/ /\ Wanted(w) = base[w] \/ Accepted(w, Index)
        /\ index' = IF Wanted(w) = base[w] THEN index ELSE Wanted(w)
        /\ IndexDone(w)
     \/ /\ index' \in {index, IF Accepted(w, Index) THEN Wanted(w) ELSE index}
        /\ IndexFails(w)
        /\ UNCHANGED created
  /\ UNCHANGED <<record, last>>

(* The lock is not to be had in time, or the strict read fails. *)
IndexUnavailable(w) ==
  /\ pc[w] \in {"list", "listed"}
  /\ IndexFails(w)
  /\ UNCHANGED <<keys, last>>

RoomUnavailable(w) ==
  /\ pc[w] = "lock"
  /\ Idle(w)
  /\ UNCHANGED <<keys, held, last>>

(* The process of the request dies; its locks stay until they lapse. *)
Dies(w) ==
  /\ pc[w] # "idle"
  /\ Idle(w)
  /\ UNCHANGED <<keys, held, last>>

(* The TTL of a record passes, six hours after it was last saved. *)
InUse(r) == \E w \in Workers : room[w] = r /\ pc[w] = "write"
Expire(r) ==
  /\ record[r] = "live"
  /\ ExpiresInUse \/ ~InUse(r)
  /\ record' = [record EXCEPT ![r] = "gone"]
  /\ UNCHANGED <<created, index, held, last, pc, request, base>>

Arrives(w, r) ==
  CreateRoom(w, r) \/ UpdateRoom(w, r) \/ DeleteRoom(w, r) \/ Reconcile(w, r)

GoesOn(w) ==
  \/ SaveNew(w) \/ Rollback(w) \/ LockRoom(w) \/ RoomUnavailable(w) \/ Look(w)
  \/ Write(w) \/ LockIndex(w) \/ IndexUnavailable(w) \/ ReadIndex(w) \/ WriteIndex(w)

Next ==
  \/ \E w \in Workers : GoesOn(w) \/ Dies(w) \/ \E r \in Rooms : Arrives(w, r)
  \/ \E k \in Locks : Lapse(k)
  \/ \E r \in Rooms : Expire(r)

Spec == Init /\ [][Next]_vars

-----------------------------------------------------------------------------

TypeOK ==
  /\ record \in [Rooms -> {"unborn", "live", "gone"}]
  /\ created \subseteq Rooms /\ index \subseteq Rooms /\ held \subseteq Locks
  /\ last \in [Locks -> Workers \cup {None}]
  /\ pc \in [Workers -> Stages]
  /\ op \in [Workers -> Ops]
  /\ room \in [Workers -> Rooms \cup {None}]
  /\ base \in [Workers -> SUBSET Rooms]

(* The list behaves as the directory. *)
Listed == {r \in created : record[r] = "live"}
Directory == INSTANCE RoomDirectory WITH Rooms <- Rooms, open <- Listed, list <- index
DirectorySpec == Directory!Spec

(* The requests that may still write what lock k protects: in the section  *)
(* under that lock, and the last to have acquired it.                      *)
InSection(w, k) ==
  \/ k = Index /\ pc[w] \in {"listed", "relist"}
  \/ k = room[w] /\ pc[w] \in {"look", "write"}
Bearers(k) == {w \in Workers : last[k] = w /\ InSection(w, k)}

(* Every lock is the fenced one of RoomLock, and that of the index fences  *)
(* the index: when whoever acquired it last is done, or dead, nobody       *)
(* writes it any more, however late, until it is acquired again.           *)
Lock(k) == INSTANCE FencedLock WITH
  Clients <- Workers,
  owner <- IF k \in held THEN last[k] ELSE None,
  writers <- Bearers(k),
  data <- IF k = Index THEN index ELSE {}

LocksFenced ==
  /\ \A k \in Locks : Lock(k)!Init
  /\ [][\A k \in Locks : [Lock(k)!Next]_(Lock(k)!fvars)]_vars

(* Who is reading the list does not lose a room that can be joined.        *)
OpenRoomsListed == Listed \subseteq index
=============================================================================
