----------------------------- MODULE FencedLock -----------------------------
(***************************************************************************)
(* What a lock with a time to live and a fencing token promises: not that  *)
(* its owner is alone at work (the TTL passes while it works on), but that *)
(* the data can only be written on behalf of the last one who acquired it. *)
(*                                                                         *)
(*  - the lock is acquired when it is free, and whoever had acquired it    *)
(*    before can write no more, even by a command sent long ago;           *)
(*  - when it is freed, by its owner or by time, its last owner may still  *)
(*    write, until the next one acquires it;                               *)
(*  - who has given up its token, or lost it, does not get it back.        *)
(***************************************************************************)
CONSTANTS Clients, None

VARIABLES
  owner,    (* in whose name the lock is held, or None *)
  writers,  (* those whose write would be accepted *)
  data      (* what is protected *)

fvars == <<owner, writers, data>>

Init ==
  /\ owner = None
  /\ writers = {}

(* The new owner may never learn that it is. *)
Acquire(c) ==
  /\ owner = None
  /\ owner' = c
  /\ writers' \in SUBSET {c}
  /\ UNCHANGED data

Free ==
  /\ owner' = None
  /\ UNCHANGED <<writers, data>>

Retire ==
  /\ writers' \in SUBSET writers
  /\ UNCHANGED <<owner, data>>

(* A write is accepted; the lock may be freed with it. *)
Write(c) ==
  /\ c \in writers
  /\ owner' \in {owner, None}
  /\ writers' \in SUBSET writers

Next ==
  \/ \E c \in Clients : Acquire(c) \/ Write(c)
  \/ Free
  \/ Retire

Spec == Init /\ [][Next]_fvars
=============================================================================
