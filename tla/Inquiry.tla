------------------------------ MODULE Inquiry ------------------------------
(***************************************************************************)
(* Inquiries about one song: submission, the background pipeline that      *)
(* judges them, and administrators who approve and reject, from the admin  *)
(* page or from Slack.  apps/api/src/inquiry/inquiry.service.ts,           *)
(* inquiry-action.service.ts, admin/admin.service.ts,                      *)
(* slack/slack-interaction.service.ts.                                     *)
(*                                                                         *)
(* A status lives twice, in the inquiry and in its action.  A transition   *)
(* of the action is one database transaction, with its audit log; the      *)
(* inquiry is saved later, unguarded.  Every await is a step boundary, and *)
(* a call to the database may fail with or without effect.  The user and   *)
(* the game of all inquiries are the same.                                 *)
(***************************************************************************)
EXTENDS Naturals, FiniteSets

CONSTANTS
  Inquiries,  (* each one stands for its submission and its pipeline, too *)
  Admins,     (* approvals and rejections in progress at once *)
  Nobody,
  Answers,    (* texts an ADD_ANSWER may ask for *)
  Change,     (* CHANGE_START_TIME, CHANGE_LINK *)
  Max         (* MAX_INQUIRIES_PER_GAME *)

ASSUME WorkersAssumption == Inquiries \cap Admins = {} /\ Nobody \notin Inquiries
ASSUME AsksAssumption == Change \notin Answers /\ Nobody \notin Answers \cup {Change}
ASSUME MaxAssumption == Max \in Nat

VARIABLES
  inquiry,    (* SQ_INQUIRY.STATUS *)
  action,     (* SQ_INQUIRY_ACTION.STATUS *)
  ask,        (* what the action does *)
  song,       (* the quiz song exists *)
  answers,    (* its answers *)
  pc, on,     (* each pipeline and request; the inquiry of the latter *)
  goal,       (* the status it will finish the inquiry with *)
  told,       (* what the user was told last *)
  applied,    (* history: inquiries whose action took effect *)
  overridden, (* history: the pipeline wrote over the action of a reviewer *)
  cut         (* history: a call on behalf of it failed, or its process died *)

Workers == Inquiries \cup Admins
world == <<song, answers, applied>>
vars == <<inquiry, action, ask, song, answers, pc, on, goal, told, applied,
          overridden, cut>>

InquiryStatus == {"none", "RECEIVED", "NO_MATCH", "REJECTED", "PENDING_REVIEW", "COMPLETED", "FAILED"}
Claimed == {"APPROVED", "EXECUTING"}
ActionStatus == Claimed \cup {"none", "PROPOSED", "PENDING_REVIEW", "REJECTED", "COMPLETED", "FAILED"}
Executing == {"execute", "act", "insert", "complete", "fail"}
Stages == Executing \cup {"idle", "counted", "judge", "log", "LOW", "MEDIUM", "HIGH",
                          "approve", "reject", "finish", "tell"}
Notified == {"REJECTED", "PENDING_REVIEW", "COMPLETED"}

Init ==
  /\ inquiry = [i \in Inquiries |-> "none"]
  /\ action = [i \in Inquiries |-> "none"]
  /\ ask = [i \in Inquiries |-> Nobody]
  /\ song = TRUE
  /\ answers = {}
  /\ pc = [w \in Workers |-> "idle"]
  /\ on = [a \in Admins |-> Nobody]
  /\ goal = [w \in Workers |-> "none"]
  /\ told = [i \in Inquiries |-> "none"]
  /\ applied = {} /\ overridden = {} /\ cut = {}

-----------------------------------------------------------------------------

On(w) == IF w \in Inquiries THEN w ELSE on[w]
Adds(i) == ask[i] \in Answers

Goto(w, stage) ==
  /\ pc' = [pc EXCEPT ![w] = stage]
  /\ UNCHANGED <<on, goal>>

Finish(w, status) ==
  /\ pc' = [pc EXCEPT ![w] = "finish"]
  /\ goal' = [goal EXCEPT ![w] = status]
  /\ UNCHANGED on

End(w) ==
  /\ pc' = [pc EXCEPT ![w] = "idle"]
  /\ goal' = [goal EXCEPT ![w] = "none"]
  /\ on' = [a \in Admins |-> IF a = w THEN Nobody ELSE on[a]]

Cut(w) == cut' = cut \cup {On(w)}

(* transitionAction: UPDATE and audit log together. *)
Transition(w, status) == action' = [action EXCEPT ![On(w)] = status]

(* It fails: the worker gives up, the transaction may have been committed. *)
TransitionThrows(w, status) ==
  /\ Transition(w, status) \/ UNCHANGED action
  /\ End(w)
  /\ Cut(w)

-----------------------------------------------------------------------------
(* submit: count, then save, then the pipeline in the background. *)

Submitted == {i \in Inquiries : inquiry[i] # "none"}

Submit(i) ==
  /\ pc[i] = "idle" /\ inquiry[i] = "none"
  /\ Cardinality(Submitted) < Max
  /\ Goto(i, "counted")
  /\ UNCHANGED <<inquiry, action, ask, world, told, overridden, cut>>

SaveInquiry(i) ==
  /\ pc[i] = "counted"
  /\ \/ /\ inquiry' = [inquiry EXCEPT ![i] = "RECEIVED"]
        /\ Goto(i, "judge")
        /\ UNCHANGED cut
     \/ /\ inquiry' \in {inquiry, [inquiry EXCEPT ![i] = "RECEIVED"]}
        /\ End(i)
        /\ Cut(i)
  /\ UNCHANGED <<action, ask, world, told, overridden>>

(* Mutant of Judge: no match is no reason to save anything. *)
JudgeSilently(i) ==
  /\ pc[i] = "judge"
  /\ End(i)
  /\ UNCHANGED <<inquiry, action, ask, world, told, overridden, cut>>

(* process: song, classify, verifyConfidence and the proposed action.  An  *)
(* error of any of them leaves the inquiry as it is.                       *)
Judge(i) ==
  /\ pc[i] = "judge"
  /\ \/ ~song /\ Finish(i, "FAILED") /\ UNCHANGED <<action, ask, cut>>
     \/ song /\ Finish(i, "NO_MATCH") /\ UNCHANGED <<action, ask, cut>>
     \/ /\ song
        /\ action' = [action EXCEPT ![i] = "PROPOSED"]
        /\ \E what \in Answers \cup {Change} : ask' = [ask EXCEPT ![i] = what]
        /\ Goto(i, "log") /\ UNCHANGED cut
     \/ End(i) /\ Cut(i) /\ UNCHANGED <<action, ask>>
  /\ UNCHANGED <<inquiry, world, told, overridden>>

LogProposed(i) ==
  /\ pc[i] = "log"
  /\ \/ \E confidence \in {"LOW", "MEDIUM", "HIGH"} : Goto(i, confidence) /\ UNCHANGED cut
     \/ End(i) /\ Cut(i)
  /\ UNCHANGED <<inquiry, action, ask, world, told, overridden>>

(* The verdict: no guard on the status, whatever a reviewer did meanwhile. *)
Verdict(i, confidence, status) ==
  /\ pc[i] = confidence
  /\ \/ /\ Transition(i, status)
        /\ IF status = "APPROVED" THEN Goto(i, "execute") ELSE Finish(i, status)
        /\ UNCHANGED cut
     \/ TransitionThrows(i, status)
  /\ overridden' = IF action[i] = "PROPOSED" THEN overridden ELSE overridden \cup {i}
  /\ UNCHANGED <<inquiry, ask, world, told>>

Low(i) == Verdict(i, "LOW", "REJECTED")
Medium(i) == Verdict(i, "MEDIUM", "PENDING_REVIEW")
High(i) == Verdict(i, "HIGH", "APPROVED")

-----------------------------------------------------------------------------
(* approve and reject: find the action, then claim it. *)

Review(a, i, which) ==
  /\ pc[a] = "idle" /\ action[i] # "none"
  /\ pc' = [pc EXCEPT ![a] = which]
  /\ on' = [on EXCEPT ![a] = i]
  /\ UNCHANGED <<inquiry, action, ask, world, goal, told, overridden, cut>>

(* Mutant of MayApprove: only what is completed is not approved again. *)
MayApproveAgain(i) == Adds(i) => action[i] # "COMPLETED"

(* ADD_ANSWER is not approved twice; the rest may be, as often as wanted. *)
MayApprove(i) == Adds(i) => action[i] \notin Claimed \cup {"COMPLETED"}
MayReject(i) == action[i] = "PENDING_REVIEW"

Approve(a) ==
  /\ pc[a] = "approve"
  /\ \/ MayApprove(on[a]) /\ Transition(a, "APPROVED") /\ Goto(a, "execute") /\ UNCHANGED cut
     \/ ~MayApprove(on[a]) /\ End(a) /\ UNCHANGED <<action, cut>>
     \/ MayApprove(on[a]) /\ TransitionThrows(a, "APPROVED")
  /\ UNCHANGED <<inquiry, ask, world, told, overridden>>

Reject(a) ==
  /\ pc[a] = "reject"
  /\ \/ MayReject(on[a]) /\ Transition(a, "REJECTED") /\ Finish(a, "REJECTED") /\ UNCHANGED cut
     \/ ~MayReject(on[a]) /\ End(a) /\ UNCHANGED <<action, cut>>
     \/ MayReject(on[a]) /\ TransitionThrows(a, "REJECTED")
  /\ UNCHANGED <<inquiry, ask, world, told, overridden>>

-----------------------------------------------------------------------------
(* executeAndFinish. *)

Execute(w) ==
  /\ pc[w] = "execute"
  /\ \/ Transition(w, "EXECUTING") /\ Goto(w, "act") /\ UNCHANGED cut
     \/ TransitionThrows(w, "EXECUTING")
  /\ UNCHANGED <<inquiry, ask, world, told, overridden>>

Apply(w) == applied' = applied \cup {On(w)}

(* executeAction: the arguments may be invalid, the song gone, the save    *)
(* fail.  addAnswer looks for the answer first, and for the song never.    *)
Act(w) ==
  /\ pc[w] = "act"
  /\ \/ Goto(w, "fail") /\ UNCHANGED <<answers, applied>>
     \/ song /\ ~Adds(On(w)) /\ Apply(w) /\ (Goto(w, "complete") \/ Goto(w, "fail")) /\ UNCHANGED answers
     \/ Adds(On(w)) /\ ask[On(w)] \in answers /\ Apply(w) /\ Goto(w, "complete") /\ UNCHANGED answers
     \/ Adds(On(w)) /\ ask[On(w)] \notin answers /\ Goto(w, "insert") /\ UNCHANGED <<answers, applied>>
  /\ UNCHANGED <<inquiry, action, ask, song, told, overridden, cut>>

(* Mutant of Insert: INSERT IGNORE, and an error counts as done. *)
InsertIgnore(w) ==
  /\ pc[w] = "insert"
  /\ Goto(w, "complete")
  /\ \/ ask[On(w)] \notin answers /\ answers' = answers \cup {ask[On(w)]} /\ Apply(w)
     \/ UNCHANGED <<answers, applied>>
  /\ UNCHANGED <<inquiry, action, ask, song, told, overridden, cut>>

(* The unique index refuses a second row; there is no foreign key, so a    *)
(* song that is gone gets its answer, too.                                 *)
Insert(w) ==
  /\ pc[w] = "insert"
  /\ \/ /\ ask[On(w)] \notin answers
        /\ answers' = answers \cup {ask[On(w)]}
        /\ Apply(w)
        /\ Goto(w, "complete") \/ Goto(w, "fail")
     \/ Goto(w, "fail") /\ UNCHANGED <<answers, applied>>
  /\ UNCHANGED <<inquiry, action, ask, song, told, overridden, cut>>

(* Mutant of Complete: a failure to record it is left at that. *)
CompleteOrNot(w) ==
  /\ pc[w] = "complete"
  /\ \/ Transition(w, "COMPLETED") /\ Finish(w, "COMPLETED")
     \/ UNCHANGED action /\ Finish(w, "FAILED")
  /\ UNCHANGED <<inquiry, ask, world, told, overridden, cut>>

Complete(w) ==
  /\ pc[w] = "complete"
  /\ \/ Transition(w, "COMPLETED") /\ Finish(w, "COMPLETED")
     \/ (Transition(w, "COMPLETED") \/ UNCHANGED action) /\ Goto(w, "fail")
  /\ UNCHANGED <<inquiry, ask, world, told, overridden, cut>>

Fail(w) ==
  /\ pc[w] = "fail"
  /\ \/ Transition(w, "FAILED") /\ Finish(w, "FAILED") /\ UNCHANGED cut
     \/ TransitionThrows(w, "FAILED")
  /\ UNCHANGED <<inquiry, ask, world, told, overridden>>

(* Mutant of Save: the status of the action, whatever it is. *)
SaveAction(w) == inquiry' = [inquiry EXCEPT ![On(w)] = action[On(w)]]

(* finish: the inquiry as this worker read it, with its own status; when   *)
(* COMPLETED cannot be saved, the action becomes FAILED.                   *)
Save(w) == inquiry' = [inquiry EXCEPT ![On(w)] = goal[w]]

FinishSaves(w) ==
  /\ pc[w] = "finish"
  /\ \/ Save(w) /\ (IF goal[w] \in Notified THEN Goto(w, "tell") ELSE End(w)) /\ UNCHANGED cut
     \/ /\ Save(w) \/ UNCHANGED inquiry
        /\ IF goal[w] = "COMPLETED" THEN Goto(w, "fail") /\ UNCHANGED cut ELSE End(w) /\ Cut(w)
  /\ UNCHANGED <<action, ask, world, told, overridden>>

(* notifyInquiryResult, which may not arrive and never throws. *)
Tell(w) ==
  /\ pc[w] = "tell"
  /\ told' \in {told, [told EXCEPT ![On(w)] = goal[w]]}
  /\ End(w)
  /\ UNCHANGED <<inquiry, action, ask, world, overridden, cut>>

(* The owner saves the quiz anew, or the safety net removes the song. *)
SongGoes ==
  /\ song
  /\ song' = FALSE /\ answers' = {}
  /\ UNCHANGED <<inquiry, action, ask, pc, on, goal, told, applied, overridden, cut>>

Dies(w) ==
  /\ pc[w] # "idle"
  /\ End(w)
  /\ Cut(w)
  /\ UNCHANGED <<inquiry, action, ask, world, told, overridden>>

Pipeline(i) ==
  SaveInquiry(i) \/ Judge(i) \/ LogProposed(i) \/ Low(i) \/ Medium(i) \/ High(i)

Finishing(w) ==
  \/ Execute(w) \/ Act(w) \/ Insert(w) \/ Complete(w) \/ Fail(w) \/ FinishSaves(w) \/ Tell(w)

Next ==
  \/ \E i \in Inquiries : Submit(i) \/ Pipeline(i)
  \/ \E a \in Admins : Approve(a) \/ Reject(a) \/ \E i \in Inquiries : Review(a, i, "approve") \/ Review(a, i, "reject")
  \/ \E w \in Workers : Finishing(w) \/ Dies(w)
  \/ SongGoes

Spec == Init /\ [][Next]_vars

(* What has begun goes on, in the same process, until it ends or dies. *)
Fairness ==
  /\ \A i \in Inquiries : WF_vars(Pipeline(i))
  /\ \A a \in Admins : WF_vars(Approve(a) \/ Reject(a))
  /\ \A w \in Workers : WF_vars(Finishing(w))

FairSpec == Spec /\ Fairness

-----------------------------------------------------------------------------

TypeOK ==
  /\ inquiry \in [Inquiries -> InquiryStatus]
  /\ action \in [Inquiries -> ActionStatus]
  /\ ask \in [Inquiries -> Answers \cup {Change, Nobody}]
  /\ song \in BOOLEAN /\ answers \subseteq Answers
  /\ pc \in [Workers -> Stages]
  /\ on \in [Admins -> Inquiries \cup {Nobody}]
  /\ \A a \in Admins : pc[a] # "idle" => on[a] \in Inquiries
  /\ goal \in [Workers -> InquiryStatus]
  /\ told \in [Inquiries -> Notified \cup {"none"}]
  /\ applied \subseteq Inquiries /\ overridden \subseteq Inquiries /\ cut \subseteq Inquiries

(* An answer is added on behalf of one reviewer at a time, whatever fails  *)
(* and whoever approves again, unless the pipeline wrote its own verdict   *)
(* over the claim of a reviewer who was quicker.                           *)
ExecutesAlone ==
  \A i \in Inquiries \ overridden : \A v, w \in Workers :
    Adds(i) /\ On(v) = i /\ On(w) = i /\ pc[v] \in Executing /\ pc[w] \in Executing => v = w

(* A claim has a claimant: an action that is approved or being executed,   *)
(* which for ADD_ANSWER nobody may approve again, is in somebody's hands,  *)
(* unless a call failed or a process died.                                 *)
ClaimHeld ==
  \A i \in Inquiries \ cut :
    action[i] \in Claimed => \E w \in Workers : On(w) = i /\ pc[w] \in Executing

(* What is shown or told to be done has been done. *)
CompletedApplied ==
  \A i \in Inquiries : "COMPLETED" \in {inquiry[i], told[i], action[i]} => i \in applied

(* The reason reject claims the action first: no executed action is left   *)
(* marked as rejected, once everyone involved is done.                     *)
Quiet(i) == \A w \in Workers : On(w) = i => pc[w] = "idle"
RejectedStands ==
  \A i \in Inquiries \ (cut \cup overridden) :
    Quiet(i) /\ inquiry[i] = "REJECTED" => action[i] # "COMPLETED"

(* An inquiry that was received is decided, unless it was cut. *)
Decided == \A i \in Inquiries : inquiry[i] = "RECEIVED" ~> inquiry[i] # "RECEIVED" \/ i \in cut
=============================================================================
