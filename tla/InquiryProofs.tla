--------------------------- MODULE InquiryProofs ---------------------------
(***************************************************************************)
(* Inquiry for all sets of inquiries, reviewers and answers.               *)
(*                                                                         *)
(* The inductive invariant adds to the checked ones what they rest on.     *)
(* Goals: what a worker is about to save.  Starts: an inquiry that is not  *)
(* judged yet has no action, and nobody reviews it.  Alone: who is engaged *)
(* with adding an answer, even if only to save that it is done and perhaps *)
(* to fail at it, is the only one, and nobody else may claim the action    *)
(* meanwhile.  Effective: who is to record a completion has acted.         *)
(***************************************************************************)
EXTENDS Inquiry, TLAPS

Outcomes == {"NO_MATCH", "REJECTED", "PENDING_REVIEW", "COMPLETED", "FAILED"}

GoalOK(w) ==
  /\ pc[w] = "finish" => goal[w] \in Outcomes
  /\ pc[w] = "tell" => goal[w] \in Notified
  /\ pc[w] = "insert" => Adds(On(w))
Goals == \A w \in Workers : GoalOK(w)

Starts ==
  /\ \A i \in Inquiries :
       /\ inquiry[i] = "none" \/ pc[i] \in {"counted", "judge"} => action[i] = "none"
       /\ pc[i] \notin {"idle", "counted"} => inquiry[i] # "none"
  /\ \A a \in Admins : on[a] \in Inquiries => action[on[a]] # "none"

Engaged(w) == pc[w] \in Executing \/ (pc[w] = "finish" /\ goal[w] = "COMPLETED")

Alone ==
  \A i \in Inquiries \ overridden : \A w \in Workers :
    Adds(i) /\ On(w) = i /\ Engaged(w) =>
      /\ action[i] \in Claimed \cup {"COMPLETED"}
      /\ \A v \in Workers : On(v) = i /\ Engaged(v) => v = w

MayRecord(w) ==
  pc[w] = "complete" \/ (pc[w] \in {"finish", "tell"} /\ goal[w] = "COMPLETED")
Effective ==
  /\ CompletedApplied
  /\ \A w \in Workers : MayRecord(w) => On(w) \in applied

IInv == TypeOK /\ Goals /\ Starts /\ Alone /\ ClaimHeld /\ Effective

-----------------------------------------------------------------------------
(* What the helpers do. *)

(* A worker that is busy is busy with an inquiry. *)
LEMMA OnType ==
  ASSUME TypeOK, NEW w \in Workers, pc[w] # "idle"
  PROVE  On(w) \in Inquiries
  BY DEF TypeOK, Workers, On

(* Who goes on stays with its inquiry. *)
LEMMA GotoFacts ==
  ASSUME TypeOK, NEW w \in Workers, NEW stage \in Stages, Goto(w, stage)
  PROVE  /\ pc' \in [Workers -> Stages] /\ pc'[w] = stage
         /\ \A v \in Workers : v # w => pc'[v] = pc[v]
         /\ on' = on /\ goal' = goal
  BY DEF TypeOK, Goto

(* Who finishes stays with its inquiry. *)
LEMMA FinishFacts ==
  ASSUME TypeOK, NEW w \in Workers, NEW status \in InquiryStatus, Finish(w, status)
  PROVE  /\ pc' \in [Workers -> Stages] /\ pc'[w] = "finish"
         /\ goal' \in [Workers -> InquiryStatus] /\ goal'[w] = status
         /\ \A v \in Workers : v # w => pc'[v] = pc[v] /\ goal'[v] = goal[v]
         /\ on' = on
  BY DEF TypeOK, Finish, Stages, Executing

(* Who ends is idle; nobody else is disturbed. *)
LEMMA EndFacts ==
  ASSUME TypeOK, NEW w \in Workers, End(w)
  PROVE  /\ pc' \in [Workers -> Stages] /\ pc'[w] = "idle"
         /\ goal' \in [Workers -> InquiryStatus] /\ goal'[w] = "none"
         /\ on' \in [Admins -> Inquiries \cup {Nobody}]
         /\ \A v \in Workers : v # w => pc'[v] = pc[v] /\ goal'[v] = goal[v]
         /\ \A a \in Admins : a # w => on'[a] = on[a]
         /\ \A a \in Admins : a = w => on'[a] = Nobody
  BY DEF TypeOK, End, Stages, Executing, InquiryStatus

(* A transition changes one action. *)
LEMMA TransitionFacts ==
  ASSUME TypeOK, NEW w \in Workers, On(w) \in Inquiries, NEW status \in ActionStatus,
         Transition(w, status)
  PROVE  /\ action' \in [Inquiries -> ActionStatus] /\ action'[On(w)] = status
         /\ \A i \in Inquiries : i # On(w) => action'[i] = action[i]
  BY DEF TypeOK, Transition

(* A step of w leaves the other workers and the other inquiries alone. *)
Apart(w) ==
  /\ \A v \in Workers \ {w} : UNCHANGED <<pc[v], goal[v], On(v)>>
  /\ \A i \in Inquiries \ {On(w)} : UNCHANGED <<action[i], ask[i]>>

Acts(w) ==
  \/ w \in Inquiries /\ (Submit(w) \/ Pipeline(w))
  \/ w \in Admins /\ (Approve(w) \/ Reject(w))
  \/ w \in Admins /\ \E i \in Inquiries, which \in {"approve", "reject"} : Review(w, i, which)
  \/ Finishing(w) \/ Dies(w)

(* Every step but the vanishing of the song is a step of one worker. *)
LEMMA ActsApart ==
  ASSUME TypeOK, NEW w \in Workers, Acts(w)
  PROVE  Apart(w)
<1> USE WorkersAssumption DEF Stages, Executing, InquiryStatus, ActionStatus, Claimed, Notified
<1>1. \A v \in Workers \ {w} : UNCHANGED <<pc[v], goal[v], on>> => UNCHANGED <<pc[v], goal[v], On(v)>>
  BY DEF On
<1>2. ASSUME NEW stage, Goto(w, stage) PROVE \A v \in Workers \ {w} : UNCHANGED <<pc[v], goal[v], On(v)>>
  BY <1>2 DEF Goto, TypeOK, On
<1>3. ASSUME NEW status, Finish(w, status) PROVE \A v \in Workers \ {w} : UNCHANGED <<pc[v], goal[v], On(v)>>
  BY <1>3 DEF Finish, TypeOK, On
<1>4. ASSUME End(w) PROVE \A v \in Workers \ {w} : UNCHANGED <<pc[v], goal[v], On(v)>>
  BY <1>4 DEF End, TypeOK, On, Workers
<1>5. ASSUME NEW i \in Inquiries, NEW which, w \in Admins, Review(w, i, which)
      PROVE  \A v \in Workers \ {w} : UNCHANGED <<pc[v], goal[v], On(v)>>
  BY <1>5 DEF Review, TypeOK, On, Workers
<1>6. \A v \in Workers \ {w} : UNCHANGED <<pc[v], goal[v], On(v)>>
  BY <1>2, <1>3, <1>4, <1>5
     DEF Acts, Submit, Pipeline, SaveInquiry, Judge, LogProposed, Low, Medium, High, Verdict,
         Approve, Reject, Finishing, Execute, Act, Insert, Complete, Fail, FinishSaves, Tell, Dies,
         TransitionThrows
<1>7. \A i \in Inquiries \ {On(w)} : UNCHANGED <<action[i], ask[i]>>
  BY DEF Acts, Submit, Pipeline, SaveInquiry, Judge, LogProposed, Low, Medium, High, Verdict,
         Approve, Reject, Review, Finishing, Execute, Act, Insert, Complete, Fail, FinishSaves, Tell,
         Dies, TransitionThrows, Transition, TypeOK, On
<1>8. QED
  BY <1>6, <1>7 DEF Apart

-----------------------------------------------------------------------------
(* Type correctness. *)

WorkerTypes ==
  /\ pc \in [Workers -> Stages]
  /\ on \in [Admins -> Inquiries \cup {Nobody}]
  /\ \A a \in Admins : pc[a] # "idle" => on[a] \in Inquiries
  /\ goal \in [Workers -> InquiryStatus]

(* A worker that goes on, finishes or ends keeps its types. *)
LEMMA WorkerType ==
  ASSUME TypeOK, NEW w \in Workers, pc[w] # "idle" \/ w \in Inquiries,
         \/ \E stage \in Stages : Goto(w, stage)
         \/ \E status \in InquiryStatus : Finish(w, status)
         \/ End(w)
  PROVE  WorkerTypes'
<1> USE WorkersAssumption
<1>1. CASE \E stage \in Stages : Goto(w, stage)
  BY <1>1 DEF TypeOK, WorkerTypes, Goto, Workers
<1>2. CASE \E status \in InquiryStatus : Finish(w, status)
  BY <1>2 DEF TypeOK, WorkerTypes, Finish, Workers, Stages
<1>3. CASE End(w)
  BY <1>3 DEF TypeOK, WorkerTypes, End, Workers, Stages, Executing, InquiryStatus
<1>4. QED
  BY <1>1, <1>2, <1>3

(* Every step keeps every variable in its type. *)
LEMMA TypeStep == TypeOK /\ Goals /\ [Next]_vars => TypeOK'
<1> SUFFICES ASSUME TypeOK, Goals, [Next]_vars PROVE TypeOK'
  OBVIOUS
<1> USE DEF Stages, Executing, InquiryStatus, ActionStatus, Claimed, Notified, world
<1>1. CASE UNCHANGED vars
  BY <1>1 DEF vars, TypeOK
<1>2. CASE SongGoes
  BY <1>2 DEF SongGoes, TypeOK
<1>3. ASSUME NEW a \in Admins, NEW i \in Inquiries, NEW which \in {"approve", "reject"},
             Review(a, i, which)
      PROVE  TypeOK'
  BY <1>3, WorkersAssumption DEF Review, TypeOK, Workers
<1>4. ASSUME NEW i \in Inquiries, Submit(i) \/ SaveInquiry(i) \/ LogProposed(i) PROVE TypeOK'
  <2>1. WorkerTypes'
    BY <1>4, WorkerType DEF Submit, SaveInquiry, LogProposed, Workers
  <2>2. QED
    BY <1>4, <2>1 DEF Submit, SaveInquiry, LogProposed, TypeOK, WorkerTypes, Cut, On
<1>5. ASSUME NEW i \in Inquiries, Judge(i) PROVE TypeOK'
  <2>1. WorkerTypes'
    BY <1>5, WorkerType DEF Judge, Workers
  <2>2. QED
    BY <1>5, <2>1 DEF Judge, TypeOK, WorkerTypes, Cut, On
<1>6. ASSUME NEW i \in Inquiries, Low(i) \/ Medium(i) \/ High(i) PROVE TypeOK'
  <2>1. WorkerTypes'
    BY <1>6, WorkerType DEF Low, Medium, High, Verdict, TransitionThrows, Workers
  <2>2. QED
    BY <1>6, <2>1
       DEF Low, Medium, High, Verdict, TransitionThrows, Transition, Cut, On, TypeOK, WorkerTypes
<1>7. ASSUME NEW w \in Workers, Approve(w) \/ Reject(w) \/ Execute(w) \/ Complete(w) \/ Fail(w)
      PROVE  TypeOK'
  <2>1. WorkerTypes'
    BY <1>7, WorkerType DEF Approve, Reject, Execute, Complete, Fail, TransitionThrows
  <2>2. On(w) \in Inquiries
    BY <1>7, OnType DEF Approve, Reject, Execute, Complete, Fail
  <2>3. action' \in [Inquiries -> ActionStatus]
    BY <1>7, <2>2 DEF Approve, Reject, Execute, Complete, Fail, TransitionThrows, Transition, TypeOK
  <2>4. cut' \subseteq Inquiries
    BY <1>7, <2>2 DEF Approve, Reject, Execute, Complete, Fail, TransitionThrows, Cut, TypeOK
  <2>5. UNCHANGED <<inquiry, ask, world, told, overridden>>
    BY <1>7 DEF Approve, Reject, Execute, Complete, Fail
  <2>6. QED
    BY <2>1, <2>3, <2>4, <2>5 DEF TypeOK, WorkerTypes
<1>8. ASSUME NEW w \in Workers, Act(w) \/ Insert(w) PROVE TypeOK'
  <2>1. WorkerTypes'
    BY <1>8, WorkerType DEF Act, Insert
  <2>2. On(w) \in Inquiries
    BY <1>8, OnType DEF Act, Insert
  <2>3. applied' \subseteq Inquiries
    BY <1>8, <2>2 DEF Act, Insert, Apply, TypeOK
  <2>4. answers' \subseteq Answers
    BY <1>8 DEF Act, Insert, TypeOK, Goals, GoalOK, Adds
  <2>5. UNCHANGED <<inquiry, action, ask, song, told, overridden, cut>>
    BY <1>8 DEF Act, Insert
  <2>6. QED
    BY <2>1, <2>3, <2>4, <2>5 DEF TypeOK, WorkerTypes
<1>9. ASSUME NEW w \in Workers, FinishSaves(w) \/ Tell(w) \/ Dies(w) PROVE TypeOK'
  <2>1. WorkerTypes'
    BY <1>9, WorkerType DEF FinishSaves, Tell, Dies
  <2>2. On(w) \in Inquiries
    BY <1>9, OnType DEF FinishSaves, Tell, Dies
  <2>3. inquiry' \in [Inquiries -> InquiryStatus]
    BY <1>9, <2>2 DEF FinishSaves, Save, Tell, Dies, TypeOK
  <2>4. told' \in [Inquiries -> Notified \cup {"none"}]
    BY <1>9, <2>2 DEF FinishSaves, Tell, Dies, TypeOK, Goals, GoalOK
  <2>5. cut' \subseteq Inquiries
    BY <1>9, <2>2 DEF FinishSaves, Tell, Dies, Cut, TypeOK
  <2>6. UNCHANGED <<action, ask, world, overridden>>
    BY <1>9 DEF FinishSaves, Tell, Dies
  <2>7. QED
    BY <2>1, <2>3, <2>4, <2>5, <2>6 DEF TypeOK, WorkerTypes
<1>10. QED
  BY <1>1, <1>2, <1>3, <1>4, <1>5, <1>6, <1>7, <1>8, <1>9
     DEF Next, Pipeline, Finishing, Workers

-----------------------------------------------------------------------------
(* Goals and starts. *)

(* Every step leaves proper goals. *)
LEMMA GoalsStep == TypeOK /\ Goals /\ Starts /\ [Next]_vars => Goals'
<1> SUFFICES ASSUME TypeOK, Goals, Starts, [Next]_vars PROVE Goals'
  OBVIOUS
<1> USE DEF Stages, Executing, InquiryStatus, Claimed, Notified, world
<1>1. CASE UNCHANGED vars
  BY <1>1 DEF vars, Goals, GoalOK, Adds, On
<1>2. CASE SongGoes
  BY <1>2 DEF SongGoes, Goals, GoalOK, Adds, On
<1>3. ASSUME NEW w \in Workers, Apart(w), ask' = ask, GoalOK(w)' PROVE Goals'
  BY <1>3 DEF Goals, GoalOK, Apart, Adds
<1>4. ASSUME NEW i \in Inquiries, Judge(i) PROVE Goals'
  <2>1. i \in Workers /\ Apart(i)
    BY <1>4, ActsApart DEF Acts, Pipeline, Workers
  <2>2. GoalOK(i)'
    BY <1>4, <2>1, GotoFacts, FinishFacts, EndFacts DEF Judge, GoalOK, Outcomes
  <2>3. ASSUME NEW v \in Workers \ {i} PROVE GoalOK(v)'
    <3>1. On(v) = i => pc[v] = "idle"
      BY <1>4, <2>3 DEF Judge, Starts, TypeOK, On, Workers
    <3>2. On(v) # i => (pc[v] = "insert" => Adds(On(v))')
      <4>1. ASSUME On(v) # i, pc[v] = "insert" PROVE On(v) \in Inquiries \ {On(i)} /\ Adds(On(v))
        BY <4>1, OnType DEF Goals, GoalOK, On
      <4>2. ASSUME On(v) # i, pc[v] = "insert" PROVE ask'[On(v)] = ask[On(v)] /\ On(v)' = On(v)
        BY <4>1, <4>2, <2>1, <2>3 DEF Apart
      <4>3. QED
        BY <4>1, <4>2 DEF Adds
    <3>3. pc'[v] = pc[v] /\ goal'[v] = goal[v]
      BY <2>1, <2>3 DEF Apart
    <3>4. QED
      BY <3>1, <3>2, <3>3 DEF Goals, GoalOK
  <2>4. QED
    BY <2>2, <2>3 DEF Goals
<1>5. ASSUME NEW i \in Inquiries, Submit(i) \/ SaveInquiry(i) \/ LogProposed(i) PROVE Goals'
  <2>1. i \in Workers /\ Apart(i) /\ ask' = ask
    BY <1>5, ActsApart DEF Acts, Pipeline, Workers, Submit, SaveInquiry, LogProposed
  <2>2. GoalOK(i)'
    BY <1>5, <2>1, GotoFacts, EndFacts DEF Submit, SaveInquiry, LogProposed, GoalOK
  <2>3. QED
    BY <1>3, <2>1, <2>2
<1>6. ASSUME NEW i \in Inquiries, Low(i) \/ Medium(i) \/ High(i) PROVE Goals'
  <2>1. i \in Workers /\ Apart(i) /\ ask' = ask
    BY <1>6, ActsApart DEF Acts, Pipeline, Workers, Low, Medium, High, Verdict
  <2>2. GoalOK(i)'
    BY <1>6, <2>1, GotoFacts, FinishFacts, EndFacts
       DEF Low, Medium, High, Verdict, TransitionThrows, GoalOK, Outcomes
  <2>3. QED
    BY <1>3, <2>1, <2>2
<1>7. ASSUME NEW a \in Admins, Approve(a) \/ Reject(a) PROVE Goals'
  <2>1. a \in Workers /\ Apart(a) /\ ask' = ask
    BY <1>7, ActsApart DEF Acts, Workers, Approve, Reject
  <2>2. GoalOK(a)'
    BY <1>7, <2>1, GotoFacts, FinishFacts, EndFacts
       DEF Approve, Reject, TransitionThrows, GoalOK, Outcomes
  <2>3. QED
    BY <1>3, <2>1, <2>2
<1>8. ASSUME NEW a \in Admins, NEW i \in Inquiries, NEW which \in {"approve", "reject"},
             Review(a, i, which)
      PROVE  Goals'
  <2>1. a \in Workers /\ Apart(a) /\ ask' = ask
    BY <1>8, ActsApart DEF Acts, Workers, Review
  <2>2. GoalOK(a)'
    BY <1>8, <2>1 DEF Review, GoalOK, TypeOK
  <2>3. QED
    BY <1>3, <2>1, <2>2
<1>9. ASSUME NEW w \in Workers, Finishing(w) \/ Dies(w) PROVE Goals'
  <2>1. Apart(w) /\ ask' = ask
    BY <1>9, ActsApart
       DEF Acts, Finishing, Execute, Act, Insert, Complete, Fail, FinishSaves, Tell, Dies
  <2>2. CASE Execute(w) \/ Insert(w) \/ Tell(w) \/ Dies(w)
    BY <2>1, <2>2, <1>3, GotoFacts, EndFacts
       DEF Execute, Insert, Tell, Dies, TransitionThrows, GoalOK
  <2>3. CASE Act(w)
    <3>1. pc'[w] \in {"fail", "complete"} \/ (pc'[w] = "insert" /\ Adds(On(w)))
      BY <2>3, GotoFacts DEF Act, Adds
    <3>2. Adds(On(w))' = Adds(On(w))
      BY <2>1, <2>3, GotoFacts DEF Act, Adds, On
    <3>3. QED
      BY <1>3, <2>1, <3>1, <3>2 DEF GoalOK
  <2>4. CASE Complete(w) \/ Fail(w)
    BY <2>1, <2>4, <1>3, GotoFacts, FinishFacts, EndFacts
       DEF Complete, Fail, TransitionThrows, GoalOK, Outcomes
  <2>5. CASE FinishSaves(w)
    BY <2>1, <2>5, <1>3, GotoFacts, EndFacts DEF FinishSaves, GoalOK
  <2>6. QED
    BY <1>9, <2>2, <2>3, <2>4, <2>5 DEF Finishing
<1>10. QED
  BY <1>1, <1>2, <1>4, <1>5, <1>6, <1>7, <1>8, <1>9 DEF Next, Pipeline

(* Once an inquiry is judged, what is done for it leaves it judged. *)
LEMMA LateStarts ==
  ASSUME TypeOK, Starts, NEW w \in Workers, NEW j \in Inquiries, On(w) = j, Apart(w),
         pc[w] # "idle", pc[w] # "counted", pc'[w] \notin {"counted", "judge"},
         inquiry'[j] # "none", \A i \in Inquiries : i # j => inquiry'[i] = inquiry[i],
         action[j] # "none" => action'[j] # "none",
         \A a \in Admins : on'[a] \in {on[a], Nobody}
  PROVE  Starts'
<1> USE WorkersAssumption
<1>1. ASSUME NEW i \in Inquiries
      PROVE  /\ inquiry'[i] = "none" \/ pc'[i] \in {"counted", "judge"} => action'[i] = "none"
             /\ pc'[i] \notin {"idle", "counted"} => inquiry'[i] # "none"
  <2>1. CASE i # j
    BY <2>1 DEF Starts, Apart, Workers, On
  <2>2. CASE i = j /\ w = j
    BY <2>2
  <2>3. CASE i = j /\ w # j
    <3>1. w \in Admins /\ on[w] = j
      BY <2>3 DEF Workers, On
    <3>2. pc'[j] = pc[j] /\ pc[j] \notin {"counted", "judge"}
      BY <2>3, <3>1 DEF Starts, Apart, Workers
    <3>3. QED
      BY <2>3, <3>2
  <2>4. QED
    BY <2>1, <2>2, <2>3
<1>2. ASSUME NEW a \in Admins, on'[a] \in Inquiries PROVE action'[on'[a]] # "none"
  <2>1. on'[a] = on[a] /\ action[on[a]] # "none"
    BY <1>2 DEF Starts
  <2>2. QED
    BY <2>1, <1>2 DEF Apart
<1>3. QED
  BY <1>1, <1>2 DEF Starts

(* Nothing happens to an action before its inquiry is judged. *)
LEMMA StartsStep == TypeOK /\ Goals /\ Starts /\ [Next]_vars => Starts'
<1> SUFFICES ASSUME TypeOK, Goals, Starts, [Next]_vars PROVE Starts'
  OBVIOUS
<1> USE WorkersAssumption DEF Stages, Executing, InquiryStatus, ActionStatus, Claimed, Notified, world
<1>1. CASE UNCHANGED vars
  BY <1>1 DEF vars, Starts
<1>2. CASE SongGoes
  BY <1>2 DEF SongGoes, Starts
<1>3. ASSUME NEW i \in Inquiries, Submit(i) PROVE Starts'
  BY <1>3, GotoFacts DEF Submit, Starts, Workers
<1>4. ASSUME NEW i \in Inquiries, SaveInquiry(i) PROVE Starts'
  <2>1. i \in Workers /\ Apart(i) /\ action' = action
    BY <1>4, ActsApart DEF Acts, Pipeline, Workers, SaveInquiry
  <2>2. action[i] = "none" /\ \A j \in Inquiries : j # i => inquiry'[j] = inquiry[j]
    BY <1>4 DEF SaveInquiry, Starts, TypeOK
  <2>3. pc'[i] \notin {"idle", "counted"} => inquiry'[i] # "none"
    BY <1>4, <2>1, GotoFacts, EndFacts DEF SaveInquiry, TypeOK
  <2>4. \A a \in Admins : on'[a] = on[a]
    BY <1>4, <2>1, GotoFacts, EndFacts DEF SaveInquiry, Workers
  <2>5. \A j \in Inquiries : j # i => pc'[j] = pc[j]
    BY <2>1 DEF Apart, Workers
  <2>6. QED
    BY <2>1, <2>2, <2>3, <2>4, <2>5 DEF Starts
<1>5. ASSUME NEW a \in Admins, NEW i \in Inquiries, NEW which \in {"approve", "reject"},
             Review(a, i, which)
      PROVE  Starts'
  BY <1>5 DEF Review, Starts, TypeOK, Workers
<1>6. ASSUME NEW w \in Workers, Dies(w) PROVE Starts'
  BY <1>6, EndFacts DEF Dies, Starts, Workers
<1>7. ASSUME NEW i \in Inquiries, Judge(i) \/ LogProposed(i) \/ Low(i) \/ Medium(i) \/ High(i)
      PROVE  Starts'
  <2>1. i \in Workers /\ On(i) = i /\ Apart(i) /\ inquiry' = inquiry
    BY <1>7, ActsApart DEF Acts, Pipeline, Workers, On, Judge, LogProposed, Low, Medium, High, Verdict
  <2>2. pc[i] \notin {"idle", "counted"}
    BY <1>7 DEF Judge, LogProposed, Low, Medium, High, Verdict
  <2>3. pc'[i] \notin {"counted", "judge"} /\ \A a \in Admins : on'[a] = on[a]
    BY <1>7, <2>1, GotoFacts, FinishFacts, EndFacts
       DEF Judge, LogProposed, Low, Medium, High, Verdict, TransitionThrows, Workers
  <2>4. action[i] # "none" => action'[i] # "none"
    BY <1>7, <2>1 DEF Judge, LogProposed, Low, Medium, High, Verdict, TransitionThrows, Transition, TypeOK
  <2>5. inquiry[i] # "none"
    BY <2>2 DEF Starts
  <2>6. QED
    BY <2>1, <2>2, <2>3, <2>4, <2>5, LateStarts
<1>8. ASSUME NEW w \in Workers, (w \in Admins /\ (Approve(w) \/ Reject(w))) \/ Finishing(w)
      PROVE  Starts'
  <2>1. Apart(w)
    BY <1>8, ActsApart DEF Acts
  <2>2. pc[w] \notin {"idle", "counted", "judge"} /\ On(w) \in Inquiries
    BY <1>8, OnType
       DEF Approve, Reject, Finishing, Execute, Act, Insert, Complete, Fail, FinishSaves, Tell
  <2>3. pc'[w] \notin {"counted", "judge"}
    BY <1>8, GotoFacts, FinishFacts, EndFacts
       DEF Approve, Reject, Finishing, Execute, Act, Insert, Complete, Fail, FinishSaves, Tell,
           TransitionThrows
  <2>4. \A a \in Admins : on'[a] \in {on[a], Nobody}
    BY <1>8, GotoFacts, FinishFacts, EndFacts
       DEF Approve, Reject, Finishing, Execute, Act, Insert, Complete, Fail, FinishSaves, Tell,
           TransitionThrows
  <2>5. action[On(w)] # "none" => action'[On(w)] # "none"
    BY <1>8, <2>2
       DEF Approve, Reject, Finishing, Execute, Act, Insert, Complete, Fail, FinishSaves, Tell,
           TransitionThrows, Transition, TypeOK
  <2>6. inquiry[On(w)] # "none"
    BY <2>2 DEF Starts, On, Workers
  <2>7. inquiry'[On(w)] # "none" /\ \A i \in Inquiries : i # On(w) => inquiry'[i] = inquiry[i]
    <3>1. CASE FinishSaves(w)
      BY <3>1, <2>2, <2>6 DEF FinishSaves, Save, Goals, GoalOK, Outcomes, TypeOK
    <3>2. CASE ~FinishSaves(w)
      BY <1>8, <2>6, <3>2 DEF Approve, Reject, Finishing, Execute, Act, Insert, Complete, Fail, Tell
    <3>3. QED
      BY <3>1, <3>2
  <2>8. QED
    BY <2>1, <2>2, <2>3, <2>4, <2>5, <2>7, LateStarts
<1>9. QED
  BY <1>1, <1>2, <1>3, <1>4, <1>5, <1>6, <1>7, <1>8 DEF Next, Pipeline, Workers

-----------------------------------------------------------------------------
(* Claims. *)

(* Who is not engaged after a step that changes no action disturbs nobody. *)
LEMMA AsideAlone ==
  ASSUME TypeOK, Alone, NEW w \in Workers, Apart(w), ~Engaged(w)',
         UNCHANGED <<action, ask, overridden>>
  PROVE  Alone'
<1>1. \A v \in Workers : Engaged(v)' => v # w /\ Engaged(v) /\ On(v)' = On(v)
  BY DEF Apart, Engaged
<1>2. QED
  BY <1>1 DEF Alone, Adds

(* Where nobody is engaged, one may engage who has claimed the action. *)
LEMMA ClaimAlone ==
  ASSUME TypeOK, Alone, NEW w \in Workers, NEW j \in Inquiries, On(w) = j,
         Apart(w), overridden \subseteq overridden',
         \/ j \in overridden' \/ ~Adds(j)'
         \/ \A v \in Workers : On(v) = j => ~Engaged(v),
         Engaged(w)' => On(w)' = j /\ action'[j] \in Claimed \cup {"COMPLETED"}
  PROVE  Alone'
<1> SUFFICES ASSUME NEW i \in Inquiries, i \notin overridden', NEW v \in Workers,
                    Adds(i)', On(v)' = i, Engaged(v)'
             PROVE  /\ action'[i] \in Claimed \cup {"COMPLETED"}
                    /\ \A u \in Workers : On(u)' = i /\ Engaged(u)' => u = v
  BY DEF Alone
<1>1. \A u \in Workers : u # w /\ Engaged(u)' => Engaged(u) /\ On(u) = On(u)'
  BY DEF Apart, Engaged
<1>2. CASE i = j
  <2>1. \A u \in Workers : On(u)' = i /\ Engaged(u)' => u = w
    BY <1>1, <1>2
  <2>2. QED
    BY <2>1, <1>2
<1>3. CASE i # j
  <2>1. action'[i] = action[i] /\ Adds(i)
    BY <1>3 DEF Apart, Adds
  <2>2. \A u \in Workers : On(u)' = i /\ Engaged(u)' => u # w /\ On(u) = i /\ Engaged(u)
    BY <1>1, <1>3
  <2>3. QED
    BY <2>1, <2>2 DEF Alone
<1>4. QED
  BY <1>2, <1>3

(* Who is engaged may go on, or stop, as long as the action stays claimed. *)
LEMMA EngagedAlone ==
  ASSUME TypeOK, Alone, NEW w \in Workers, Apart(w), Engaged(w), On(w)' = On(w) \/ ~Engaged(w)',
         Engaged(w)' => action'[On(w)] \in Claimed \cup {"COMPLETED", action[On(w)]},
         UNCHANGED <<ask, overridden>>
  PROVE  Alone'
<1> SUFFICES ASSUME NEW i \in Inquiries, i \notin overridden, NEW v \in Workers,
                    Adds(i), On(v)' = i, Engaged(v)'
             PROVE  /\ action'[i] \in Claimed \cup {"COMPLETED"}
                    /\ \A u \in Workers : On(u)' = i /\ Engaged(u)' => u = v
  BY DEF Alone, Adds
<1>1. \A u \in Workers : Engaged(u)' => Engaged(u) /\ On(u) = On(u)'
  BY DEF Apart, Engaged
<1>2. \A u \in Workers : On(u)' = i /\ Engaged(u)' => u = v
  BY <1>1 DEF Alone
<1>3. action[i] \in Claimed \cup {"COMPLETED"} /\ On(v) = i /\ Engaged(v)
  BY <1>1 DEF Alone
<1>4. CASE v = w
  <2>1. action'[i] \in Claimed \cup {"COMPLETED", action[i]}
    BY <1>3, <1>4
  <2>2. QED
    BY <1>2, <1>3, <2>1
<1>5. CASE v # w
  <2>1. On(w) # i
    BY <1>3, <1>5 DEF Alone
  <2>2. action'[i] = action[i]
    BY <2>1 DEF Apart
  <2>3. QED
    BY <1>2, <1>3, <2>2
<1>6. QED
  BY <1>4, <1>5

(* Nobody engages where somebody is engaged. *)
LEMMA AloneStep == TypeOK /\ Starts /\ Alone /\ [Next]_vars => Alone'
<1> SUFFICES ASSUME TypeOK, Starts, Alone, [Next]_vars PROVE Alone'
  OBVIOUS
<1> USE WorkersAssumption DEF world, Executing, Stages, InquiryStatus, ActionStatus, Claimed, Notified
<1>1. CASE UNCHANGED vars
  BY <1>1 DEF vars, Alone, Engaged, Adds, On
<1>2. CASE SongGoes
  BY <1>2 DEF SongGoes, Alone, Engaged, Adds, On
<1>3. ASSUME NEW i \in Inquiries, Submit(i) \/ SaveInquiry(i) \/ LogProposed(i) PROVE Alone'
  <2>1. i \in Workers /\ Apart(i)
    BY <1>3, ActsApart DEF Acts, Pipeline, Workers
  <2>2. ~Engaged(i)'
    BY <1>3, <2>1, GotoFacts, EndFacts DEF Submit, SaveInquiry, LogProposed, Engaged
  <2>3. UNCHANGED <<action, ask, overridden>>
    BY <1>3 DEF Submit, SaveInquiry, LogProposed
  <2>4. QED
    BY <2>1, <2>2, <2>3, AsideAlone
<1>4. ASSUME NEW i \in Inquiries, Judge(i) PROVE Alone'
  <2>1. i \in Workers /\ On(i) = i /\ Apart(i) /\ overridden' = overridden
    BY <1>4, ActsApart DEF Acts, Pipeline, Workers, On, Judge
  <2>2. ~Engaged(i)'
    BY <1>4, <2>1, GotoFacts, FinishFacts, EndFacts DEF Judge, Engaged
  <2>3. \A v \in Workers : On(v) = i => ~Engaged(v)
    BY <1>4 DEF Judge, Starts, Engaged, TypeOK, On, Workers
  <2>4. QED
    BY <2>1, <2>2, <2>3, ClaimAlone
<1>5. ASSUME NEW i \in Inquiries, Low(i) \/ Medium(i) \/ High(i) PROVE Alone'
  <2>1. i \in Workers /\ On(i) = i /\ Apart(i) /\ overridden \subseteq overridden' /\ ask' = ask
    BY <1>5, ActsApart DEF Acts, Pipeline, Workers, On, Low, Medium, High, Verdict
  <2>2. Engaged(i)' => On(i)' = i /\ action'[i] = "APPROVED"
    BY <1>5, <2>1, GotoFacts, FinishFacts, EndFacts, TransitionFacts
       DEF Low, Medium, High, Verdict, TransitionThrows, Engaged, On
  <2>3. action[i] = "PROPOSED" \/ i \in overridden'
    BY <1>5 DEF Low, Medium, High, Verdict
  <2>4. i \in overridden' \/ ~Adds(i) \/ \A v \in Workers : On(v) = i => ~Engaged(v)
    BY <2>1, <2>3 DEF Alone
  <2>5. ~Adds(i) => ~Adds(i)'
    BY <2>1 DEF Adds
  <2>6. QED
    BY <2>1, <2>2, <2>4, <2>5, ClaimAlone
<1>6. ASSUME NEW a \in Admins, NEW i \in Inquiries, NEW which \in {"approve", "reject"},
             Review(a, i, which)
      PROVE  Alone'
  <2>1. a \in Workers /\ Apart(a)
    BY <1>6, ActsApart DEF Acts, Workers
  <2>2. ~Engaged(a)' /\ UNCHANGED <<action, ask, overridden>>
    BY <1>6, <2>1 DEF Review, Engaged, TypeOK
  <2>3. QED
    BY <2>1, <2>2, AsideAlone
<1>7. ASSUME NEW a \in Admins, Approve(a) PROVE Alone'
  <2>1. /\ a \in Workers /\ On(a) = on[a] /\ on[a] \in Inquiries
        /\ Apart(a) /\ UNCHANGED <<ask, overridden>>
    BY <1>7, ActsApart, OnType DEF Acts, Workers, On, Approve
  <2>2. CASE MayApprove(on[a])
    <3>1. \/ ~Adds(on[a]) \/ on[a] \in overridden
          \/ \A v \in Workers : On(v) = on[a] => ~Engaged(v)
      BY <2>1, <2>2 DEF MayApprove, Alone
    <3>2. Engaged(a)' => On(a)' = on[a] /\ action'[on[a]] = "APPROVED"
      BY <1>7, <2>1, <2>2, GotoFacts, EndFacts, TransitionFacts
         DEF Approve, TransitionThrows, Engaged, On
    <3>3. QED
      BY <2>1, <3>1, <3>2, ClaimAlone DEF Adds
  <2>3. CASE ~MayApprove(on[a])
    <3>1. ~Engaged(a)' /\ action' = action
      BY <1>7, <2>1, <2>3, EndFacts DEF Approve, Engaged
    <3>2. QED
      BY <2>1, <3>1, AsideAlone
  <2>4. QED
    BY <2>2, <2>3
<1>8. ASSUME NEW a \in Admins, Reject(a) PROVE Alone'
  <2>1. /\ a \in Workers /\ On(a) = on[a] /\ on[a] \in Inquiries
        /\ Apart(a) /\ UNCHANGED <<ask, overridden>>
    BY <1>8, ActsApart, OnType DEF Acts, Workers, On, Reject
  <2>2. ~Engaged(a)'
    BY <1>8, <2>1, FinishFacts, EndFacts DEF Reject, TransitionThrows, Engaged
  <2>3. CASE MayReject(on[a])
    <3>1. on[a] \in overridden \/ ~Adds(on[a]) \/ \A v \in Workers : On(v) = on[a] => ~Engaged(v)
      BY <2>1, <2>3 DEF MayReject, Alone
    <3>2. QED
      BY <2>1, <2>2, <3>1, ClaimAlone DEF Adds
  <2>4. CASE ~MayReject(on[a])
    BY <1>8, <2>1, <2>2, <2>4, AsideAlone DEF Reject
  <2>5. QED
    BY <2>3, <2>4
<1>9. ASSUME NEW w \in Workers, Execute(w) \/ Act(w) \/ Insert(w) \/ Complete(w) \/ Fail(w)
      PROVE  Alone'
  <2>1. Engaged(w) /\ On(w) \in Inquiries /\ Apart(w) /\ UNCHANGED <<ask, overridden>>
    <3>1. Apart(w)
      BY <1>9, ActsApart DEF Acts, Finishing
    <3>2. pc[w] \in Executing /\ UNCHANGED <<ask, overridden>>
      BY <1>9 DEF Execute, Act, Insert, Complete, Fail
    <3>3. On(w) \in Inquiries
      BY <3>2, OnType
    <3>4. Engaged(w)
      BY <3>2 DEF Engaged
    <3>5. QED
      BY <3>1, <3>2, <3>3, <3>4
  <2>2. CASE Execute(w)
    <3>1. Engaged(w)' => on' = on /\ action'[On(w)] = "EXECUTING"
      BY <2>1, <2>2, GotoFacts, EndFacts, TransitionFacts DEF Execute, TransitionThrows, Engaged
    <3>2. QED
      BY <2>1, <3>1, EngagedAlone DEF On
  <2>3. CASE Act(w) \/ Insert(w)
    <3>1. on' = on /\ action' = action
      BY <2>1, <2>3, GotoFacts DEF Act, Insert
    <3>2. QED
      BY <2>1, <3>1, EngagedAlone DEF On
  <2>4. CASE Complete(w)
    <3>1. on' = on /\ action'[On(w)] \in {"COMPLETED", action[On(w)]}
      BY <2>1, <2>4, GotoFacts, FinishFacts, TransitionFacts DEF Complete
    <3>2. QED
      BY <2>1, <3>1, EngagedAlone DEF On
  <2>5. CASE Fail(w)
    <3>1. ~Engaged(w)'
      BY <2>1, <2>5, FinishFacts, EndFacts DEF Fail, TransitionThrows, Engaged
    <3>2. QED
      BY <2>1, <3>1, EngagedAlone
  <2>6. QED
    BY <1>9, <2>2, <2>3, <2>4, <2>5
<1>10. ASSUME NEW w \in Workers, FinishSaves(w) PROVE Alone'
  <2>1. On(w) \in Inquiries /\ Apart(w) /\ UNCHANGED <<action, ask, overridden>>
    BY <1>10, ActsApart, OnType DEF Acts, Finishing, FinishSaves
  <2>2. Engaged(w)' => on' = on /\ Engaged(w)
    BY <1>10, GotoFacts, EndFacts DEF FinishSaves, Engaged
  <2>3. CASE Engaged(w)
    BY <2>1, <2>2, <2>3, EngagedAlone DEF On
  <2>4. CASE ~Engaged(w)
    BY <2>1, <2>2, <2>4, AsideAlone
  <2>5. QED
    BY <2>3, <2>4
<1>11. ASSUME NEW w \in Workers, Tell(w) \/ Dies(w) PROVE Alone'
  <2>1. Apart(w) /\ UNCHANGED <<action, ask, overridden>>
    BY <1>11, ActsApart DEF Acts, Finishing, Tell, Dies
  <2>2. ~Engaged(w)'
    BY <1>11, EndFacts DEF Tell, Dies, Engaged
  <2>3. QED
    BY <2>1, <2>2, AsideAlone
<1>12. QED
  BY <1>1, <1>2, <1>3, <1>4, <1>5, <1>6, <1>7, <1>8, <1>9, <1>10, <1>11
     DEF Next, Pipeline, Finishing

(* A claim is left by nobody but its claimant. *)
LEMMA ApartHeld ==
  ASSUME TypeOK, ClaimHeld, NEW w \in Workers, NEW j, On(w) = j, Apart(w), cut \subseteq cut',
         \/ j \in cut' \/ action'[j] \notin Claimed
         \/ pc'[w] \in Executing /\ On(w)' = j
         \/ action'[j] = action[j] /\ pc[w] \notin Executing
  PROVE  ClaimHeld'
<1> SUFFICES ASSUME NEW i \in Inquiries, i \notin cut', action'[i] \in Claimed
             PROVE  \E v \in Workers : On(v)' = i /\ pc'[v] \in Executing
  BY DEF ClaimHeld
<1>1. ASSUME action'[i] = action[i], j # i \/ pc[w] \notin Executing
      PROVE  \E v \in Workers : On(v)' = i /\ pc'[v] \in Executing
  <2>1. PICK v \in Workers : On(v) = i /\ pc[v] \in Executing
    BY <1>1 DEF ClaimHeld
  <2>2. v # w
    BY <1>1, <2>1
  <2>3. QED
    BY <2>1, <2>2 DEF Apart
<1>2. CASE i # j
  BY <1>1, <1>2 DEF Apart
<1>3. CASE i = j
  BY <1>1, <1>3
<1>4. QED
  BY <1>2, <1>3

(* Who gives up a claim withdraws it, or is cut. *)
LEMMA HeldStep == TypeOK /\ Starts /\ ClaimHeld /\ [Next]_vars => ClaimHeld'
<1> SUFFICES ASSUME TypeOK, Starts, ClaimHeld, [Next]_vars PROVE ClaimHeld'
  OBVIOUS
<1> USE DEF Stages, Executing, InquiryStatus, ActionStatus, Claimed, Notified, world
<1>1. CASE UNCHANGED vars
  BY <1>1 DEF vars, ClaimHeld, On
<1>2. CASE SongGoes
  BY <1>2 DEF SongGoes, ClaimHeld, On
<1>3. ASSUME NEW i \in Inquiries, Submit(i) \/ SaveInquiry(i) \/ LogProposed(i) PROVE ClaimHeld'
  <2>1. i \in Workers /\ Apart(i) /\ action' = action
    BY <1>3, ActsApart DEF Acts, Pipeline, Workers, Submit, SaveInquiry, LogProposed
  <2>2. pc[i] \notin Executing
    BY <1>3 DEF Submit, SaveInquiry, LogProposed
  <2>3. cut \subseteq cut'
    BY <1>3 DEF Submit, SaveInquiry, LogProposed, Cut
  <2>4. QED
    BY <2>1, <2>2, <2>3, ApartHeld
<1>4. ASSUME NEW i \in Inquiries, Judge(i) PROVE ClaimHeld'
  <2>1. i \in Workers /\ On(i) = i /\ Apart(i)
    BY <1>4, ActsApart DEF Acts, Pipeline, Workers, On
  <2>2. action'[i] \notin Claimed /\ cut \subseteq cut'
    BY <1>4 DEF Judge, Cut, Starts, TypeOK
  <2>3. QED
    BY <2>1, <2>2, ApartHeld
<1>5. ASSUME NEW i \in Inquiries, Low(i) \/ Medium(i) \/ High(i) PROVE ClaimHeld'
  <2>1. i \in Workers /\ On(i) = i /\ Apart(i) /\ cut \subseteq cut'
    BY <1>5, ActsApart DEF Acts, Pipeline, Workers, On, Low, Medium, High, Verdict, TransitionThrows, Cut
  <2>2. \/ i \in cut' \/ action'[i] \notin Claimed
        \/ pc'[i] \in Executing
    BY <1>5, <2>1, GotoFacts, TransitionFacts
       DEF Low, Medium, High, Verdict, TransitionThrows, Cut
  <2>3. On(i)' = i
    BY DEF On
  <2>4. QED
    BY <2>1, <2>2, <2>3, ApartHeld
<1>6. ASSUME NEW a \in Admins, NEW i \in Inquiries, NEW which \in {"approve", "reject"},
             Review(a, i, which)
      PROVE  ClaimHeld'
  <2>1. a \in Workers /\ Apart(a) /\ UNCHANGED <<action, cut>> /\ pc[a] \notin Executing
    BY <1>6, ActsApart DEF Acts, Workers, Review
  <2>2. QED
    BY <2>1, ApartHeld
<1>7. ASSUME NEW a \in Admins, Approve(a) \/ Reject(a) PROVE ClaimHeld'
  <2>1. a \in Workers /\ Apart(a) /\ On(a) \in Inquiries /\ pc[a] \notin Executing
    BY <1>7, ActsApart, OnType DEF Acts, Workers, Approve, Reject
  <2>2. cut \subseteq cut'
    BY <1>7 DEF Approve, Reject, TransitionThrows, Cut
  <2>3. \/ On(a) \in cut' \/ action'[On(a)] \notin Claimed
        \/ pc'[a] \in Executing /\ on' = on
        \/ action' = action
    BY <1>7, <2>1, GotoFacts, TransitionFacts DEF Approve, Reject, TransitionThrows, Cut
  <2>4. QED
    BY <2>1, <2>2, <2>3, ApartHeld DEF On
<1>8. ASSUME NEW w \in Workers, Finishing(w) PROVE ClaimHeld'
  <2>1. Apart(w) /\ On(w) \in Inquiries
    BY <1>8, ActsApart, OnType
       DEF Acts, Finishing, Execute, Act, Insert, Complete, Fail, FinishSaves, Tell
  <2>2. cut \subseteq cut'
    BY <1>8 DEF Finishing, Execute, Act, Insert, Complete, Fail, FinishSaves, Tell, TransitionThrows, Cut
  <2>3. CASE Execute(w) \/ Act(w) \/ Insert(w)
    <3>1. On(w) \in cut' \/ (pc'[w] \in Executing /\ on' = on)
      BY <2>1, <2>3, GotoFacts DEF Execute, Act, Insert, TransitionThrows, Cut
    <3>2. QED
      BY <2>1, <2>2, <3>1, ApartHeld DEF On
  <2>4. CASE Complete(w)
    <3>1. action'[On(w)] \notin Claimed \/ (pc'[w] \in Executing /\ on' = on)
      BY <2>1, <2>4, GotoFacts, TransitionFacts DEF Complete
    <3>2. QED
      BY <2>1, <2>2, <3>1, ApartHeld DEF On
  <2>5. CASE Fail(w)
    <3>1. On(w) \in cut' \/ action'[On(w)] \notin Claimed
      BY <2>1, <2>5, TransitionFacts DEF Fail, TransitionThrows, Cut
    <3>2. QED
      BY <2>1, <2>2, <3>1, ApartHeld
  <2>6. CASE FinishSaves(w) \/ Tell(w)
    <3>1. action' = action /\ pc[w] \notin Executing
      BY <2>6 DEF FinishSaves, Tell
    <3>2. QED
      BY <2>1, <2>2, <3>1, ApartHeld
  <2>7. QED
    BY <1>8, <2>3, <2>4, <2>5, <2>6 DEF Finishing
<1>9. ASSUME NEW w \in Workers, Dies(w) PROVE ClaimHeld'
  <2>1. Apart(w) /\ On(w) \in cut' /\ cut \subseteq cut'
    BY <1>9, ActsApart DEF Acts, Dies, Cut
  <2>2. QED
    BY <2>1, ApartHeld
<1>10. QED
  BY <1>1, <1>2, <1>3, <1>4, <1>5, <1>6, <1>7, <1>8, <1>9 DEF Next, Pipeline

-----------------------------------------------------------------------------
(* Effects. *)

(* One worker records no more than it has done. *)
LEMMA ApartEffective ==
  ASSUME TypeOK, Effective, NEW w \in Workers, Apart(w), applied \subseteq applied',
         MayRecord(w)' => On(w)' \in applied',
         \A i \in Inquiries : "COMPLETED" \in {inquiry'[i], told'[i], action'[i]} =>
           i \in applied' \/ "COMPLETED" \in {inquiry[i], told[i], action[i]}
  PROVE  Effective'
<1>1. \A v \in Workers : MayRecord(v)' => On(v)' \in applied'
  BY DEF Effective, MayRecord, Apart
<1>2. CompletedApplied'
  BY DEF Effective, CompletedApplied
<1>3. QED
  BY <1>1, <1>2 DEF Effective

(* Nothing is recorded that was not done. *)
LEMMA EffectiveStep == TypeOK /\ Goals /\ Effective /\ [Next]_vars => Effective'
<1> SUFFICES ASSUME TypeOK, Goals, Effective, [Next]_vars PROVE Effective'
  OBVIOUS
<1> USE DEF Stages, Executing, InquiryStatus, ActionStatus, Claimed, Notified, world
<1>1. CASE UNCHANGED vars
  BY <1>1 DEF vars, Effective, CompletedApplied, MayRecord, On
<1>2. CASE SongGoes
  BY <1>2 DEF SongGoes, Effective, CompletedApplied, MayRecord, On
<1>3. ASSUME NEW i \in Inquiries, Submit(i) \/ SaveInquiry(i) \/ Judge(i) \/ LogProposed(i)
      PROVE  Effective'
  <2>1. i \in Workers /\ Apart(i) /\ UNCHANGED <<applied, told>>
    BY <1>3, ActsApart DEF Acts, Pipeline, Workers, Submit, SaveInquiry, Judge, LogProposed
  <2>2. ~MayRecord(i)'
    BY <1>3, <2>1, GotoFacts, FinishFacts, EndFacts
       DEF Submit, SaveInquiry, Judge, LogProposed, MayRecord
  <2>3. \A j \in Inquiries : /\ inquiry'[j] \in {inquiry[j], "RECEIVED"}
                             /\ action'[j] \in {action[j], "PROPOSED"}
    BY <1>3 DEF Submit, SaveInquiry, Judge, LogProposed, TypeOK
  <2>4. QED
    BY <2>1, <2>2, <2>3, ApartEffective
<1>4. ASSUME NEW i \in Inquiries, Low(i) \/ Medium(i) \/ High(i) PROVE Effective'
  <2>1. i \in Workers /\ On(i) = i /\ Apart(i) /\ UNCHANGED <<applied, told, inquiry>>
    BY <1>4, ActsApart DEF Acts, Pipeline, Workers, On, Low, Medium, High, Verdict
  <2>2. ~MayRecord(i)'
    BY <1>4, <2>1, GotoFacts, FinishFacts, EndFacts
       DEF Low, Medium, High, Verdict, TransitionThrows, MayRecord
  <2>3. \A j \in Inquiries : action'[j] # "COMPLETED" \/ action'[j] = action[j]
    BY <1>4 DEF Low, Medium, High, Verdict, TransitionThrows, Transition, TypeOK
  <2>4. QED
    BY <2>1, <2>2, <2>3, ApartEffective
<1>5. ASSUME NEW a \in Admins, NEW i \in Inquiries, NEW which \in {"approve", "reject"},
             Review(a, i, which)
      PROVE  Effective'
  <2>1. a \in Workers /\ Apart(a) /\ UNCHANGED <<applied, told, inquiry, action>>
    BY <1>5, ActsApart DEF Acts, Workers, Review
  <2>2. ~MayRecord(a)'
    BY <1>5, <2>1 DEF Review, MayRecord, TypeOK
  <2>3. QED
    BY <2>1, <2>2, ApartEffective
<1>6. ASSUME NEW w \in Workers, (w \in Admins /\ (Approve(w) \/ Reject(w))) \/ Execute(w) \/ Fail(w)
      PROVE  Effective'
  <2>1. Apart(w) /\ UNCHANGED <<applied, told, inquiry>>
    BY <1>6, ActsApart DEF Acts, Finishing, Approve, Reject, Execute, Fail
  <2>2. ~MayRecord(w)'
    BY <1>6, <2>1, GotoFacts, FinishFacts, EndFacts
       DEF Approve, Reject, Execute, Fail, TransitionThrows, MayRecord
  <2>3. \A j \in Inquiries : action'[j] # "COMPLETED" \/ action'[j] = action[j]
    BY <1>6 DEF Approve, Reject, Execute, Fail, TransitionThrows, Transition, TypeOK
  <2>4. QED
    BY <2>1, <2>2, <2>3, ApartEffective
<1>7. ASSUME NEW w \in Workers, Act(w) \/ Insert(w) PROVE Effective'
  <2>1. Apart(w) /\ UNCHANGED <<told, inquiry, action>> /\ on' = on /\ applied \subseteq applied'
    BY <1>7, ActsApart, GotoFacts DEF Acts, Finishing, Act, Insert, Apply
  <2>2. pc'[w] \in {"fail", "insert"} \/ (pc'[w] = "complete" /\ On(w) \in applied')
    BY <1>7, <2>1, GotoFacts DEF Act, Insert, Apply
  <2>3. MayRecord(w)' => On(w)' \in applied'
    BY <2>1, <2>2 DEF MayRecord, On
  <2>4. QED
    BY <2>1, <2>3, ApartEffective
<1>8. ASSUME NEW w \in Workers, Complete(w) PROVE Effective'
  <2>1. Apart(w) /\ UNCHANGED <<told, inquiry, applied>> /\ on' = on
    BY <1>8, ActsApart, GotoFacts, FinishFacts DEF Acts, Finishing, Complete
  <2>2. On(w) \in applied
    BY <1>8 DEF Complete, Effective, MayRecord
  <2>3. \A j \in Inquiries : j # On(w) => action'[j] = action[j]
    BY <1>8 DEF Complete, Transition, TypeOK
  <2>4. On(w)' = On(w)
    BY <2>1 DEF On
  <2>5. QED
    BY <2>1, <2>2, <2>3, <2>4, ApartEffective
<1>9. ASSUME NEW w \in Workers, FinishSaves(w) PROVE Effective'
  <2>1. Apart(w) /\ UNCHANGED <<told, action, applied>> /\ On(w) \in Inquiries
    BY <1>9, ActsApart, OnType DEF Acts, Finishing, FinishSaves
  <2>2. goal[w] = "COMPLETED" => On(w) \in applied
    BY <1>9 DEF FinishSaves, Effective, MayRecord
  <2>3. MayRecord(w)' => goal[w] = "COMPLETED" /\ on' = on
    BY <1>9, GotoFacts, EndFacts DEF FinishSaves, MayRecord
  <2>4. \A j \in Inquiries : inquiry'[j] = inquiry[j] \/ (j = On(w) /\ inquiry'[j] = goal[w])
    BY <1>9, <2>1 DEF FinishSaves, Save, TypeOK
  <2>5. MayRecord(w)' => On(w)' \in applied
    BY <2>2, <2>3 DEF On
  <2>6. QED
    BY <2>1, <2>2, <2>4, <2>5, ApartEffective
<1>10. ASSUME NEW w \in Workers, Tell(w) \/ Dies(w) PROVE Effective'
  <2>1. Apart(w) /\ UNCHANGED <<inquiry, action, applied>> /\ On(w) \in Inquiries
    BY <1>10, ActsApart, OnType DEF Acts, Finishing, Tell, Dies
  <2>2. ~MayRecord(w)'
    BY <1>10, EndFacts DEF Tell, Dies, MayRecord
  <2>3. Tell(w) /\ goal[w] = "COMPLETED" => On(w) \in applied
    BY DEF Tell, Effective, MayRecord
  <2>4. \A j \in Inquiries : told'[j] = told[j] \/ (j = On(w) /\ told'[j] = goal[w] /\ Tell(w))
    BY <1>10, <2>1 DEF Tell, Dies, TypeOK
  <2>5. QED
    BY <2>1, <2>2, <2>3, <2>4, ApartEffective
<1>11. QED
  BY <1>1, <1>2, <1>3, <1>4, <1>5, <1>6, <1>7, <1>8, <1>9, <1>10
     DEF Next, Pipeline, Finishing, Workers

-----------------------------------------------------------------------------
(* The theorems. *)

(* The inductive invariant holds at first. *)
LEMMA Initially == Init => IInv
<1> SUFFICES ASSUME Init PROVE IInv
  OBVIOUS
<1> USE DEF Init, Executing, Stages, InquiryStatus, ActionStatus, Claimed, Notified
<1>1. TypeOK
  BY DEF TypeOK, Workers
<1>2. Goals /\ Starts
  BY WorkersAssumption DEF Goals, GoalOK, Starts, Workers
<1>3. Alone /\ ClaimHeld
  BY DEF Alone, Engaged, ClaimHeld, Workers
<1>4. Effective
  BY DEF Effective, CompletedApplied, MayRecord, Workers
<1>5. QED
  BY <1>1, <1>2, <1>3, <1>4 DEF IInv

(* The inductive invariant always holds. *)
LEMMA Always == Spec => []IInv
<1>1. IInv /\ [Next]_vars => IInv'
  BY TypeStep, GoalsStep, StartsStep, AloneStep, HeldStep, EffectiveStep DEF IInv
<1>2. QED
  BY Initially, <1>1, PTL DEF Spec

(* Statuses, stages and what is known of an inquiry are of their types. *)
THEOREM TypeCorrect == Spec => []TypeOK
<1>1. IInv => TypeOK
  BY DEF IInv
<1>2. QED
  BY Always, <1>1, PTL

(* No two executions add an answer on behalf of one inquiry at a time      *)
(* (transitionAction's conditional UPDATE), unless the pipeline wrote over *)
(* the claim of a reviewer.                                                *)
THEOREM AnswersAlone == Spec => []ExecutesAlone
<1>1. IInv => ExecutesAlone
  BY DEF IInv, Alone, Engaged, ExecutesAlone
<1>2. QED
  BY Always, <1>1, PTL

(* A claimed action is in somebody's hands unless a call failed or a       *)
(* process died (executeAndFinish).                                        *)
THEOREM ClaimsHeld == Spec => []ClaimHeld
<1>1. IInv => ClaimHeld
  BY DEF IInv
<1>2. QED
  BY Always, <1>1, PTL

(* Nothing is shown or told to be done that was not done, whatever fails   *)
(* between the action and its record.                                      *)
THEOREM NothingPretended == Spec => []CompletedApplied
<1>1. IInv => CompletedApplied
  BY DEF IInv, Effective
<1>2. QED
  BY Always, <1>1, PTL

-----------------------------------------------------------------------------
(* The part of Decided that does not depend on fairness. *)

(* Where the pipeline of an inquiry has a step to take towards its end. *)
Judging == {"judge", "log", "LOW", "MEDIUM", "HIGH", "finish"} \cup Executing

(* A received inquiry is in its pipeline. *)
InPipeline == \A i \in Inquiries \ cut : inquiry[i] = "RECEIVED" => pc[i] \in Judging

(* A step of a worker on an inquiry leaves the others where they are. *)
LEMMA ApartInPipeline ==
  ASSUME TypeOK, InPipeline, NEW w \in Workers, Apart(w), cut \subseteq cut',
         \A i \in Inquiries : inquiry'[i] \in {inquiry[i]} \cup Outcomes,
         w \in Inquiries /\ inquiry'[w] = "RECEIVED" => pc'[w] \in Judging \/ w \in cut'
  PROVE  InPipeline'
<1> SUFFICES ASSUME NEW i \in Inquiries \ cut', inquiry'[i] = "RECEIVED"
             PROVE  pc'[i] \in Judging
  BY DEF InPipeline
<1>1. CASE i = w
  BY <1>1
<1>2. CASE i # w
  <2>1. inquiry[i] = "RECEIVED" /\ pc[i] \in Judging
    BY DEF InPipeline, Outcomes
  <2>2. pc'[i] = pc[i]
    BY <1>2 DEF Apart, Workers
  <2>3. QED
    BY <2>1, <2>2
<1>3. QED
  BY <1>1, <1>2

(* No step of anybody takes a received inquiry out of its pipeline's hands *)
(* but one that is cut.                                                    *)
LEMMA InPipelineStep == TypeOK /\ Goals /\ InPipeline /\ [Next]_vars => InPipeline'
<1> SUFFICES ASSUME TypeOK, Goals, InPipeline, [Next]_vars PROVE InPipeline'
  OBVIOUS
<1> USE WorkersAssumption DEF Stages, Executing, InquiryStatus, ActionStatus, Claimed, Notified, world
<1>1. CASE UNCHANGED vars \/ SongGoes
  BY <1>1 DEF vars, SongGoes, InPipeline
<1>2. ASSUME NEW i \in Inquiries, Submit(i) PROVE InPipeline'
  <2>1. i \in Workers /\ Apart(i)
    BY <1>2, ActsApart DEF Acts, Workers
  <2>2. QED
    BY <1>2, <2>1, ApartInPipeline DEF Submit
<1>3. ASSUME NEW i \in Inquiries, SaveInquiry(i) PROVE InPipeline'
  <2>1. i \in Workers /\ On(i) = i /\ Apart(i)
    BY <1>3, ActsApart DEF Acts, Pipeline, Workers, On
  <2>2. \A j \in Inquiries : j # i => inquiry'[j] = inquiry[j] /\ pc'[j] = pc[j]
    BY <1>3, <2>1 DEF SaveInquiry, TypeOK, Apart, Workers
  <2>3. pc'[i] \in Judging \/ i \in cut'
    BY <1>3, <2>1, GotoFacts DEF SaveInquiry, Cut, Judging
  <2>4. cut \subseteq cut'
    BY <1>3 DEF SaveInquiry, Cut
  <2>5. QED
    BY <2>2, <2>3, <2>4 DEF InPipeline
<1>4. ASSUME NEW i \in Inquiries, Judge(i) \/ LogProposed(i) \/ Low(i) \/ Medium(i) \/ High(i)
      PROVE  InPipeline'
  <2>1. i \in Workers /\ On(i) = i /\ Apart(i) /\ inquiry' = inquiry
    BY <1>4, ActsApart DEF Acts, Pipeline, Workers, On, Judge, LogProposed, Low, Medium, High, Verdict
  <2>2. pc'[i] \in Judging \/ i \in cut'
    BY <1>4, <2>1, GotoFacts, FinishFacts
       DEF Judge, LogProposed, Low, Medium, High, Verdict, TransitionThrows, Cut, Judging
  <2>3. cut \subseteq cut'
    BY <1>4 DEF Judge, LogProposed, Low, Medium, High, Verdict, TransitionThrows, Cut
  <2>4. QED
    BY <2>1, <2>2, <2>3, ApartInPipeline
<1>5. ASSUME NEW a \in Admins, Approve(a) \/ Reject(a) \/
             \E i \in Inquiries : Review(a, i, "approve") \/ Review(a, i, "reject")
      PROVE  InPipeline'
  <2>1. a \in Workers /\ Apart(a) /\ a \notin Inquiries
    BY <1>5, ActsApart DEF Acts, Workers
  <2>2. inquiry' = inquiry /\ cut \subseteq cut'
    BY <1>5 DEF Approve, Reject, Review, TransitionThrows, Cut
  <2>3. QED
    BY <2>1, <2>2, ApartInPipeline
<1>6. ASSUME NEW w \in Workers, Finishing(w) \/ Dies(w) PROVE InPipeline'
  <2>1. Apart(w) /\ On(w) \in Inquiries /\ (w \in Inquiries => On(w) = w)
    BY <1>6, ActsApart, OnType
       DEF Acts, Finishing, Execute, Act, Insert, Complete, Fail, FinishSaves, Tell, Dies, On
  <2>2. CASE Execute(w) \/ Act(w) \/ Insert(w) \/ Complete(w) \/ Fail(w) \/ Dies(w)
    <3>1. inquiry' = inquiry /\ cut \subseteq cut'
      BY <2>2 DEF Execute, Act, Insert, Complete, Fail, Dies, TransitionThrows, Cut
    <3>2. pc'[w] \in Judging \/ On(w) \in cut'
      BY <2>2, GotoFacts, FinishFacts
         DEF Execute, Act, Insert, Complete, Fail, Dies, TransitionThrows, Cut, Judging
    <3>3. QED
      BY <2>1, <3>1, <3>2, ApartInPipeline
  <2>3. CASE FinishSaves(w)
    <3>1. goal[w] \in Outcomes
      BY <2>3 DEF FinishSaves, Goals, GoalOK
    <3>2. \A i \in Inquiries : inquiry'[i] \in {inquiry[i]} \cup Outcomes
      BY <2>3, <3>1 DEF FinishSaves, Save, TypeOK
    <3>3. cut \subseteq cut'
      BY <2>3 DEF FinishSaves, Cut
    <3>4. inquiry'[On(w)] = "RECEIVED" => pc'[w] \in Judging \/ On(w) \in cut'
      <4>1. Save(w) => inquiry'[On(w)] # "RECEIVED"
        BY <2>1, <3>1 DEF Save, TypeOK, Outcomes
      <4>2. ~Save(w) => pc'[w] \in Judging \/ On(w) \in cut'
        BY <2>3, GotoFacts DEF FinishSaves, Cut, Judging
      <4>3. QED
        BY <4>1, <4>2
    <3>5. QED
      BY <2>1, <3>2, <3>3, <3>4, ApartInPipeline
  <2>4. CASE Tell(w)
    <3>1. inquiry' = inquiry /\ cut' = cut /\ pc[w] = "tell"
      BY <2>4 DEF Tell
    <3>2. w \in Inquiries => inquiry[w] # "RECEIVED" \/ w \in cut
      BY <3>1 DEF InPipeline, Judging
    <3>3. QED
      BY <2>1, <3>1, <3>2, ApartInPipeline
  <2>5. QED
    BY <1>6, <2>2, <2>3, <2>4 DEF Finishing
<1>7. QED
  BY <1>1, <1>2, <1>3, <1>4, <1>5, <1>6 DEF Next, Pipeline

(* Nobody forgets a received inquiry: until it is decided its own pipeline *)
(* is at a step that it can take, whatever reviewers do and whichever call *)
(* fails, unless it was cut (submit, process, executeAndFinish, finish).   *)
THEOREM NotForgotten == Spec => []InPipeline
<1>1. Init => InPipeline
  BY DEF Init, InPipeline
<1>2. IInv /\ InPipeline /\ [Next]_vars => InPipeline'
  BY InPipelineStep DEF IInv
<1>3. QED
  BY Always, <1>1, <1>2, PTL DEF Spec
=============================================================================
