----------------------- MODULE QuizRegistrationProofs -----------------------
(***************************************************************************)
(* QuizRegistration for all sets of quizzes, saves, songs and requests.    *)
(*                                                                         *)
(* The inductive invariant has four parts.  Locked: who is between the     *)
(* check and the save of a registration has the user locked, so nothing is *)
(* registered meanwhile.  Fresh: no two quizzes share a save, and a save   *)
(* nobody has made has no net.  NetOK: what a safety net has looked at.    *)
(* RowsOK: the rows of the last save of a quiz, for each stage of its net. *)
(***************************************************************************)
EXTENDS QuizRegistration, FiniteSetTheorems, TLAPS

Locked ==
  /\ OneADay
  /\ \A r \in Requests :
       /\ pc[r] \in {"eligible", "create"} => userLock = r
       /\ pc[r] = "create" => today = {}
       /\ pc[r] \in {"quiz", "update", "delete"} =>
            quiz[r] \in Quizzes /\ version[quiz[r]] # None

Fresh ==
  /\ \A p, q \in Quizzes : version[p] # None /\ version[p] = version[q] => p = q
  /\ \A q \in Quizzes : version[q] # None => list[version[q]] # {}
  /\ \A q \in Quizzes : q \notin deleted => title[q] = version[q]

NetOK(v) ==
  /\ list[v] = {} => net[v] = "off"
  /\ net[v] = "off" => excluded[v] = {}
  /\ left[v] \cup excluded[v] \subseteq list[v]
  /\ left[v] \cap excluded[v] = {}
  /\ net[v] \in {"answers", "song"} => now[v] \in excluded[v]
  /\ notice[v].sent => net[v] = "done" /\ notice[v].names = excluded[v]

Kept(v) == list[v] \ excluded[v]

RowsOK(v) ==
  /\ net[v] \in {"check", "done"} => songs[v] = Kept(v) /\ answers[v] = Kept(v)
  /\ net[v] = "answers" =>
       songs[v] = Kept(v) \cup {now[v]} /\ answers[v] = Kept(v) \cup {now[v]}
  /\ net[v] = "song" => songs[v] = Kept(v) \cup {now[v]} /\ answers[v] = Kept(v)
  /\ Kept(v) \subseteq songs[v] \cap answers[v]
  /\ songs[v] \cup answers[v] \subseteq list[v]

Nets == \A v \in Versions : NetOK(v)
Rows == \A q \in Quizzes : version[q] # None => RowsOK(version[q])

IInv == TypeOK /\ Locked /\ Fresh /\ Nets /\ Rows

-----------------------------------------------------------------------------
(* Type correctness. *)

(* Whoever ends leaves every variable in its type. *)
LEMMA EndType ==
  ASSUME TypeOK, NEW r \in Requests, End(r)
  PROVE  /\ pc' \in [Requests -> Stages]
         /\ quiz' \in [Requests -> Quizzes \cup {None}]
         /\ read' \in [Requests -> Versions \cup {None}]
         /\ userLock' \in Requests \cup {None}
         /\ quizLock' \in [Quizzes -> Requests \cup {None}]
  BY DEF TypeOK, End, Stages

(* A save leaves every variable in its type. *)
LEMMA SaveType ==
  ASSUME TypeOK, NEW q \in Quizzes, NEW v \in Versions, NEW S \in Submissions,
         SaveSongs(q, v, S)
  PROVE  /\ version' \in [Quizzes -> Versions \cup {None}]
         /\ title' \in [Quizzes -> Versions \cup {None}]
         /\ list' \in [Versions -> SUBSET Songs]
         /\ songs' \in [Versions -> SUBSET Songs]
         /\ answers' \in [Versions -> SUBSET Songs]
         /\ net' \in [Versions -> NetStages]
         /\ left' \in [Versions -> SUBSET Songs]
         /\ now' = now /\ excluded' = excluded /\ notice' = notice
  BY DEF TypeOK, SaveSongs, Submissions, NetStages

(* Every step keeps every variable in its type. *)
LEMMA TypeStep == TypeOK /\ Locked /\ [Next]_vars => TypeOK'
<1> SUFFICES ASSUME TypeOK, Locked, [Next]_vars PROVE TypeOK'
  OBVIOUS
<1> USE DEF quizzes, rows, locks, requests, nets
<1>1. CASE UNCHANGED vars
  BY <1>1 DEF TypeOK, vars
<1>2. ASSUME NEW r \in Requests, CreateQuiz(r) \/ LockUser(r) \/ LockQuiz(r) PROVE TypeOK'
  <2>1. CASE CreateQuiz(r)
    BY <2>1 DEF TypeOK, CreateQuiz, Goto, Stages
  <2>2. CASE LockUser(r)
    BY <2>2 DEF TypeOK, LockUser, Goto, Stages
  <2>3. CASE LockQuiz(r)
    BY <2>3 DEF TypeOK, LockQuiz, Goto, Stages
  <2>4. QED
    BY <1>2, <2>1, <2>2, <2>3
<1>3. ASSUME NEW r \in Requests, CheckEligible(r) PROVE TypeOK'
  BY <1>3, EndType DEF TypeOK, CheckEligible, Goto, Stages
<1>4. ASSUME NEW r \in Requests, SaveQuiz(r) PROVE TypeOK'
  <2>1. PICK q \in Quizzes, v \in Versions, S \in Submissions :
          today' = today \cup {q} /\ SaveSongs(q, v, S)
    BY <1>4 DEF SaveQuiz
  <2>2. End(r) /\ deleted' = deleted
    BY <1>4 DEF SaveQuiz
  <2>3. QED
    BY <2>1, <2>2, EndType, SaveType DEF TypeOK
<1>5. ASSUME NEW r \in Requests, SaveUpdate(r) PROVE TypeOK'
  <2>1. PICK v \in Versions, S \in Submissions : SaveSongs(quiz[r], v, S)
    BY <1>5 DEF SaveUpdate
  <2>2. End(r) /\ today' = today /\ deleted' = deleted
    BY <1>5 DEF SaveUpdate
  <2>3. quiz[r] \in Quizzes
    BY <1>5 DEF SaveUpdate, Locked
  <2>4. QED
    BY <2>1, <2>2, <2>3, EndType, SaveType DEF TypeOK
<1>6. ASSUME NEW r \in Requests, SaveDeleted(r) PROVE TypeOK'
  <2>1. quiz[r] \in Quizzes /\ read[r] \in Versions \cup {None}
    BY <1>6 DEF SaveDeleted, Locked, TypeOK
  <2>2. QED
    BY <1>6, <2>1, EndType DEF TypeOK, SaveDeleted
<1>7. ASSUME NEW r \in Requests, Fails(r) PROVE TypeOK'
  BY <1>7, EndType DEF TypeOK, Fails
<1>8. ASSUME NEW r \in Requests, NEW q \in Quizzes, UpdateQuiz(r, q) \/ DeleteQuiz(r, q)
      PROVE TypeOK'
  BY <1>8 DEF TypeOK, UpdateQuiz, DeleteQuiz, Stages
<1>9. CASE IntervalPasses
  BY <1>9 DEF TypeOK, IntervalPasses
<1>10. ASSUME NEW v \in Versions, NEW s \in Songs, CheckSong(v, s) PROVE TypeOK'
  <2>1. left' \in [Versions -> SUBSET Songs]
    BY <1>10 DEF TypeOK, CheckSong, Without
  <2>2. /\ net' \in [Versions -> NetStages]
        /\ now' \in [Versions -> Songs \cup {None}]
        /\ excluded' \in [Versions -> SUBSET Songs]
    <3>1. CASE UNCHANGED <<net, now, excluded>>
      BY <3>1 DEF TypeOK
    <3>2. CASE /\ net' = [net EXCEPT ![v] = "answers"]
               /\ now' = [now EXCEPT ![v] = s]
               /\ excluded' = [excluded EXCEPT ![v] = @ \cup {s}]
      <4>1. /\ net \in [Versions -> NetStages] /\ now \in [Versions -> Songs \cup {None}]
            /\ excluded \in [Versions -> SUBSET Songs]
        BY DEF TypeOK
      <4>2. "answers" \in NetStages
        BY DEF NetStages
      <4>3. QED
        BY <3>2, <4>1, <4>2
    <3>3. QED
      BY <1>10, <3>1, <3>2 DEF CheckSong
  <2>3. QED
    BY <1>10, <2>1, <2>2 DEF TypeOK, CheckSong
<1>11. ASSUME NEW v \in Versions, DropAnswers(v) \/ DropSong(v) PROVE TypeOK'
  <2>1. CASE DropAnswers(v)
    BY <2>1 DEF TypeOK, DropAnswers, Without, NetStages
  <2>2. CASE DropSong(v)
    BY <2>2 DEF TypeOK, DropSong, Without, NetStages
  <2>3. QED
    BY <1>11, <2>1, <2>2
<1>12. ASSUME NEW v \in Versions, Notify(v) PROVE TypeOK'
  <2>1. [sent |-> TRUE, names |-> excluded[v]] \in [sent : BOOLEAN, names : SUBSET Songs]
    BY DEF TypeOK
  <2>2. notice' \in [Versions -> [sent : BOOLEAN, names : SUBSET Songs]]
    BY <1>12, <2>1 DEF TypeOK, Notify
  <2>3. net' \in [Versions -> NetStages]
    BY <1>12 DEF TypeOK, Notify, NetStages
  <2>4. QED
    BY <1>12, <2>2, <2>3 DEF TypeOK, Notify
<1>13. ASSUME NEW v \in Versions, NetDies(v) PROVE TypeOK'
  BY <1>13 DEF TypeOK, NetDies, NetStages
<1>14. QED
  BY <1>1, <1>2, <1>3, <1>4, <1>5, <1>6, <1>7, <1>8, <1>9, <1>10, <1>11, <1>12, <1>13
     DEF Next, NetGoesOn

-----------------------------------------------------------------------------
(* One registration in an interval. *)

(* Whoever ends holds no lock; nobody else is disturbed. *)
LEMMA EndLocked ==
  ASSUME TypeOK, NEW r \in Requests, End(r)
  PROVE  /\ pc'[r] = "idle"
         /\ \A o \in Requests : o # r => pc'[o] = pc[o] /\ quiz'[o] = quiz[o]
         /\ \A o \in Requests : o # r /\ userLock = o => userLock' = o
  BY DEF TypeOK, End

(* A save leaves other quizzes their saves. *)
LEMMA SaveVersion ==
  ASSUME TypeOK, NEW q \in Quizzes, NEW v \in Versions, NEW S \in Submissions,
         SaveSongs(q, v, S)
  PROVE  /\ version'[q] = v /\ title'[q] = v
         /\ \A p \in Quizzes : p # q => version'[p] = version[p] /\ title'[p] = title[p]
         /\ v # None
  BY NoneAssumption DEF TypeOK, SaveSongs

(* Nobody registers between the check and the save of another. *)
LEMMA LockedStep == TypeOK /\ Locked /\ [Next]_vars => Locked'
<1> SUFFICES ASSUME TypeOK, Locked, [Next]_vars PROVE Locked'
  OBVIOUS
<1> USE DEF quizzes, rows, locks, requests, nets
<1>1. CASE UNCHANGED vars
  BY <1>1 DEF Locked, OneADay, vars
<1>2. ASSUME NEW r \in Requests, CreateQuiz(r) \/ LockUser(r) \/ LockQuiz(r) PROVE Locked'
  BY <1>2, NoneAssumption DEF TypeOK, Locked, OneADay, CreateQuiz, LockUser, LockQuiz, Goto
<1>3. ASSUME NEW r \in Requests, CheckEligible(r) PROVE Locked'
  <2>1. today' = today /\ version' = version
    BY <1>3 DEF CheckEligible
  <2>2. CASE today = {}
    BY <1>3, <2>1, <2>2 DEF TypeOK, Locked, OneADay, CheckEligible, Goto
  <2>3. CASE today # {}
    BY <1>3, <2>1, <2>3, EndLocked DEF Locked, OneADay, CheckEligible
  <2>4. QED
    BY <2>2, <2>3
<1>4. ASSUME NEW r \in Requests, SaveQuiz(r) PROVE Locked'
  <2>1. PICK q \in Quizzes, v \in Versions, S \in Submissions :
          today' = today \cup {q} /\ SaveSongs(q, v, S)
    BY <1>4 DEF SaveQuiz
  <2>2. End(r) /\ pc[r] = "create"
    BY <1>4 DEF SaveQuiz
  <2>3. today = {} /\ userLock = r
    BY <2>2 DEF Locked
  <2>4. \A o \in Requests : o # r => pc[o] # "create" /\ pc[o] # "eligible"
    BY <2>3 DEF Locked
  <2>5. QED
    BY <2>1, <2>2, <2>3, <2>4, EndLocked, SaveVersion DEF Locked, OneADay
<1>5. ASSUME NEW r \in Requests, SaveUpdate(r) PROVE Locked'
  <2>1. PICK v \in Versions, S \in Submissions : SaveSongs(quiz[r], v, S)
    BY <1>5 DEF SaveUpdate
  <2>2. End(r) /\ today' = today /\ quiz[r] \in Quizzes
    BY <1>5 DEF SaveUpdate, Locked
  <2>3. \A p \in Quizzes : version[p] # None => version'[p] # None
    BY <2>1, <2>2, SaveVersion
  <2>4. QED
    BY <2>2, <2>3, EndLocked DEF Locked, OneADay
<1>6. ASSUME NEW r \in Requests, SaveDeleted(r) \/ Fails(r) PROVE Locked'
  <2>1. End(r) /\ today' = today /\ version' = version
    BY <1>6 DEF SaveDeleted, Fails
  <2>2. QED
    BY <2>1, EndLocked DEF Locked, OneADay
<1>8. ASSUME NEW r \in Requests, NEW q \in Quizzes, UpdateQuiz(r, q) \/ DeleteQuiz(r, q)
      PROVE Locked'
  BY <1>8 DEF TypeOK, Locked, OneADay, UpdateQuiz, DeleteQuiz
<1>9. CASE IntervalPasses
  BY <1>9 DEF Locked, OneADay, IntervalPasses
<1>10. ASSUME NEW v \in Versions, NetGoesOn(v) \/ NetDies(v) PROVE Locked'
  <2>1. UNCHANGED <<today, version, userLock, pc, quiz>>
    BY <1>10 DEF NetGoesOn, CheckSong, DropAnswers, DropSong, Notify, NetDies
  <2>2. QED
    BY <2>1 DEF Locked, OneADay
<1>11. QED
  BY <1>1, <1>2, <1>3, <1>4, <1>5, <1>6, <1>8, <1>9, <1>10 DEF Next

-----------------------------------------------------------------------------
(* Saves are not shared. *)

(* What can be submitted has a song. *)
LEMMA SubmissionNotEmpty == \A S \in Submissions : S # {}
<1>1. Cardinality({}) = 0
  BY FS_EmptySet
<1>2. QED
  BY <1>1, MinAssumption DEF Submissions

(* A save of a quiz keeps saves apart. *)
LEMMA SaveFresh ==
  ASSUME TypeOK, Fresh, deleted' = deleted,
         NEW q \in Quizzes, NEW v \in Versions, NEW S \in Submissions,
         list[v] = {}, SaveSongs(q, v, S)
  PROVE  Fresh'
<1>1. \A p \in Quizzes : version[p] # v
  BY NoneAssumption DEF Fresh, TypeOK
<1>2. list'[v] = S /\ \A w \in Versions : w # v => list'[w] = list[w]
  BY DEF TypeOK, SaveSongs
<1>3. \A p \in Quizzes : p # q /\ version[p] # None => list'[version[p]] # {}
  BY <1>1, <1>2 DEF TypeOK, Fresh
<1>4. QED
  BY <1>1, <1>2, <1>3, SaveVersion, SubmissionNotEmpty DEF Fresh

(* No step makes two quizzes share a save. *)
LEMMA FreshStep == TypeOK /\ Locked /\ Fresh /\ [Next]_vars => Fresh'
<1> SUFFICES ASSUME TypeOK, Locked, Fresh, [Next]_vars PROVE Fresh'
  OBVIOUS
<1> USE DEF quizzes, rows
<1>1. ASSUME UNCHANGED <<quizzes, list>> PROVE Fresh'
  BY <1>1 DEF Fresh
<1>2. ASSUME NEW r \in Requests, SaveQuiz(r) PROVE Fresh'
  BY <1>2, SaveFresh DEF SaveQuiz
<1>3. ASSUME NEW r \in Requests, SaveUpdate(r) PROVE Fresh'
  <2>1. quiz[r] \in Quizzes /\ deleted' = deleted
    BY <1>3 DEF SaveUpdate, Locked
  <2>2. QED
    BY <1>3, <2>1, SaveFresh DEF SaveUpdate
<1>4. ASSUME NEW r \in Requests, SaveDeleted(r) PROVE Fresh'
  BY <1>4 DEF SaveDeleted, Fresh, TypeOK
<1>5. ASSUME NEW r \in Requests, NEW q \in Quizzes,
             \/ CreateQuiz(r) \/ LockUser(r) \/ CheckEligible(r) \/ LockQuiz(r)
             \/ Fails(r) \/ UpdateQuiz(r, q) \/ DeleteQuiz(r, q)
      PROVE UNCHANGED <<quizzes, list>>
  BY <1>5 DEF CreateQuiz, LockUser, CheckEligible, LockQuiz, Fails, UpdateQuiz, DeleteQuiz
<1>6. ASSUME NEW r \in Requests,
             CreateQuiz(r) \/ LockUser(r) \/ CheckEligible(r) \/ LockQuiz(r) \/ Fails(r)
      PROVE UNCHANGED <<quizzes, list>>
  BY <1>6 DEF CreateQuiz, LockUser, CheckEligible, LockQuiz, Fails
<1>7. ASSUME IntervalPasses PROVE UNCHANGED <<quizzes, list>>
  BY <1>7 DEF IntervalPasses
<1>8. ASSUME NEW v \in Versions, NetGoesOn(v) \/ NetDies(v) PROVE UNCHANGED <<quizzes, list>>
  BY <1>8 DEF NetGoesOn, CheckSong, DropAnswers, DropSong, Notify, NetDies
<1>9. QED
  BY <1>1, <1>2, <1>3, <1>4, <1>5, <1>6, <1>7, <1>8 DEF Next, vars

-----------------------------------------------------------------------------
(* Nets and rows. *)

(* A save gives its net everything to look at. *)
LEMMA SaveNets ==
  ASSUME TypeOK, Fresh, Nets, Rows,
         NEW q \in Quizzes, NEW v \in Versions, NEW S \in Submissions,
         list[v] = {}, SaveSongs(q, v, S)
  PROVE  Nets' /\ Rows'
<1>1. \A p \in Quizzes : version[p] # v
  BY NoneAssumption DEF Fresh, TypeOK
<1>2. /\ list'[v] = S /\ songs'[v] = S /\ answers'[v] = S
      /\ net'[v] = "check" /\ left'[v] = S /\ S # {}
  BY SubmissionNotEmpty DEF TypeOK, SaveSongs
<1>3. /\ now' = now /\ excluded' = excluded /\ notice' = notice
  BY DEF SaveSongs
<1>4. \A w \in Versions : w # v =>
        list'[w] = list[w] /\ net'[w] = net[w] /\ left'[w] = left[w]
  BY DEF TypeOK, SaveSongs
<1>5. \A w \in Versions : w # v /\ w # version[q] => songs'[w] = songs[w] /\ answers'[w] = answers[w]
  BY DEF TypeOK, SaveSongs
<1>6. excluded[v] = {} /\ ~notice[v].sent
  BY DEF Nets, NetOK
<1>7. NetOK(v)' /\ RowsOK(v)'
  BY <1>2, <1>3, <1>6 DEF NetOK, RowsOK, Kept
<1>8. ASSUME NEW w \in Versions, w # v PROVE NetOK(w)'
  BY <1>3, <1>4, <1>8 DEF Nets, NetOK
<1>9. ASSUME NEW p \in Quizzes, p # q, version[p] # None PROVE RowsOK(version[p])'
  <2> DEFINE w == version[p]
  <2>1. w \in Versions /\ w # v /\ w # version[q] /\ RowsOK(w)
    BY <1>1, <1>9 DEF TypeOK, Fresh, Rows
  <2>2. version'[p] = w
    BY <1>9, SaveVersion
  <2>3. /\ list'[w] = list[w] /\ net'[w] = net[w] /\ songs'[w] = songs[w]
        /\ answers'[w] = answers[w] /\ now'[w] = now[w] /\ excluded'[w] = excluded[w]
    BY <1>3, <1>4, <1>5, <2>1
  <2> HIDE DEF w
  <2>4. /\ net'[w] \in {"check", "done"} => songs'[w] = list'[w] \ excluded'[w] /\ answers'[w] = list'[w] \ excluded'[w]
        /\ net'[w] = "answers" =>
             songs'[w] = (list'[w] \ excluded'[w]) \cup {now'[w]} /\ answers'[w] = (list'[w] \ excluded'[w]) \cup {now'[w]}
        /\ net'[w] = "song" => songs'[w] = (list'[w] \ excluded'[w]) \cup {now'[w]} /\ answers'[w] = list'[w] \ excluded'[w]
        /\ list'[w] \ excluded'[w] \subseteq songs'[w] \cap answers'[w]
        /\ songs'[w] \cup answers'[w] \subseteq list'[w]
    BY <2>1, <2>3 DEF RowsOK, Kept
  <2>5. QED
    BY <2>2, <2>4 DEF RowsOK, Kept, w
<1>10. QED
  BY <1>7, <1>8, <1>9, SaveVersion DEF Nets, Rows

(* What a net does to the rows of its save, and to no other. *)
LEMMA NetStep ==
  ASSUME TypeOK, Fresh, Nets, Rows, NEW v \in Versions, NetGoesOn(v) \/ NetDies(v)
  PROVE  Nets' /\ Rows'
<1> USE DEF rows, quizzes
<1>1. /\ version' = version /\ list' = list
      /\ \A w \in Versions : w # v =>
           /\ net'[w] = net[w] /\ left'[w] = left[w] /\ now'[w] = now[w]
           /\ excluded'[w] = excluded[w] /\ notice'[w] = notice[w]
           /\ songs'[w] = songs[w] /\ answers'[w] = answers[w]
  <2>1. ASSUME NEW s \in Songs, CheckSong(v, s) PROVE <1>1
    BY <2>1 DEF TypeOK, CheckSong, Without
  <2>2. CASE DropAnswers(v)
    BY <2>2 DEF TypeOK, DropAnswers, Without
  <2>3. CASE DropSong(v)
    BY <2>3 DEF TypeOK, DropSong, Without
  <2>4. CASE Notify(v)
    BY <2>4 DEF TypeOK, Notify
  <2>5. CASE NetDies(v)
    BY <2>5 DEF TypeOK, NetDies
  <2>6. QED
    BY <2>1, <2>2, <2>3, <2>4, <2>5 DEF NetGoesOn
<1>2. NetOK(v)' /\ (RowsOK(v) => RowsOK(v)')
  <2>1. NetOK(v)
    BY DEF Nets
  <2>2. ASSUME NEW s \in Songs, CheckSong(v, s) PROVE <1>2
    <3>1. /\ net[v] = "check" /\ s \in left[v] /\ left'[v] = left[v] \ {s}
          /\ songs' = songs /\ answers' = answers /\ list' = list /\ notice' = notice
      BY <2>2 DEF TypeOK, CheckSong, Without
    <3>2. CASE UNCHANGED <<net, now, excluded>>
      BY <2>1, <3>1, <3>2 DEF NetOK, RowsOK, Kept
    <3>3. CASE net'[v] = "answers" /\ now'[v] = s /\ excluded'[v] = excluded[v] \cup {s}
      BY <2>1, <3>1, <3>3 DEF NetOK, RowsOK, Kept
    <3>4. QED
      BY <2>2, <3>2, <3>3 DEF TypeOK, CheckSong
  <2>3. CASE DropAnswers(v)
    <3>1. /\ net[v] = "answers" /\ net'[v] = "song" /\ answers'[v] = answers[v] \ {now[v]}
          /\ UNCHANGED <<songs, list, left, now, excluded, notice>>
      BY <2>3 DEF TypeOK, DropAnswers, Without
    <3>2. QED
      BY <2>1, <3>1 DEF NetOK, RowsOK, Kept
  <2>4. CASE DropSong(v)
    <3>1. /\ net[v] = "song" /\ net'[v] = "check" /\ songs'[v] = songs[v] \ {now[v]}
          /\ UNCHANGED <<answers, list, left, excluded, notice>>
      BY <2>4 DEF TypeOK, DropSong, Without
    <3>2. QED
      BY <2>1, <3>1 DEF NetOK, RowsOK, Kept
  <2>5. CASE Notify(v)
    <3>1. /\ net[v] = "check" /\ net'[v] = "done" /\ notice'[v].names = excluded[v]
          /\ UNCHANGED <<songs, answers, list, left, now, excluded>>
      BY <2>5 DEF TypeOK, Notify
    <3>2. QED
      BY <2>1, <3>1 DEF NetOK, RowsOK, Kept
  <2>6. CASE NetDies(v)
    <3>1. /\ net[v] \notin {"off", "done"} /\ net'[v] = "dead"
          /\ UNCHANGED <<songs, answers, list, left, now, excluded, notice>>
      BY <2>6 DEF TypeOK, NetDies
    <3>2. QED
      BY <2>1, <3>1 DEF NetOK, RowsOK, Kept
  <2>7. QED
    BY <2>2, <2>3, <2>4, <2>5, <2>6 DEF NetGoesOn
<1>3. ASSUME NEW w \in Versions, w # v PROVE NetOK(w)' /\ (RowsOK(w) => RowsOK(w)')
  BY <1>1, <1>3 DEF Nets, NetOK, RowsOK, Kept
<1>4. ASSUME NEW q \in Quizzes, version[q] # None PROVE RowsOK(version[q])'
  BY <1>1, <1>2, <1>3, <1>4 DEF TypeOK, Rows, RowsOK, Kept
<1>5. QED
  BY <1>1, <1>2, <1>3, <1>4 DEF Nets, Rows

(* No step takes away rows but those its own net has rejected. *)
LEMMA RowsStep == IInv /\ [Next]_vars => Nets' /\ Rows'
<1> SUFFICES ASSUME IInv, [Next]_vars PROVE Nets' /\ Rows'
  OBVIOUS
<1> USE DEF IInv, rows, nets, quizzes
<1>1. ASSUME UNCHANGED <<version, rows, nets>> PROVE Nets' /\ Rows'
  BY <1>1 DEF Nets, NetOK, Rows, RowsOK, Kept
<1>2. ASSUME NEW r \in Requests, SaveQuiz(r) PROVE Nets' /\ Rows'
  BY <1>2, SaveNets DEF SaveQuiz
<1>3. ASSUME NEW r \in Requests, SaveUpdate(r) PROVE Nets' /\ Rows'
  <2>1. quiz[r] \in Quizzes
    BY <1>3 DEF SaveUpdate, Locked
  <2>2. QED
    BY <1>3, <2>1, SaveNets DEF SaveUpdate
<1>4. ASSUME NEW r \in Requests, NEW q \in Quizzes, UpdateQuiz(r, q) \/ DeleteQuiz(r, q)
      PROVE UNCHANGED <<version, rows, nets>>
  BY <1>4 DEF UpdateQuiz, DeleteQuiz
<1>5. ASSUME NEW r \in Requests,
             \/ CreateQuiz(r) \/ LockUser(r) \/ CheckEligible(r) \/ LockQuiz(r)
             \/ SaveDeleted(r) \/ Fails(r)
      PROVE UNCHANGED <<version, rows, nets>>
  BY <1>5 DEF CreateQuiz, LockUser, CheckEligible, LockQuiz, SaveDeleted, Fails
<1>6. ASSUME IntervalPasses PROVE UNCHANGED <<version, rows, nets>>
  BY <1>6 DEF IntervalPasses
<1>7. ASSUME NEW v \in Versions, NetGoesOn(v) \/ NetDies(v) PROVE Nets' /\ Rows'
  BY <1>7, NetStep
<1>8. QED
  BY <1>1, <1>2, <1>3, <1>4, <1>5, <1>6, <1>7 DEF Next, vars

-----------------------------------------------------------------------------
(* The theorems. *)

(* The inductive invariant holds at first. *)
LEMMA Initially == Init => IInv
  BY NoneAssumption
     DEF Init, IInv, TypeOK, Locked, OneADay, Fresh, Nets, NetOK, Rows, RowsOK, Kept,
         Stages, NetStages, Silent

(* The inductive invariant always holds. *)
LEMMA Always == Spec => []IInv
<1>1. IInv /\ [Next]_vars => IInv'
  BY TypeStep, LockedStep, FreshStep, RowsStep DEF IInv
<1>2. QED
  BY Initially, <1>1, PTL DEF Spec

(* Rows, locks, requests and nets are of their types. *)
THEOREM TypeCorrect == Spec => []TypeOK
<1>1. IInv => TypeOK
  BY DEF IInv
<1>2. QED
  BY Always, <1>1, PTL

(* However many registrations of a user run at once, an interval sees one  *)
(* of them succeed (createQuiz locks the user before it checks).           *)
THEOREM OneRegistration == Spec => []OneADay
<1>1. IInv => OneADay
  BY DEF IInv, Locked
<1>2. QED
  BY Always, <1>1, PTL

(* A quiz has the songs of its last save, except those its own net has     *)
(* rejected, whichever nets of earlier saves are late or die half-way.     *)
THEOREM SongsStay == Spec => []SongsAsSubmitted
<1>1. IInv => SongsAsSubmitted
  BY DEF IInv, TypeOK, Fresh, Rows, RowsOK, Kept, SongsAsSubmitted
<1>2. QED
  BY Always, <1>1, PTL

(* The notification of a save is true of its rows (runBackgroundSafetyNet  *)
(* and sendCompletionNotification).                                        *)
THEOREM NoticesTrue == Spec => []NoticeTrue
<1>1. ASSUME IInv, NEW q \in Quizzes, version[q] # None, notice[version[q]].sent
      PROVE  LET v == version[q] IN songs[v] = list[v] \ notice[v].names /\ answers[v] = songs[v]
  <2>1. version[q] \in Versions
    BY <1>1 DEF IInv, TypeOK
  <2>2. NetOK(version[q]) /\ RowsOK(version[q])
    BY <1>1, <2>1 DEF IInv, Nets, Rows
  <2>3. QED
    BY <1>1, <2>2 DEF NetOK, RowsOK, Kept
<1>2. IInv => NoticeTrue
  BY <1>1 DEF NoticeTrue
<1>3. QED
  BY Always, <1>2, PTL
=============================================================================
