-------------------------- MODULE QuizRegistration --------------------------
(***************************************************************************)
(* Quizzes that one user registers, edits and deletes, and the safety net  *)
(* that checks the links of their songs afterwards.                        *)
(* apps/api/src/quiz/user-quiz-registration.service.ts,                    *)
(* youtube-link-validation.service.ts.                                     *)
(*                                                                         *)
(* A transaction is seen by others when it commits; what matters inside it *)
(* is the row it locks.  Every save of a quiz gives its songs new row ids: *)
(* a version is one such save, a row is a version and a song.  A safety    *)
(* net runs outside any transaction, for the rows of its version.  The     *)
(* clip (startSec, durationSec) of a row is left out, and so is the switch *)
(* YOUTUBE_LINK_VERIFICATION_ENABLED: the net is modelled as it is when    *)
(* links are verified.                                                     *)
(***************************************************************************)
EXTENDS Naturals, FiniteSets

CONSTANTS
  Quizzes,    (* quiz ids *)
  Versions,   (* saves of quizzes *)
  Songs,      (* songs a quiz may have *)
  MinSongs,   (* MIN_USER_QUIZ_SONG_COUNT *)
  Requests,   (* requests in progress at once *)
  None

ASSUME NoneAssumption == None \notin Quizzes \cup Versions \cup Songs \cup Requests
ASSUME MinAssumption == MinSongs \in Nat \ {0}

VARIABLES
  today,    (* quizzes registered since the interval last passed *)
  version,  (* the save each quiz has the songs of *)
  title,    (* the save each quiz has the title of *)
  deleted,  (* quizzes with USE_YN = 'N' *)
  list,     (* the songs each save was made with *)
  songs, answers, (* rows of SQ_QUIZ_SONG, and those with answers *)
  userLock, quizLock, (* the request that has the row locked *)
  pc, quiz, (* stage and quiz of each request *)
  read,     (* the title deleteQuiz has read *)
  net, left, now, excluded, (* the safety net of each save *)
  notice    (* the songs its notification names *)

rows == <<list, songs, answers>>
quizzes == <<version, title, deleted>>
locks == <<userLock, quizLock>>
requests == <<pc, quiz, read>>
nets == <<net, left, now, excluded, notice>>
vars == <<today, version, title, deleted, list, songs, answers, userLock, quizLock,
          pc, quiz, read, net, left, now, excluded, notice>>

Stages == {"idle", "user", "eligible", "create", "quiz", "update", "delete"}
NetStages == {"off", "check", "answers", "song", "done", "dead"}
Silent == [sent |-> FALSE, names |-> {}]

Init ==
  /\ today = {}
  /\ version = [q \in Quizzes |-> None]
  /\ title = [q \in Quizzes |-> None]
  /\ deleted = {}
  /\ list = [v \in Versions |-> {}]
  /\ songs = [v \in Versions |-> {}]
  /\ answers = [v \in Versions |-> {}]
  /\ userLock = None
  /\ quizLock = [q \in Quizzes |-> None]
  /\ pc = [r \in Requests |-> "idle"]
  /\ quiz = [r \in Requests |-> None]
  /\ read = [r \in Requests |-> None]
  /\ net = [v \in Versions |-> "off"]
  /\ left = [v \in Versions |-> {}]
  /\ now = [v \in Versions |-> None]
  /\ excluded = [v \in Versions |-> {}]
  /\ notice = [v \in Versions |-> Silent]

-----------------------------------------------------------------------------

Goto(r, stage) == pc' = [pc EXCEPT ![r] = stage] /\ UNCHANGED <<quiz, read>>

(* Commit or rollback: the locks of the transaction are gone. *)
End(r) ==
  /\ pc' = [pc EXCEPT ![r] = "idle"]
  /\ quiz' = [quiz EXCEPT ![r] = None]
  /\ read' = [read EXCEPT ![r] = None]
  /\ userLock' = IF userLock = r THEN None ELSE userLock
  /\ quizLock' = [q \in Quizzes |-> IF quizLock[q] = r THEN None ELSE quizLock[q]]

(* validateSongsInput and the link tokens: what may be submitted. *)
Submissions == {S \in SUBSET Songs : Cardinality(S) >= MinSongs}

(* saveQuizSongsAndAnswers: the rows of a new save in place of the old,    *)
(* and, once committed, its safety net.                                    *)
SaveSongs(q, v, S) ==
  /\ list' = [list EXCEPT ![v] = S]
  /\ songs' = [w \in Versions |-> IF w = v THEN S ELSE IF w = version[q] THEN {} ELSE songs[w]]
  /\ answers' = [w \in Versions |-> IF w = v THEN S ELSE IF w = version[q] THEN {} ELSE answers[w]]
  /\ version' = [version EXCEPT ![q] = v]
  /\ title' = [title EXCEPT ![q] = v]
  /\ net' = [net EXCEPT ![v] = "check"]
  /\ left' = [left EXCEPT ![v] = S]
  /\ UNCHANGED <<now, excluded, notice>>

-----------------------------------------------------------------------------
(* createQuiz: lock the user, see when they last registered, save. *)

CreateQuiz(r) ==
  /\ pc[r] = "idle"
  /\ Goto(r, "user")
  /\ UNCHANGED <<today, quizzes, rows, locks, nets>>

(* Mutant of LockUser: a plain read of the user. *)
ReadUser(r) ==
  /\ pc[r] = "user"
  /\ Goto(r, "eligible")
  /\ UNCHANGED <<today, quizzes, rows, locks, nets>>

LockUser(r) ==
  /\ pc[r] = "user" /\ userLock = None
  /\ userLock' = r
  /\ Goto(r, "eligible")
  /\ UNCHANGED <<today, quizzes, rows, quizLock, nets>>

CheckEligible(r) ==
  /\ pc[r] = "eligible"
  /\ IF today = {} THEN Goto(r, "create") /\ UNCHANGED locks ELSE End(r)
  /\ UNCHANGED <<today, quizzes, rows, nets>>

SaveQuiz(r) ==
  /\ pc[r] = "create"
  /\ \E q \in Quizzes, v \in Versions, S \in Submissions :
       /\ version[q] = None /\ list[v] = {}
       /\ today' = today \cup {q}
       /\ SaveSongs(q, v, S)
  /\ End(r)
  /\ UNCHANGED deleted

(* Twenty-four hours have passed since the last registration. *)
IntervalPasses ==
  /\ today # {}
  /\ today' = {}
  /\ UNCHANGED <<quizzes, rows, locks, requests, nets>>

-----------------------------------------------------------------------------
(* updateQuiz: lock the quiz, save everything anew.  A deleted quiz may be *)
(* updated, too.                                                           *)

UpdateQuiz(r, q) ==
  /\ pc[r] = "idle" /\ version[q] # None
  /\ pc' = [pc EXCEPT ![r] = "quiz"]
  /\ quiz' = [quiz EXCEPT ![r] = q]
  /\ UNCHANGED <<today, quizzes, rows, locks, read, nets>>

(* Mutant of LockQuiz: the row is locked in its own name, for everybody. *)
LockQuizForAll(r) ==
  /\ pc[r] = "quiz"
  /\ quizLock' = [quizLock EXCEPT ![quiz[r]] = quiz[r]]
  /\ Goto(r, "update")
  /\ UNCHANGED <<today, quizzes, rows, userLock, nets>>

LockQuiz(r) ==
  /\ pc[r] = "quiz" /\ quizLock[quiz[r]] = None
  /\ quizLock' = [quizLock EXCEPT ![quiz[r]] = r]
  /\ Goto(r, "update")
  /\ UNCHANGED <<today, quizzes, rows, userLock, nets>>

SaveUpdate(r) ==
  /\ pc[r] = "update"
  /\ \E v \in Versions, S \in Submissions :
       list[v] = {} /\ SaveSongs(quiz[r], v, S)
  /\ End(r)
  /\ UNCHANGED <<today, deleted>>

-----------------------------------------------------------------------------
(* deleteQuiz: read the quiz and save it, without a lock of its own. *)

DeleteQuiz(r, q) ==
  /\ pc[r] = "idle" /\ version[q] # None
  /\ pc' = [pc EXCEPT ![r] = "delete"]
  /\ quiz' = [quiz EXCEPT ![r] = q]
  /\ read' = [read EXCEPT ![r] = title[q]]
  /\ UNCHANGED <<today, quizzes, rows, locks, nets>>

SaveDeleted(r) ==
  /\ pc[r] = "delete" /\ quizLock[quiz[r]] = None
  /\ deleted' = deleted \cup {quiz[r]}
  /\ title' = [title EXCEPT ![quiz[r]] = read[r]]
  /\ End(r)
  /\ UNCHANGED <<today, version, rows, nets>>

(* An input is refused, a query fails or the process dies: rolled back. *)
Fails(r) ==
  /\ pc[r] # "idle"
  /\ End(r)
  /\ UNCHANGED <<today, quizzes, rows, nets>>

-----------------------------------------------------------------------------
(* runBackgroundSafetyNet: song by song, validate; a song that fails loses *)
(* its answers, then its row, both by the id of the row.                   *)

Without(f, v, s) == [f EXCEPT ![v] = @ \ {s}]

CheckSong(v, s) ==
  /\ net[v] = "check" /\ s \in left[v]
  /\ left' = Without(left, v, s)
  /\ \/ UNCHANGED <<net, now, excluded>>
     \/ /\ net' = [net EXCEPT ![v] = "answers"]
        /\ now' = [now EXCEPT ![v] = s]
        /\ excluded' = [excluded EXCEPT ![v] = @ \cup {s}]
  /\ UNCHANGED <<today, quizzes, rows, locks, requests, notice>>

DropAnswers(v) ==
  /\ net[v] = "answers"
  /\ answers' = Without(answers, v, now[v])
  /\ net' = [net EXCEPT ![v] = "song"]
  /\ UNCHANGED <<today, quizzes, list, songs, locks, requests, left, now, excluded, notice>>

(* Mutant of DropSong: by quiz and song, not by the id of the row. *)
DropSongOfQuiz(v) ==
  /\ net[v] = "song"
  /\ songs' = [w \in Versions |-> songs[w] \ {now[v]}]
  /\ net' = [net EXCEPT ![v] = "check"]
  /\ now' = [now EXCEPT ![v] = None]
  /\ UNCHANGED <<today, quizzes, list, answers, locks, requests, left, excluded, notice>>

DropSong(v) ==
  /\ net[v] = "song"
  /\ songs' = Without(songs, v, now[v])
  /\ net' = [net EXCEPT ![v] = "check"]
  /\ now' = [now EXCEPT ![v] = None]
  /\ UNCHANGED <<today, quizzes, list, answers, locks, requests, left, excluded, notice>>

(* Mutant of Notify: every registration is reported as complete. *)
NotifyComplete(v) ==
  /\ net[v] = "check" /\ left[v] = {}
  /\ notice' = [notice EXCEPT ![v] = [sent |-> TRUE, names |-> {}]]
  /\ net' = [net EXCEPT ![v] = "done"]
  /\ UNCHANGED <<today, quizzes, rows, locks, requests, left, now, excluded>>

(* sendCompletionNotification, after the last song. *)
Notify(v) ==
  /\ net[v] = "check" /\ left[v] = {}
  /\ notice' = [notice EXCEPT ![v] = [sent |-> TRUE, names |-> excluded[v]]]
  /\ net' = [net EXCEPT ![v] = "done"]
  /\ UNCHANGED <<today, quizzes, rows, locks, requests, left, now, excluded>>

(* A query of the net fails, which is logged, or its process dies. *)
NetDies(v) ==
  /\ net[v] \notin {"off", "done", "dead"}
  /\ net' = [net EXCEPT ![v] = "dead"]
  /\ UNCHANGED <<today, quizzes, rows, locks, requests, left, now, excluded, notice>>

NetGoesOn(v) ==
  (\E s \in Songs : CheckSong(v, s)) \/ DropAnswers(v) \/ DropSong(v) \/ Notify(v)

Next ==
  \/ \E r \in Requests :
       \/ CreateQuiz(r) \/ LockUser(r) \/ CheckEligible(r) \/ SaveQuiz(r)
       \/ LockQuiz(r) \/ SaveUpdate(r) \/ SaveDeleted(r) \/ Fails(r)
       \/ \E q \in Quizzes : UpdateQuiz(r, q) \/ DeleteQuiz(r, q)
  \/ IntervalPasses
  \/ \E v \in Versions : NetGoesOn(v) \/ NetDies(v)

Spec == Init /\ [][Next]_vars

-----------------------------------------------------------------------------

TypeOK ==
  /\ today \subseteq Quizzes /\ deleted \subseteq Quizzes
  /\ version \in [Quizzes -> Versions \cup {None}]
  /\ title \in [Quizzes -> Versions \cup {None}]
  /\ list \in [Versions -> SUBSET Songs]
  /\ songs \in [Versions -> SUBSET Songs]
  /\ answers \in [Versions -> SUBSET Songs]
  /\ userLock \in Requests \cup {None}
  /\ quizLock \in [Quizzes -> Requests \cup {None}]
  /\ pc \in [Requests -> Stages]
  /\ quiz \in [Requests -> Quizzes \cup {None}]
  /\ read \in [Requests -> Versions \cup {None}]
  /\ net \in [Versions -> NetStages]
  /\ left \in [Versions -> SUBSET Songs]
  /\ now \in [Versions -> Songs \cup {None}]
  /\ excluded \in [Versions -> SUBSET Songs]
  /\ notice \in [Versions -> [sent : BOOLEAN, names : SUBSET Songs]]

(* A user registers one quiz in an interval, from however many tabs. *)
OneADay == \A p, q \in today : p = q

(* Who plays or edits a quiz finds the songs of its last save, with their  *)
(* answers, except those its own safety net has rejected: late nets of     *)
(* earlier saves and nets that die half-way take nothing else away.        *)
SongsAsSubmitted ==
  \A q \in Quizzes : LET v == version[q] IN
    v # None => /\ list[v] \ excluded[v] \subseteq songs[v] \cap answers[v]
                /\ songs[v] \cup answers[v] \subseteq list[v]
                /\ q \notin deleted => title[q] = v

(* A notification names the songs that are gone from the save it is about, *)
(* all of them and no others.                                              *)
NoticeTrue ==
  \A q \in Quizzes : LET v == version[q] IN
    v # None /\ notice[v].sent => songs[v] = list[v] \ notice[v].names /\ answers[v] = songs[v]
=============================================================================
