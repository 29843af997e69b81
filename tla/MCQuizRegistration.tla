------------------------- MODULE MCQuizRegistration -------------------------
(* QuizRegistration for TLC. *)
EXTENDS QuizRegistration, TLC

CONSTANTS q1, q2, v1, v2, v3, s1, s2, r1, r2

TwoQuizzes == {q1, q2}
TwoVersions == {v1, v2}
ThreeVersions == {v1, v2, v3}
TwoSongs == {s1, s2}
TwoRequests == {r1, r2}
Symmetric == Permutations(Songs) \cup Permutations(Requests)
             \cup Permutations(Quizzes) \cup Permutations(Versions)
=============================================================================
