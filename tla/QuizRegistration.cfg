SPECIFICATION Spec
CONSTANTS
  q1 = q1
  q2 = q2
  v1 = v1
  v2 = v2
  v3 = v3
  s1 = s1
  s2 = s2
  r1 = r1
  r2 = r2
  None = None
  Quizzes <- TwoQuizzes
  Versions <- TwoVersions
  Songs <- TwoSongs
  MinSongs = 1
  Requests <- TwoRequests
INVARIANTS TypeOK OneADay SongsAsSubmitted NoticeTrue
SYMMETRY Symmetric
CHECK_DEADLOCK FALSE
