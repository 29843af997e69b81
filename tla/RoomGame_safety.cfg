\* Two users, two rounds, one handler at a time: any operation may fail half-way.
SPECIFICATION Spec
CONSTANTS
  a = a
  b = b
  r1 = r1
  r2 = r2
  Users <- TwoUsers
  MaxUsers = 2
  Rounds = 2
  Runs <- OneRun
  NoRun = NoRun
  History = FALSE
INVARIANTS TypeOK NeverWaitsInVain RightSong HostPresent
PROPERTIES TimeoutKept AutoNextKept AllRoundsPlayed RoundsSpec
SYMMETRY Alike
CHECK_DEADLOCK FALSE
