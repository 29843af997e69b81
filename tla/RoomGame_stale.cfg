\* Timers remember the round they were armed for.
SPECIFICATION Spec
CONSTANTS
  a = a
  b = b
  r1 = r1
  r2 = r2
  Users <- TwoUsers
  MaxUsers = 2
  Rounds = 2
  Runs <- OneRun
  NoRun = NoRun
  History = TRUE
PROPERTY StaleTimerNoOp
CHECK_DEADLOCK FALSE
