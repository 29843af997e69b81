\* The host alone, two handlers of timers at once: late and repeated handlers.
SPECIFICATION FairSpec
CONSTANTS
  a = a
  b = b
  r1 = r1
  r2 = r2
  Users <- OneUser
  MaxUsers = 1
  Rounds = 2
  Runs <- TwoRuns
  NoRun = NoRun
  History = FALSE
PROPERTIES TimeoutKept RoundsEnd
CHECK_DEADLOCK FALSE
