\* A handler that cannot read the record removes the timeout of a round being played.
SPECIFICATION Spec
CONSTANTS
  a = a
  b = b
  r1 = r1
  r2 = r2
  Users <- TwoUsers
  MaxUsers = 2
  Rounds = 2
  Runs <- OneRun
  NoRun = NoRun
  History = FALSE
INVARIANT TimeoutArmed
CHECK_DEADLOCK FALSE
