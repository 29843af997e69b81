\* Two calls of withLock on one room: every call settles, every lock is freed.
SPECIFICATION FairSpec
CONSTANTS
  c1 = c1
  c2 = c2
  None = None
  Calls <- TwoCalls
  LockTtl = 2
  Heartbeat = 1
  AcquireBudget = 1
  LateKinds = {"release"}
INVARIANT LeaseConservative
PROPERTIES
  CallsSettle
  DeadHolderFrees
CHECK_DEADLOCK FALSE
