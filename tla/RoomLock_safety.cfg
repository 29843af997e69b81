\* Two calls of withLock on one room, crashes, late and resent commands.
SPECIFICATION Spec
CONSTANTS
  c1 = c1
  c2 = c2
  None = None
  Calls <- TwoCalls
  LockTtl = 2
  Heartbeat = 1
  AcquireBudget = 1
  LateKinds = {"acquire", "write"}
SYMMETRY Symmetric
INVARIANTS
  TypeOK
  MutualExclusion
  AcknowledgedIsStored
PROPERTIES
  SerialSpec
  FencedSpec
CHECK_DEADLOCK FALSE
