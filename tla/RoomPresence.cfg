\* One tab, two connections on two servers, one handler of the grace timer.
SPECIFICATION FairSpec
CONSTANTS
  t1 = t1
  t2 = t2
  s1 = s1
  s2 = s2
  r1 = r1
  r2 = r2
  NoSocket = NoSocket
  NoRun = NoRun
  Tabs <- OneTab
  Sockets <- TwoSockets
  Runs <- OneRun
  MaxAttempts = 2
INVARIANTS TypeOK Tracked
PROPERTY OfflineRemoved
CHECK_DEADLOCK FALSE
