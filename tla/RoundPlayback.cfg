\* Two rounds, games one after the other, two lost connections or reloads.
SPECIFICATION FairSpec
CONSTANTS
  Last = 1
  MaxDrops = 2
INVARIANTS TypeOK SilentBefore HeardAfter ReportCounts
PROPERTIES LoadingEnds RoundsSpec
CHECK_DEADLOCK FALSE
