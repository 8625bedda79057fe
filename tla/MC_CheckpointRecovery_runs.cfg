\* Four bytes in two ranges that two workers fetch and may split once, one crash
\* or shutdown and one call of the user, at any point.
CONSTANTS
  Total = 4
  MaxWorkers = 2
  SplitMinimum = 1
  MaxAttempts = 1
  Connections = {2}
  CrashInFallback = FALSE
  Budget <- OneCrash
SPECIFICATION Spec
INVARIANTS RecoveryTypeOK SegmentsCover WritersDisjoint NothingForgotten FinalReportIsLast CheckpointBacked RecoveryAlwaysPossible
PROPERTIES RunEnds ProgressIsKept
CHECK_DEADLOCK FALSE
