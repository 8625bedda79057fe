\* The same, with a crash also where one stream has emptied the file and not yet
\* replaced the checkpoint in the row.
CONSTANTS
  Total = 2
  MaxWorkers = 2
  SplitMinimum = 1
  MaxAttempts = 1
  Connections = {2}
  CrashInFallback = TRUE
  Budget <- OneCrash
SPECIFICATION Spec
INVARIANTS PublishedIsComplete
CHECK_DEADLOCK FALSE
