\* Two downloads share a pool of two workers and a slice of one job; two callers
\* start and pause each of them once, and resume one.
CONSTANTS
  d1 = d1
  d2 = d2
  w1 = w1
  w2 = w2
  c1 = c1
  c2 = c2
  default = default
  night = night
  Downloads = {d1, d2}
  Workers = {w1, w2}
  Callers = {c1, c2}
  Queues = {default}
  DefaultQueue = default
  DefaultLimit = 2
  Actions = {"start", "resume"}
  Policies <- KeptQueues
  Priority <- SamePriority
  MaxPending = 1
  NoWorker = NoWorker
  NoJob = NoJob
  NoDownload = NoDownload
  Scenarios <- PauseAndResume
SPECIFICATION ServiceFairSpec
INVARIANTS ServiceTypeOK TransferIsControllable PausedIsQuiet NothingStranded
PROPERTIES CompletedIsFinal Settles
CHECK_DEADLOCK FALSE
