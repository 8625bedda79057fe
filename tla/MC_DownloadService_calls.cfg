\* Two downloads, two workers, one slot of the default queue and two of the other: starts,
\* cancels, restarts, edits of rows and policies, queue-wide operations and shutdown.
CONSTANTS
  d1 = d1
  d2 = d2
  w1 = w1
  w2 = w2
  c1 = c1
  c2 = c2
  default = default
  night = night
  Downloads = {d1, d2}
  Workers = {w1, w2}
  Callers = {c1}
  Queues = {default, night}
  DefaultQueue = default
  DefaultLimit = 1
  Actions = {"start", "resume"}
  Policies <- EditedQueues
  Priority <- SamePriority
  MaxPending = 2
  NoWorker = NoWorker
  NoJob = NoJob
  NoDownload = NoDownload
  Scenarios <- ManyCalls
SPECIFICATION ServiceFairSpec
INVARIANTS SlotsAccounted CapacityRespected NoLostWakeup
PROPERTIES EventuallyDispatched CloseReturns Quiesces
CHECK_DEADLOCK FALSE
