\* The bandwidth limit or the queue of a download is edited while it runs: the row is read
\* before the run ends and written after it, with the state it had.
CONSTANTS
  d1 = d1
  d2 = d2
  w1 = w1
  w2 = w2
  c1 = c1
  c2 = c2
  default = default
  night = night
  Downloads = {d1}
  Workers = {w1}
  Callers = {c1}
  Queues = {default}
  DefaultQueue = default
  DefaultLimit = 2
  Actions = {"start", "resume"}
  Policies <- KeptQueues
  Priority <- SamePriority
  MaxPending = 2
  NoWorker = NoWorker
  NoJob = NoJob
  NoDownload = NoDownload
  Scenarios <- StartAndEdit
SPECIFICATION ServiceSpec
PROPERTIES CompletedIsFinal
CHECK_DEADLOCK FALSE
