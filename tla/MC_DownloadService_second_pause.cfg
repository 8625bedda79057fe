\* A download is paused twice before its run has noticed the first pause: the second call
\* finds the row pausing and takes back the intent of the first.
CONSTANTS
  d1 = d1
  d2 = d2
  w1 = w1
  w2 = w2
  c1 = c1
  c2 = c2
  default = default
  night = night
  Downloads = {d1}
  Workers = {w1}
  Callers = {c1, c2}
  Queues = {default}
  DefaultQueue = default
  DefaultLimit = 2
  Actions = {"start", "resume"}
  Policies <- KeptQueues
  Priority <- SamePriority
  MaxPending = 2
  NoWorker = NoWorker
  NoJob = NoJob
  NoDownload = NoDownload
  Scenarios <- PauseTwice
SPECIFICATION ServiceSpec
PROPERTIES PauseIsNotFailure
CHECK_DEADLOCK FALSE
