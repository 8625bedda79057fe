\* Two calls start one download: the second is accepted in the gap between
\* claim and registration, and its run replaces the control of the first.
CONSTANTS
  d1 = d1
  d2 = d2
  w1 = w1
  w2 = w2
  c1 = c1
  c2 = c2
  default = default
  night = night
  Downloads = {d1}
  Workers = {w1, w2}
  Callers = {c1}
  Queues = {default}
  DefaultQueue = default
  DefaultLimit = 2
  Actions = {"start", "resume"}
  Policies <- KeptQueues
  Priority <- SamePriority
  MaxPending = 2
  NoWorker = NoWorker
  NoJob = NoJob
  NoDownload = NoDownload
  Scenarios <- StartTwicePause
SPECIFICATION ServiceSpec
SYMMETRY Symmetry
INVARIANT PausedIsQuiet
CHECK_DEADLOCK FALSE
