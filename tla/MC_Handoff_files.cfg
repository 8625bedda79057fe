\* Two callers, two downloads and two names, a request whose answer may be lost, two failing
\* steps and one crash.
CONSTANTS
  d1 = d1
  d2 = d2
  n1 = n1
  n2 = n2
  c1 = c1
  c2 = c2
  h1 = h1
  r1 = r1
  Downloads = {d1, d2}
  Names = {n1, n2}
  Callers = {c1, c2}
  Handoffs = {h1}
  Requests = {r1}
  NoDownload = NoDownload
  NoName = NoName
  NoHandoff = NoHandoff
  Attempts = 1
  Budget <- TwoFaultsOneCrash
SPECIFICATION Spec
SYMMETRY Symmetry
INVARIANTS TypeOK FailuresKeepFiles RecordFindsFile NothingLeftBehind ConfirmedOnce ClaimsHeld
PROPERTIES GoneForGood
CHECK_DEADLOCK FALSE
