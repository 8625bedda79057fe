\* Three segments on three slots: overloads put some to sleep, releases and
\* successes wake them.
CONSTANTS
  s1 = s1
  s2 = s2
  s3 = s3
  Calls = {s1, s2, s3}
  Desired = 3
  MaxAttempts = 2
SPECIFICATION FairSpec
INVARIANTS TypeOK SlotsHeld StreakWithinWindow NoLostWakeup
PROPERTIES EveryCallReturns
CHECK_DEADLOCK FALSE
