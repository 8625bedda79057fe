\* Two schedules and two days of three half minutes; one failing step, one crash, one call of the user.
CONSTANTS
  s1 = s1
  s2 = s2
  Schedules = {s1, s2}
  Settings <- StartStopSkip
  NoSetting = NoSetting
  Saved <- StartThenStop
  DayLength = 3
  Days = 2
  NoTick = NoTick
  Budget <- OneOfEach
SPECIFICATION Spec
INVARIANTS TypeOK AtMostOnce LastScheduleDecides
PROPERTIES ClaimsInOrder CatchesUp
