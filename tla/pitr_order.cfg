SPECIFICATION BasesSpec
CONSTANTS
  LastSegment = 5
  DayLength = 4
  KeepBase = 2
  CompactGap = 2
CONSTRAINT OneScript
INVARIANT StaysContinuous
CHECK_DEADLOCK FALSE
