SPECIFICATION CalendarSpec
CONSTANTS
  LastDay = 24853
  Stride = 85000
INVARIANT GpsTimeIsRight
CHECK_DEADLOCK FALSE
