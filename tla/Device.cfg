SPECIFICATION DeviceSpec
CONSTANTS
  OnTime = 2
  OffTime = 2
  MaxBoot = 1
  MaxMend = 1
  Hold = 2
  Long = 2
  MaxMode = 2
  Window = 1
  Enough = 2
  Sleep = 6
  Study = 1
  Low = 2
  MaxOrder = 1
  MaxStart = 1
  MaxRounds = 8
  MaxFault = 3
  FixHold = 2
  LostHold = 12
  MaxPower = 2
  BufMax = 5
  FifoMax = 7
  MaxFrame = 4
  MaxClose = 1
CHECK_DEADLOCK FALSE
INVARIANTS DeviceTypeOK SensorsAgree MovementKnown
PROPERTIES AlarmsCome PositionsCome
