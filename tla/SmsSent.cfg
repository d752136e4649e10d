SPECIFICATION Spec
CONSTANTS
  QueueLen = 2
  MaxTimes = 3
  MaxMsg = 4
  MaxFail = 3
CHECK_DEADLOCK FALSE
INVARIANT PoppedWasSent

