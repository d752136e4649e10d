SPECIFICATION Spec
CONSTANTS
  Protocols = {"jt808"}
  FifoMax = 9
  Patience = 3
  MaxBad = 2
  MaxSpeak = 2
CHECK_DEADLOCK FALSE
PROPERTY HeadAfterSkip
