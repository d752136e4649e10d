SPECIFICATION TransfersSpec
CHECK_DEADLOCK FALSE
CONSTANTS
  Versions = {1}
  Sizes = {2, 3}
  Window = 2
  Late = FALSE
  Steady = TRUE
  Factory = Factory
  Broken = Broken
  NoImage = NoImage
  Zero = Zero
  NoFile = NoFile
  NoState = NoState
  Torn = Torn
  Value = {v1, v2}
  Unset = Unset
  FifoSize = 3
  Capacity = 2
  MaxBlock = 2
  Blocks = 2
  Skip = 1
  MaxFlag = 2
  MaxLoss = 2
  MaxBoot = 1
  MaxVoice = 2
  MaxCount = 2
  IndexRange = 3
  Packs = 2
  Lengths = {2}
  Times = {1, 2}
  Distinct = TRUE
  LateResult = FALSE
INVARIANTS TransfersTypeOK AlwaysBootable AidingWhole AckedWasReceived
PROPERTIES RingsAreQueues Updated AidingComes NoOverwrite RecorderGoesOn
