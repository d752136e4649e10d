SPECIFICATION StorageSpec
CONSTANTS
  MaxRecord = 3
  RamMax = 1
  CacheMax = 1
  HisMax = 2
  Faults = {"crash", "read", "write", "alloc", "send", "wipe"}
  Types = {W1, GS05}
  DefaultType = W1
  NoType = NoType
  Bad = Bad
  MaxChange = 2
  Versions = {1}
  Sizes = {2, 3}
  Window = 2
  Factory = Factory
  Broken = Broken
  NoImage = NoImage
  Zero = Zero
  NoFile = NoFile
  NoState = NoState
  Torn = Torn
  Steady = TRUE
  LastDay = 24853
  Stride = 85000
INVARIANTS StorageTypeOK FileSound FileWhole CalendarAgrees FirmwareKept
PROPERTIES RestoredSettings
