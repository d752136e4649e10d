SPECIFICATION RecordsSpec
CONSTANTS
  MaxRecord = 3
  QuietRecord = 4
  RamMax = 2
  CacheMax = 1
  HisMax = 3
  Faults = {"crash", "send"}
INVARIANTS Conservation QuietOnce
PROPERTIES NoDurableLoss QuietStore QuietReported
