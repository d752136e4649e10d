SPECIFICATION Spec
CONSTANTS
  CacheMax = 2
  Width = 20
  Bases = {0}
  RecordLens = {2}
  OtherLens = {1, 2}
  Escapes = {0}
  StreamMax = 10
INVARIANTS
  ConfirmedWasAcked
