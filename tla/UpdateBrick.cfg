SPECIFICATION Spec
CONSTANTS
  Versions = {1}
  Sizes = {2}
  Window = 2
  Late = FALSE
  Steady = FALSE
  Factory = Factory
  Broken = Broken
  NoImage = NoImage
  Zero = Zero
  NoFile = NoFile
  NoState = NoState
  Torn = Torn
INVARIANTS
  AlwaysBootable
