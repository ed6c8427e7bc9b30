SPECIFICATION StoreFairSpec
CONSTANTS
  MaxSteps = 3
  Bare = {2}
  Keep = 1
  Window = 1
  MaxFaults = 1
INVARIANTS
  Kept
PROPERTIES
  OnlyOldGo
  WindowHolds
