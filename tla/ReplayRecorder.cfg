SPECIFICATION RecorderFairSpec
CONSTANTS
  a1 = a1
  a2 = a2
  l1 = l1
  Nothing = Nothing
  Acts = {a1, a2}
  Looks = {l1}
  Buffer = 2
  MaxSwitches = 1
INVARIANTS
  FrameFollows
  
PROPERTIES
  Rests
\* Every command may be done.
CHECK_DEADLOCK FALSE
