SPECIFICATION FairSpec
CONSTANTS
  d1 = d1
  a1 = a1
  a2 = a2
  NoConn = NoConn
  PongMissBudget = 2
  Devices <- OneDevice
  Conns <- TwoSockets
  Dev <- OwnerOf2
INVARIANTS
  Sound
PROPERTIES
  EntryLostOnlyByOwner
  GoesOffline
\* Every socket may finish and no device is obliged to dial again.
CHECK_DEADLOCK FALSE
