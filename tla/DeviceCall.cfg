SPECIFICATION FairSpec
CONSTANTS
  s1 = s1
  s2 = s2
  x1 = x1
  x2 = x2
  NoCall = NoCall
  Calls <- Mixed
  Computer <- Computed
  Tid <- ChosenId
  MaxConn = 2
  MaxCalls = 2
INVARIANTS
  PendingExact
  MixupOnlyByReusedId
PROPERTIES
  ImplementsRemoteCall
  CallsReturn
\* Every call may be done and every socket used up.
CHECK_DEADLOCK FALSE
