SPECIFICATION Spec
CONSTANTS
  mix = mix
  stop = stop
  jump = jump
  net = net
  odd = odd
  None = None
  Caps <- AllCaps
  Known <- KnownCaps
  Calls <- FourCalls
  Kind <- KindOf
  Need <- NeedOf
  Broken <- BrokenCalls
  Grants <- TwoGrants
  Edits <- TwoEdits
  MaxCalls = 1
  MaxSock = 2
  MaxEdits = 1
  MaxUpdates = 2
INVARIANTS
  Granted
  FinalSay
  MirrorFollows
\* The calls, edits and sockets may be used up.
CHECK_DEADLOCK FALSE
