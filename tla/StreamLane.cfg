SPECIFICATION FairSpec
CONSTANTS
  s1 = s1
  tunnel = tunnel
  Streams = {s1}
  Caps = {tunnel}
  Need <- NeedTunnel
  Admins = {a1}
  Buffer = 1
  MaxData = 3
INVARIANTS
  Ordered
  Released
  RevocationCuts
PROPERTY
  TeardownCompletes
\* A stream may be over and nothing else happen.
CHECK_DEADLOCK FALSE
