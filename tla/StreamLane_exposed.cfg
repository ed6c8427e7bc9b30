SPECIFICATION Spec
CONSTANTS
  s1 = s1
  tunnel = tunnel
  Streams = {s1}
  Caps = {tunnel}
  Need <- NeedTunnel
  Admins = {a1}
  Buffer = 1
  MaxData = 0
INVARIANT LiveStreamsAllowed
CHECK_DEADLOCK FALSE
