SPECIFICATION LiveFairSpec
CONSTANTS
  s1 = s1
  s2 = s2
  v1 = v1
  None = None
  Sessions = {s1}
  Viewers = {v1}
PROPERTY SessionsEnd
\* Every session may be over.
CHECK_DEADLOCK FALSE
