SPECIFICATION FairSpec
CONSTANTS
  c1 = c1
  c2 = c2
  None = None
  Claimers = {c1, c2}
  Fronts = {"daemon", "gui"}
  MaxClaimAttempts = 2
  MaxTransient = 2
  MaxIds = 1
  MaxCode = 2
  MaxFaults = 2
INVARIANTS
  GuessesBounded
PROPERTIES
  DaemonKeepsIdentity
  CurrentCodeClaims
  Settles
\* The client may be off and nothing else happen.
CHECK_DEADLOCK FALSE
