SPECIFICATION Spec
CONSTANTS
  None = None
  Reqs <- AllReqs
  Op <- OpOf
  Batches <- AllBatches
  Emails = {"ann", "bob", "eve"}
  Subjects = {"g"}
  Registered = {"ann", "bob"}
  Sessions <- AllSessions
  Opened <- OpenedTabs
  MaxFails = 2
  Devs = {"d1", "d2", "d3", "d4", "d5"}
  OwnerOf <- FirstOwner
  Keys = {"k1", "k2", "k3", "k4", "k5"}
  KeysOf <- FirstKey
  Prints = {"f"}
  Codes = {"c"}
  Methods = {"tap", "push", "pull", "computer"}
  MaxFaults = 1
INVARIANTS
  Whole
  Delivered
  AccountsApart
  Authorised
  OneDevicePerPairing
  LockoutBounds
  OneIdentity
PROPERTIES
  RetentionHolds
\* Every request is answered in the end.
CHECK_DEADLOCK FALSE
