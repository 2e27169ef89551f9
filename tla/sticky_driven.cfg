SPECIFICATION FairSpec
CONSTANTS
  Instance = {a, b}
  NoOne = NoOne
  LeaseExpires = TRUE
  ExpiryNotifies = FALSE
  HeartbeatDriven = TRUE
  MaxStarts = 1
  MaxFaults = 1
  MaxLag = 1
CHECK_DEADLOCK FALSE
INVARIANTS
  RevisionOwned
PROPERTIES
  ReleaseOnlyOwn
  LostLeaderForgets
