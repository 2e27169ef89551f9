SPECIFICATION Spec
CONSTANTS
  Instance = {a, b}
  NoOne = NoOne
  LeaseExpires = FALSE
  ExpiryNotifies = FALSE
  HeartbeatDriven = FALSE
  MaxStarts = 2
  MaxFaults = 0
  MaxLag = 2
CHECK_DEADLOCK FALSE
INVARIANTS AtMostOneActive
