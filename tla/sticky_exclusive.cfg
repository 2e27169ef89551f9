SPECIFICATION Spec
CONSTANTS
  Instance = {a, b, c}
  NoOne = NoOne
  LeaseExpires = FALSE
  ExpiryNotifies = FALSE
  HeartbeatDriven = FALSE
  MaxStarts = 1
  MaxFaults = 1
  MaxLag = 2
CHECK_DEADLOCK FALSE
SYMMETRY Symmetry
INVARIANTS ActiveHoldsKey
PROPERTIES ImplementsLock
