SPECIFICATION FairSpec
CONSTANTS
  Instance = {a, b}
  NoOne = NoOne
  MaxAttempts = 2
  MaxFailures = 3
  MaxStarts = 1
  MaxTroubles = 1
CHECK_DEADLOCK FALSE
INVARIANTS
  ActiveHoldsKey
PROPERTIES
  KeyIsLock
  OwnKeyFound
