SPECIFICATION FairSpec
CONSTANTS
  Instance = {a, b}
  NoOne = NoOne
  MaxAttempts = 2
  MaxFailures = 3
  MaxStarts = 1
  MaxTroubles = 0
CHECK_DEADLOCK FALSE
PROPERTIES
  LossContested
