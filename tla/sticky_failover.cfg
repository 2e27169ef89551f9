SPECIFICATION FairSpec
CONSTANTS
  Instance = {a, b}
  NoOne = NoOne
  LeaseExpires = TRUE
  ExpiryNotifies = TRUE
  HeartbeatDriven = FALSE
  MaxStarts = 2
  MaxFaults = 0
  MaxLag = 2
CHECK_DEADLOCK FALSE
PROPERTIES StaleLeaderStepsDown StandbyTakesOver
