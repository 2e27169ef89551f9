SPECIFICATION FairSpec
CONSTANTS
  Task = {t1, t2}
  None = None
  Settable = {"ACTIVE", "UNHEALTHY"}
  MaxFailures = 2
  MaxStarts = 2
  MaxChanges = 1
  MaxTroubles = 2
CHECK_DEADLOCK FALSE
INVARIANTS
  HealthyBeats
PROPERTIES
  RemovedStaysRemoved
  StopEndsBeats
  RecordFollows
