SPECIFICATION Spec
CONSTANTS
  Self = Self
  Other = {o1}
  NoOne = NoOne
  MaxTtl = 11
  MaxEvents = 2
  Delays = {1, 10, 50, 600, 1000}
  Factors = {2, 10}
  Jitters = {0, 1, 10}
  Default = Default
  MaxRetries = 3
  Windows = {10, 20, 100}
  Slow = 60
  Name <- MCName
  Reserved <- MCReserved
  MaxRecords = 3
  MaxEntries = 2
  Spans = {1, 3, 118, 7200, 172800}
  Offsets = {0, 7200}
  MaxBumps = 3
  MaxSteps = 3
  Request = {q1}
  Latencies = {1, 6, 11}
  MaxTimed = 3
  MaxOthers = 2
\* calls and elections end
CHECK_DEADLOCK FALSE
INVARIANTS
  BallotSound
  WaitsSound
  NamesSound
PROPERTIES
  ValuesSound
  TelemetrySound
