SPECIFICATION Spec
CONSTANTS
  Ask = {1, 2, 3}
  NoDef = NoDef
  MaxDefFaults = 1
  Inst = {i1, i2}
  NoRecord = NoRecord
  Stale = 1
  MaxCleans = 1
  MaxRecordFaults = 1
  Slot = {s1, s2}
  Nothing = Nothing
  MaxTruth = 1
  MaxTroubles = 1
  MaxMounts = 1
  Wanted <- MCWanted
  MaxGenerations = 2
  Given <- MCGiven
  MaxConnections = 2
  MaxChanges = 1
\* requests are made once, and so are reports
CHECK_DEADLOCK FALSE
INVARIANTS
  ListingSound
  ProjectsSound
  ChecksSound
PROPERTIES
  DefinitionsSound
  RecordComesBack
  ScreenSound
