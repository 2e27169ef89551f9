SPECIFICATION FairSpec
CONSTANTS
  Service = {s1}
  Request = {r1, r2}
  Nothing = Nothing
  NoAnswer = NoAnswer
  MaxEntries = 1
  TTL = 2
  MaxAttempts = 2
  InnerRaises = TRUE
  KeysDotted = TRUE
  MaxVersion = 1
  MaxFaults = 1
INVARIANTS
  CacheBounded
PROPERTIES
  FailureServesCache
  AnswersCatchUp
  WatchKeepsUp
