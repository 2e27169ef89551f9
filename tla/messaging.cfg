SPECIFICATION Spec
CONSTANTS
  Instance = {i1, i2}
  Call = {c1}
  None = None
  MaxRetries = 2
  MaxMoves = 3
  MaxTroubles = 2
  Message = {m1}
  MaxCopies = 3
  MaxFaults = 3
  Execution = {x1, x2}
  MaxEvents = 3
  MaxLives = 2
  MaxFailures = 1
  MethodName = {g1}
  Pattern = {p1, p2}
  Handler = {h1, h2}
  Nothing = Nothing
  MaxChanges = 3
  AdapterSize = 3
  MaxLinks = 3
  PoolSize = 3
  MinSize = 1
  Target = {t1, t2, t3}
  Borrower = {b1, b2, b3}
  MaxTurns = 8
  MaxOutages = 2
  Node = {n1, n2}
  Work = {w1, w2}
  MaxMishaps = 1
  MaxClock = 16
  Peer = {q1, q2}
  Listener = {l1, l2}
  Order = {o1, o2}
  StreamLimit = 3
  MaxUpsets = 2
  Replica = {e1}
  MaxPings = 3
  BatchSize = 2
  MaxGlitches = 1
  Seller = {s1, s2}
  MaxOrders = 2
  MaxAttempts = 2
  MaxElections = 2
  MaxDelays = 3
\* calls end and are not made again, commands and events are sent once
CHECK_DEADLOCK FALSE
INVARIANTS
  CallsSound
  DeliverySound
  AggregatesSound
  HandlersSound
  PoolsSound
  ElectionsSound
  HybridSound
  EchoSound
  OrdersSound
PROPERTIES
  NothingIsLeft
