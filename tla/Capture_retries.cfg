SPECIFICATION FairSpec
CONSTANTS
  c1 = c1
  c2 = c2
  c3 = c3
  k1 = k1
  Clients = {c1, c2, c3}
  Keys = {k1}
  Key <- MCKey
  Connections = {h1, h2}
  Ids = {1, 2, 3, 4}
  Chunks = 2
  Extracting = TRUE
  MaxFaults = 2
  None = None
CHECK_DEADLOCK FALSE
INVARIANTS
  OneSourcePerEvent
  WholeSources
  AnswerIsTrue
PROPERTY
  EventuallyStored
  ImplementsAtomicIngestion
