SPECIFICATION TxSpec
CONSTANTS
  Memories = {m1, m2, m3}
  Statements = {fact}
  Sources = {s1}
  Scores = {"low"}
  Starts = {"null", "future"}
  Lossy = TRUE
  None = None
  Handlers = {h1, h2}
SYMMETRY Symmetry
CHECK_DEADLOCK FALSE
INVARIANTS
  OneSuccessor
  HistoryHasOrigin
  ValidityMatchesStatus
  ReadsHold
  NoDeadlock
PROPERTY
  ImplementsStore
