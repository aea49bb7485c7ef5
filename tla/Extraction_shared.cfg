SPECIFICATION Spec
CONSTANTS
  Memories = {m1, m2}
  Statements = {fact}
  Sources = {s1, s2}
  Scores = {"low", "high"}
  Starts = {"null"}
  Lossy = TRUE
  None = None
  Workers = {w1, w2}
  Users = TRUE
  AutoPromote = TRUE
  KeepUnpromoted = TRUE
  Faults = TRUE
  MaxProposals = 1
  MaxRuns = 2
SYMMETRY Symmetry
CHECK_DEADLOCK FALSE
INVARIANT
  RecurrenceBacked
PROPERTIES
  HistoryKept
  UsesStore
