SPECIFICATION Spec
CONSTANTS
  Memories = {m1, m2}
  Statements = {fact}
  Sources = {s1, s2}
  Scores = {"low", "high"}
  Starts = {"null"}
  Lossy = FALSE
  None = None
  Workers = {w1}
  Users = FALSE
  AutoPromote = TRUE
  KeepUnpromoted = TRUE
  Faults = FALSE
  MaxProposals = 1
  MaxRuns = 1
SYMMETRY Symmetry
CHECK_DEADLOCK FALSE
INVARIANT
  ActivePassedThresholds
