SPECIFICATION Spec
CONSTANTS
  Memories = {m1, m2, m3}
  Statements = {fact, change}
  Sources = {s1, s2}
  Scores = {"low", "high"}
  Starts = {"null", "future"}
  Lossy = TRUE
  None = None
  Workers = {w1}
  Users = FALSE
  AutoPromote = TRUE
  KeepUnpromoted = FALSE
  Faults = TRUE
  MaxProposals = 2
  MaxRuns = 3
SYMMETRY Symmetry
CHECK_DEADLOCK FALSE
INVARIANTS
  OneMemoryPerFact
  ActivePassedThresholds
  NoCandidateLeftBehind
  CheckedProposalsActivate
  EvidenceCounted
PROPERTY
  ActivatedOnEvidence
