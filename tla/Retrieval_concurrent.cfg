SPECIFICATION Spec
CONSTANTS
  Chunks = {c1}
  Memories = {m1, m2}
  Configured = TRUE
  MaxAttempts = 2
  MaxFaults = 1
  None = None
  Backend = "pgroonga"
  Matches <- MatchesValue
  ResultLimit = 2
  CandidateLimit = 1
SYMMETRY Symmetry
CHECK_DEADLOCK FALSE
INVARIANTS
  DoneIsEmbedded
  GivenUpAfterRetries
  HitsWereLive
  MissesNothing
PROPERTY
  AgreementDecides
