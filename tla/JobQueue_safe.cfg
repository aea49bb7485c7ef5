SPECIFICATION Spec
CONSTANTS
  j1 = j1
  j2 = j2
  j3 = j3
  Workers = {w1, w2}
  Jobs = {j1, j2, j3}
  CreatedAt <- MCCreatedAt
  BatchSize = 2
  MaxAttempts = 2
  LeaseTime = 2
  JobTime = 1
  BackoffCap = 2
  MaxRestarts = 1
  MaxDbErrors = 1
INVARIANTS
  LeaseInv
  AttemptsBounded
PROPERTIES
  TerminalStable
  LeaseRespected
  ImplementsExclusiveQueue
