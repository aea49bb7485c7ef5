SPECIFICATION Spec
CONSTANTS
  Names = {n1, n2}
  Relations = {r1}
  Time <- Instants
  Handlers = {h1, h2}
  MaxRequests = 3
  None = None
SYMMETRY Symmetry
INVARIANTS EarliestCloseStands ReadIsCurrent
PROPERTY PastKept
CHECK_DEADLOCK FALSE
