SPECIFICATION StoreSpec
CONSTANTS
  Memories = {m1}
  Statements = {fact}
  Sources = {s1}
  Scores = {"low", "high"}
  Starts = {"null"}
  Lossy = TRUE
  None = None
CHECK_DEADLOCK FALSE
INVARIANT
  RejectionAudited
