SPECIFICATION Spec
CONSTANTS
  Keys <- MCKeys
  Jobs <- MCJobs
  Identities = {"text", "integer", "none"}
  Finals = {TRUE}
  BatchSize = 2
  Budget = 1
  FailAt = {"triggers", "batch", "cancel"}
  MaxWrites = 2
INVARIANTS
  WritesPropagate
  NoRowLeftBehind
PROPERTIES
  BackfillEnds
CHECK_DEADLOCK FALSE
