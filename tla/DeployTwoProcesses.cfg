SPECIFICATION Spec
CONSTANTS
  p1 = p1
  p2 = p2
  Procs <- TwoProcs
  Names = {1, 2}
  Timestamps = {1, 2}
  Destructive = {1}
  OnCompleteSQL = {}
  RawSQL = {}
  Backfilled = {}
  Irreversible = {}
  Modes = {TRUE}
  Verbs = {"migrate", "rollback"}
  Careful = FALSE
  CrashAt = {}
  TriggerErrors = FALSE
PROPERTIES ImplementsHistory
CHECK_DEADLOCK FALSE
