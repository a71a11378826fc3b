SPECIFICATION Spec
CONSTANTS
  p1 = p1
  p2 = p2
  Procs <- OneProc
  Names = {1, 2, 3}
  Timestamps = {1, 2, 3}
  Destructive = {1}
  OnCompleteSQL = {}
  RawSQL = {}
  Backfilled = {}
  Irreversible = {}
  Modes = {TRUE}
  Verbs = {"migrate", "complete", "rollback", "revert"}
  Careful = TRUE
  CrashAt = {"done"}
  TriggerErrors = FALSE
INVARIANTS HistoryCoversSchema
