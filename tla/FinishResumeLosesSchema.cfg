SPECIFICATION Spec
CONSTANTS
  p1 = p1
  p2 = p2
  Procs <- OneProc
  Names = {1, 2, 3}
  Timestamps = {1, 2, 3}
  Destructive = {1, 2}
  OnCompleteSQL = {1}
  RawSQL = {1}
  Backfilled = {}
  Irreversible = {}
  Modes = {TRUE}
  Verbs = {"migrate", "complete", "revert"}
  Careful = TRUE
  CrashAt = {"drain"}
  TriggerErrors = FALSE
INVARIANTS FleetServed
