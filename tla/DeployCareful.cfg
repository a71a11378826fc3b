SPECIFICATION Spec
CONSTANTS
  p1 = p1
  p2 = p2
  Procs <- OneProc
  Names = {1, 2, 3, 4}
  Timestamps = {1, 2, 3, 4}
  Destructive = {1, 3}
  OnCompleteSQL = {}
  RawSQL = {4}
  Backfilled = {2}
  Irreversible = {}
  Modes = {TRUE, FALSE}
  Verbs = {"migrate", "complete", "rollback", "revert", "force"}
  Careful = TRUE
  CrashAt <- OutsideOwnComplete
  TriggerErrors = FALSE
INVARIANTS HistoryCoversSchema FleetServed 
