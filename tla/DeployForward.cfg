SPECIFICATION FairSpec
CONSTANTS
  p1 = p1
  p2 = p2
  Procs <- OneProc
  Names = {1, 2, 3}
  Timestamps = {1, 2, 3}
  Destructive = {1, 2, 3}
  OnCompleteSQL = {}
  RawSQL = {3}
  Backfilled = {2}
  Irreversible = {}
  Modes = {TRUE, FALSE}
  Verbs = {"migrate", "complete", "force"}
  Careful = TRUE
  CrashAt <- Steps
  TriggerErrors = FALSE
INVARIANTS BoundarySnapshotClean
PROPERTIES DoneIsMaterialized ContractionFinishes
CHECK_DEADLOCK FALSE
