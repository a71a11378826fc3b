SPECIFICATION Spec
CONSTANTS
  p1 = p1
  p2 = p2
  Procs <- OneProc
  Names = {1, 2, 3}
  Timestamps = {1, 2, 3}
  Destructive = {1, 2}
  OnCompleteSQL = {2}
  RawSQL = {2, 3}
  Backfilled = {2}
  Irreversible = {3}
  Modes = {TRUE, FALSE}
  Verbs = {"migrate", "complete", "rollback", "revert", "force"}
  Careful = FALSE
  CrashAt <- Steps
  TriggerErrors = TRUE
INVARIANTS TypeOK SealedPrecedesContraction WindowIsSuffix
PROPERTIES ContractionUnblocked SealedNeverReverted ImplementsHistory
