SPECIFICATION Spec
CONSTANTS
  Cases <- MCCases
  Irreversible = {6}
  Uninvertible = {5}
  Deferred <- MCDeferred
  NoSchema = NoSchema
  Contents = {1, 2}
  MaxCrashes = 1
INVARIANTS HistoryTellsEffects FleetServed TrainNeverStrands RetryIsNoOp BatchOrdered CheckedDirectoryDeploys PlanConverges
PROPERTIES RevertAsPreviewed UndoneStaysUndone InterruptedRevertFinishes
CHECK_DEADLOCK FALSE
