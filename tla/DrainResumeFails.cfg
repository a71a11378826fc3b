SPECIFICATION Spec
CONSTANTS
  Base <- MCBase
  Trains <- Drained
  FiringOrders = {1}
  CrashIn = {"alter_column"}
  Known <- NoneKnown
  MaxUndos = 0
  MaxCrashes = 1
INVARIANTS NothingFails
