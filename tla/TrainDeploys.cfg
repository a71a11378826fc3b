SPECIFICATION Spec
CONSTANTS
  Base <- MCBase
  Trains <- MCTrains
  FiringOrders <- EitherOrder
  CrashIn = {"create_table", "drop_table", "rename_table", "drop_column", "rename_column", "rename_constraint", "create_index", "drop_index", "replica_identity", "sql"}
  Known <- MCKnown
  MaxUndos = 1
  MaxCrashes = 1
INVARIANTS NothingFails ValidatedAsIfCompleted SealedAsDeclared VersionsServe InversionRestores
PROPERTIES UndoRestores
