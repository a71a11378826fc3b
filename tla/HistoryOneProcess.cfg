SPECIFICATION Spec
CONSTANTS
  Names = {1, 2, 3}
  Timestamps = {1, 2, 3, 4}
  StampTypes = {"pgroll", "inferred"}
  BaselineFiles = {1}
  Admins <- OneProc
  p1 = p1
  p2 = p2
  Procs <- OneProc
INVARIANTS TypeOK LinearHistory SingleActive ActiveIsLeaf
PROPERTIES PruneExact RebaselineKeepsPlan
