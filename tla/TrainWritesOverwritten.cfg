SPECIFICATION Spec
CONSTANTS
  Keys <- MCKeys
  Jobs <- OneAlter
  Identities = {"text"}
  Finals = {FALSE}
  BatchSize = 2
  Budget = 0
  FailAt = {}
  MaxWrites = 2
INVARIANTS
  WritesPropagate
CHECK_DEADLOCK FALSE
