CONSTANTS
  None = None
  Star = Star
  Reqs = {"a", "b", "c", "d"}
  Scenarios <- MCScenarios
  Sorted <- MCSorted
  Channel = 1
  MaxRows = 3
  MaxBytes = 4
  MaxWasm = 3
  MaxMemory = 4
  RowsPerFrame = 2
  FrameBudget = 4
  RowMax = 4
SPECIFICATION Spec
INVARIANTS ServedTruly RequestsTold
PROPERTIES StatementsDecided EveryRequestEnds
CHECK_DEADLOCK FALSE
