SPECIFICATION Spec
CONSTANTS
  Keys <- EightKeys
  Cells <- EightKeys
  FreshCells <- CellOfKey
  Calls = {"insert"}
  NULL = NULL
INVARIANTS
  IterationExact
  BalancedUntilTilted
CHECK_DEADLOCK FALSE
