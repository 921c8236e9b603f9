SPECIFICATION Spec
CONSTANTS
  Keys <- NineKeys
  Cells <- NineKeys
  FreshCells <- CellOfKey
  Calls = {"insert"}
  NULL = NULL
INVARIANT
  NeverCrashes
CHECK_DEADLOCK FALSE
