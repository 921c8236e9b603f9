SPECIFICATION Spec
CONSTANTS
  Keys <- FourKeys
  Cells <- FourKeys
  FreshCells <- CellOfKey
  Calls = {"insert", "erase"}
  NULL = NULL
INVARIANT
  StaysBalanced
CHECK_DEADLOCK FALSE
