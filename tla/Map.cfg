SPECIFICATION MapSpec
CONSTANTS
  Keys <- FourKeys
  Cells <- FourKeys
  FreshCells <- CellOfKey
  Calls = {"insert", "erase", "clear", "free"}
  Values = {v, w}
  CALLER = CALLER
  UNINIT = UNINIT
  NULL = NULL
INVARIANTS
  MapTypeOK
  EveryCellOwnedOnce
  KeysInPlace
PROPERTIES
  CellsStay
  ImplementsDictionary
SYMMETRY ValuesAlike
CHECK_DEADLOCK FALSE
