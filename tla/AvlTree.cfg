SPECIFICATION Spec
CONSTANTS
  Keys <- FiveKeys
  Cells <- FiveKeys
  FreshCells <- CellOfKey
  Calls = {"insert", "erase", "clear", "free"}
  NULL = NULL
INVARIANTS
  TypeOK
  WellLinked
  IterationExact
  BalancedUntilTilted
PROPERTIES
  IteratorsSurvive
  CallReturns
  ImplementsOrderedSet
CHECK_DEADLOCK FALSE
