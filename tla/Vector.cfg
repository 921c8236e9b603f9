SPECIFICATION Spec
CONSTANTS
  VECTOR_MIN_CAPACITY = 2
  Values = {a, b}
  UNINIT = UNINIT
  OwnPushWhenFull = FALSE
  MaxSize = 5
  MaxCalls = 11
  NULL = NULL
INVARIANTS
  TypeOK
  SizeWithinCapacity
  AmortisedCost
  CapacityTight
PROPERTIES
  ImplementsStack
CHECK_DEADLOCK FALSE
