SPECIFICATION Spec
CONSTANTS
  VECTOR_MIN_CAPACITY = 2
  Values = {a, b}
  UNINIT = UNINIT
  OwnPushWhenFull = TRUE
  MaxSize = 5
  MaxCalls = 11
  NULL = NULL
PROPERTIES
  PushBackCopies
CHECK_DEADLOCK FALSE
