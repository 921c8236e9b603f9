SPECIFICATION CxxSpec
CONSTANTS
  Objects = {o1}
  Handles = {h1, h2}
  Kinds = {"vector"}
  Keys = {1}
  Values = {a}
  NULL = NULL
  NONE = NONE
  RAW = RAW
  VECTOR_MIN_CAPACITY = 2
  Addresses = {a1, a2}
  MaxSize = 3
  SelfMove = FALSE
  OwnPushWhenFull = FALSE
INVARIANTS
  ElementsStay
CHECK_DEADLOCK FALSE
