SPECIFICATION CxxSpec
CONSTANTS
  Objects = {o1, o2}
  Handles = {h1, h2, h3}
  Kinds = {"vector", "map", "set"}
  Keys = {1, 2}
  Values = {a, b}
  NULL = NULL
  NONE = NONE
  RAW = RAW
  VECTOR_MIN_CAPACITY = 2
  Addresses = {a1}
  MaxSize = 3
  SelfMove = FALSE
  OwnPushWhenFull = FALSE
INVARIANTS
  CxxTypeOK
  HandlesOwnedOnce
  ElementsLiveOnce
  NothingUndefined
  AdapterShowsEntry
PROPERTIES
  ImplementsContainers
SYMMETRY Interchangeable
CHECK_DEADLOCK FALSE
