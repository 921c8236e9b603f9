SPECIFICATION Spec
CONSTANTS
  Chunk = 4
  Align = 2
  SizeMod = 64
  Pools <- OnePool
  Sizes = {0, 5}
  Addresses <- AddressRange
  Debug = TRUE
  MaxInits = 1
  NULL = NULL
INVARIANTS
  IsAllocatedExact
CHECK_DEADLOCK FALSE
