SPECIFICATION Spec
CONSTANTS
  Chunk = 4
  Align = 2
  SizeMod = 64
  Pools <- OnePool
  Sizes = {1, 63}
  Addresses <- AddressRange
  Debug = TRUE
  MaxInits = 1
  NULL = NULL
INVARIANTS
  CapacityCovers
CHECK_DEADLOCK FALSE
