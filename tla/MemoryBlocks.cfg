SPECIFICATION CSpec
CONSTANTS
  Chunk = 4
  Align = 2
  SizeMod = 64
  Pools <- PoolsOfAllShapes
  Sizes = {1, 8, 9}
  Addresses <- AddressRange
  Debug = TRUE
  MaxInits = 2
  NULL = NULL
  Indeterminate = Indeterminate
INVARIANTS
  TypeOK
  RegionsDisjoint
  ListIsComplete
  HeldIsListed
  CapacityCovers
  IsAllocatedExact
  CountersExact
  ContentsKept
PROPERTIES
  MallocTakesLowestHole
  ReallocFindsRoom
  FreeAcceptsExactlyHeld
  NoAssertionOnHeld
  ImplementsHeap
CHECK_DEADLOCK FALSE
