CONSTANTS
  HeapWords = 22
  Requests <- Sizes
SPECIFICATION Spec
CHECK_DEADLOCK FALSE
INVARIANTS
  StatsMatch
  Tiling
  LiveBlocks
  FreeListExact
  BestFit
PROPERTIES
  CallsReturn
  ImplementsAllocator
