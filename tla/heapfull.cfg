CONSTANTS
  HeapWords = 22
  Requests <- Sizes
SPECIFICATION Spec
CHECK_DEADLOCK FALSE
INVARIANT NeverWild
