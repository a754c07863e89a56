CONSTANTS
  Base = 2
  MAX_OFFSET = 2
  Values = {0, 1, 6}
  MaxNodes = 9
  MaxLost = 2
  Handles = {1, 2, 3}
  NoSet = NoSet
  WordBytes = 4
  Lanes = 4
  LengthLimit = 40
  Lengths = {1, 3, 7, 16, 37}
  MaxLength = 60
  IntStack = 143
  Stack = 127
  Unmapped = {7}
  Threads = {1, 2}
  Texts <- Accesses
SPECIFICATION MCSpec
CHECK_DEADLOCK FALSE
INVARIANTS
  ForeachAscends
  TreesAreOwned
  DigestIsOneShot
  ResumesAsLeft
  TrackedAreTouched
PROPERTIES
  ImplementsSetStore
  OnlyGhostsAreLost
  MachineEnds
