CONSTANTS
  Base = 2
  MAX_OFFSET = 2
  Values = {0, 1, 6}
  MaxNodes = 9
  MaxLost = 2
  Handles = {1, 2, 3}
  NoSet = NoSet
SPECIFICATION SetSpec
CHECK_DEADLOCK FALSE
PROPERTY
  InsertTellsNew
