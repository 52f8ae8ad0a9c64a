SPECIFICATION SplitSpec
CONSTANTS
  Bytes = {0, 1, 2}
  MaxLen = 14
INVARIANTS
  NalsWhole
CHECK_DEADLOCK FALSE
