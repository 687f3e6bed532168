SPECIFICATION Spec
CONSTANTS
  W = 7
  BlkSizes = {1}
  SetCounts = {1, 2, 3, 4, 6, 8}
CHECK_DEADLOCK FALSE
INVARIANTS
  LineNamesBlock
