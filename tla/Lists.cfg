SPECIFICATION Spec
CONSTANTS
  Cell = {c1, c2, c3, c4, c5, c6}
  NULL = NULL
  MaxInst = 5
SYMMETRY Addresses
CHECK_DEADLOCK FALSE
INVARIANTS
  ListsTypeOK
  ListsHoldMemory
  SortKeepsNodes
PROPERTIES
  ImplementsQueues
