SPECIFICATION FairSpec
CONSTANTS
  NULL = NULL
  Args <- AllArgs
  AssocMod = 4
  WordMod = 16
  MaxInst = 5
CHECK_DEADLOCK FALSE
INVARIANTS
  MemoryBalanced
  CachesWired
  LinesReadExactly
PROPERTIES
  ProgramEnds
