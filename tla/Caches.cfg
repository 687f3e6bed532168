SPECIFICATION CacheSpec
CONSTANTS
  L2Given = {TRUE, FALSE}
  BlkSize = 4
  Size <- Sizes
  Assoc <- TwoWays
  Addr <- Mixed
  RefType = {"r","w"}
  MaxRequests = 5
CHECK_DEADLOCK FALSE
INVARIANTS
  CacheTypeOK
  OneCopy
  StatsBalance
  ReportPrintsEach
PROPERTIES
  DirtyKept
  LatencyNamesLevel
  ImplementsLRU
