SPECIFICATION SystemSpec
CONSTANTS
  N = 2
  S = 2
  r1 = r1
  r2 = r2
  Reg = {r1, r2}
  NoReg = NoReg
  NoValue = NoValue
  TraceEntry <- LoadLines
  MaxTrace = 4
  HasL1 = TRUE
  LookupLatency = {5, 10, 20}
  CounterMod = 256
  CycleMod = 1024
  L2Given = {TRUE, FALSE}
  BlkSize = 4
  Size <- OneBlock
  Assoc <- Ways
  Addr = {4, 5, 8, 12}
  RefType = {"r"}
  MaxRequests = 4
CHECK_DEADLOCK FALSE
INVARIANTS
  OnTime
  LookupOnce
  TimesMatchStats
  KeepsPace
PROPERTIES
  ImplementsScheduler
