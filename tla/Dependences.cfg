SPECIFICATION Spec
CONSTANTS
  N = 2
  S = 2
  r1 = r1
  r2 = r2
  Reg = {r1, r2}
  NoReg = NoReg
  NoValue = NoValue
  TraceEntry <- DependenceLines
  MaxTrace = 4
  HasL1 = FALSE
  LookupLatency = {}
  CounterMod = 256
  CycleMod = 1024
SYMMETRY RegSymmetry
CHECK_DEADLOCK FALSE
INVARIANTS
  TypeOK
  RAWOrder
  NoLostWakeup
  RMTLatest
  OnTime
