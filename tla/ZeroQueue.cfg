SPECIFICATION Spec
CONSTANTS
  N = 1
  S = 0
  r1 = r1
  r2 = r2
  Reg = {r1, r2}
  NoReg = NoReg
  NoValue = NoValue
  TraceEntry <- WakeLines
  MaxTrace = 3
  HasL1 = FALSE
  LookupLatency = {}
  CounterMod = 256
  CycleMod = 32
CHECK_DEADLOCK FALSE
INVARIANTS
  DoneComplete
