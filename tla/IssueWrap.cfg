SPECIFICATION Spec
CONSTANTS
  N = 2
  S = 4
  r1 = r1
  r2 = r2
  Reg = {r1, r2}
  NoReg = NoReg
  NoValue = NoValue
  TraceEntry <- WakeLines
  MaxTrace = 5
  HasL1 = FALSE
  LookupLatency = {}
  CounterMod = 2
  CycleMod = 1024
CHECK_DEADLOCK FALSE
INVARIANTS
  IssueWidth
