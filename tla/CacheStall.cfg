SPECIFICATION Spec
CONSTANTS
  N = 1
  S = 1
  r1 = r1
  r2 = r2
  Reg = {r1, r2}
  NoReg = NoReg
  NoValue = NoValue
  TraceEntry <- StreamLines
  MaxTrace = 8
  HasL1 = TRUE
  LookupLatency = {20}
  CounterMod = 256
  CycleMod = 1024
CHECK_DEADLOCK FALSE
INVARIANTS
  ExecNeverFull
