SPECIFICATION FairSpec
CONSTANTS
  N = 1
  S = 2
  r1 = r1
  r2 = r2
  Reg = {r1, r2}
  NoReg = NoReg
  NoValue = NoValue
  TraceEntry <- PressureLines
  MaxTrace = 6
  HasL1 = FALSE
  LookupLatency = {}
  CounterMod = 256
  CycleMod = 64
CHECK_DEADLOCK FALSE
INVARIANTS
  InOrder
  DispatchPrefix
  ListsMatchStates
  DispatchWidth
  IssueGreedy
  DispatchGreedy
  DoneComplete
  ExecNeverFull
  ReportIsASchedule
  KeepsPace
PROPERTIES
  AllWrittenBack
  ImplementsDataflow
