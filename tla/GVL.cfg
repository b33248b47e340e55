SPECIFICATION Spec
CONSTANTS
  main = main
  t1 = t1
  t2 = t2
  Threads = {main, t1, t2}
  MainThread = main
  NULL = NULL
INVARIANTS
  TypeOK
  MutualExclusion
  WaitingCount
  NoLostWakeup
  YieldProtocol
  TimerAwake
PROPERTIES
  TimeSliceEnds
  YieldReturns
  ImplementsLock
