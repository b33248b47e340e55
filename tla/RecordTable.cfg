SPECIFICATION Spec
CONSTANTS
  k1 = k1
  k2 = k2
  k3 = k3
  k4 = k4
  main = main
  t1 = t1
  Keys <- MCKeys
  Tasks <- MCTasks
  Main = main
  MAX_RECORDS = 3
  Base <- MCBase
  UNALLOCATED = UNALLOCATED
  NULL = NULL
INVARIANTS
  TypeOK
  ResultHoldsKey
  ProbeChain
  SettledLookup
  AbortOnlyWhenFull
PROPERTY
  CallReturns
