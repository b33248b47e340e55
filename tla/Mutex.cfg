SPECIFICATION Spec
CONSTANTS
  main = main
  t1 = t1
  t2 = t2
  m1 = m1
  m2 = m2
  Threads = {main, t1, t2}
  FirstThread = main
  Mutexes = {m1, m2}
  NULL = NULL
  MaxInterrupts = 1
  Forking = TRUE
SYMMETRY Symmetry
INVARIANTS
  TypeOK
  OwnersRelease
  NoLostWakeup
  SleeperCount
  DeadlockWatched
PROPERTIES
  NoFalseDeadlock
