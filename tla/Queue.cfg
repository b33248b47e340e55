SPECIFICATION Spec
CONSTANTS
  t1 = t1
  t2 = t2
  t3 = t3
  t4 = t4
  Threads = {t1, t2, t3, t4}
  MaxSize = 2
\* All threads may sleep or be dead.
CHECK_DEADLOCK FALSE
INVARIANTS
  TypeOK
  ListsExact
  PopWakeupKept
  PushWakeupKept
PROPERTIES
  WithinLimit
  PopServed
