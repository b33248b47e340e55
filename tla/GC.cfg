SPECIFICATION Spec
CONSTANTS
  HEAP_SLOTS = 3
  RVALUE_OLD_AGE = 2
  MaxUnprotected = 1
INVARIANTS
  TypeOK
  LiveKept
  NoBlackToWhite
  OldToYoungRemembered
  BitsAgree
  GarbageFreed
