SPECIFICATION Spec
CONSTANTS
  a = a
  b = b
  Group = {0, 1, 2}
  PlainKeys = {a}
  OrderedKeys = {b}
  Mixed = FALSE
  MaxWrites = 2
  MAX_COPYS = 3
INVARIANTS
  TypeOK
  AccessesListed
  CheckFindsPending
  OrderedReadsSerial
  MergedInOrder
  MergeReadsFilled
PROPERTY
  GroupFinishes
