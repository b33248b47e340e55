SPECIFICATION Spec
CONSTANTS
  a = a
  b = b
  Group = {0, 1}
  PlainKeys = {a}
  OrderedKeys = {a}
  Mixed = FALSE
  MaxWrites = 1
  MAX_COPYS = 4
INVARIANTS
  CheckFindsPending
