SPECIFICATION Spec
CONSTANTS
  Convs = {a}
  Ids = {m}
  MaxLen = 2
  Limits = {1}
  MaxLosses = 1
INVARIANTS SpendWithinLimit
CHECK_DEADLOCK FALSE
