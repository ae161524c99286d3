SPECIFICATION Spec
CONSTANTS
  Convs = {a, b}
  Ids = {m, n}
  MaxLen = 2
  Limits = {1}
  MaxLosses = 1
SYMMETRY ConvsAndIds
INVARIANTS TypeOK SpendWithinLimitIfDistinct CachedStaysFree
PROPERTIES VerdictsKept
CHECK_DEADLOCK FALSE
