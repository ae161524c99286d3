SPECIFICATION Spec
CONSTANTS
  Callers = {alice, bob, carol}
  Sizes = {1, 4, 8}
  MaxEntries = 8
  MaxBytes = 16
  Ttl = 0
  SoftCap = TRUE
  MaxInserts = 5
  MaxClock = 0
SYMMETRY CallersSymmetry
INVARIANTS TypeOK IndexExact BytesExact QuotaKept
PROPERTIES NoNeedlessEviction NeighboursSafe
