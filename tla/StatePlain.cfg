SPECIFICATION Spec
CONSTANTS
  Callers = {alice, bob}
  Sizes = {1, 2, 6}
  MaxEntries = 3
  MaxBytes = 5
  Ttl = 1
  SoftCap = FALSE
  MaxInserts = 4
  MaxClock = 2
SYMMETRY CallersSymmetry
INVARIANTS StoreBounded
PROPERTIES KeepsPromise ReadSurvivesInsert
