SPECIFICATION Spec
CONSTANTS
  Procs = {p, q}
  Threads = {t, u}
  Keys = {k, l}
  MaxSets = 4
  MaxCrashes = 2
INVARIANTS TypeOK Durable MemoryCoversFile
PROPERTIES NextWriteHeals
CHECK_DEADLOCK FALSE
