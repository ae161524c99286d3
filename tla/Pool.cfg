SPECIFICATION Spec
CONSTANTS
  Singles = {s}
  Batches = {b}
  MaxBatch = 2
  MaxConcurrent = 2
INVARIANTS TypeOK TokensConserved NothingLeftBehind
PROPERTIES SettlesAlone EveryCallAnswered
CHECK_DEADLOCK FALSE
