SPECIFICATION Spec
CONSTANTS
  Sources <- SmallTree
  MaxArgs = 3
INVARIANTS NoOverwrite InputsOnce ExitTellsTruth
CHECK_DEADLOCK FALSE
