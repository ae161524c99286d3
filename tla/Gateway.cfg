SPECIFICATION Spec
CONSTANTS
  t1 = t1
  t2 = t2
  alice = alice
  bob = bob
  Callers <- MCCallers
  Files <- MCFiles
  Local = Local
  Empty = Empty
  NoFile = NoFile
  Unreadable = Unreadable
  Batches = {2, 3}
  Limit = 2
  Window = 2
  MaxAsk = 3
  MaxClock = 4
INVARIANTS TypeOK BurstBound RefusalEarned CallersAreTheFiles FullBatchAdmissible
CHECK_DEADLOCK FALSE
