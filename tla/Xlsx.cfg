SPECIFICATION XlsxSpec
CONSTANTS
  NoCache = NoCache
  NoCount = NoCount
  Bad = Bad
  Gap = Gap
  NaN = NaN
  NoPart = NoPart
  Packages <- MCPackages
  MaxEntries = 6
  MaxMember = 3
  MaxTotal = 7
  ChunkSize = 2
  MaxColumn = 3
INVARIANTS XlsxTypes ChartsShownOnce ValuesInPlace DiagramSaysTheTable
CHECK_DEADLOCK FALSE
