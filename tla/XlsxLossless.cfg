SPECIFICATION XlsxSpec
CONSTANTS
  NoCache = NoCache
  NoCount = NoCount
  Bad = Bad
  Gap = Gap
  NaN = NaN
  NoPart = NoPart
  Packages <- MCPackages
  MaxEntries = 6
  MaxMember = 3
  MaxTotal = 7
  ChunkSize = 2
  MaxColumn = 3
INVARIANT TableLossless
CHECK_DEADLOCK FALSE
