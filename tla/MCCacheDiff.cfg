CONSTANTS
  Tag = {0, 1, 2, 3}
  Index = {0}
  NumSets = 1
  LineLen = 4
  Lane = {1}
  Byte = {0, 1}
  NumWays = 3
  RefWays = 2
  RefSets = 2
  RefLineLen = 2
  MemWords = 16
  Requests <- WordRequests
  NoData = NoData
SPECIFICATION DiffSpec
INVARIANT SameOutputs
INVARIANT MemoriesDifferInDirtyLines
PROPERTY Transparent
CHECK_DEADLOCK TRUE
