CONSTANTS
  Tag = {0, 1, 2}
  Index = {0}
  LineLen = 2
  Lane = {1}
  Byte = {0, 1}
  NumWays = 2
  NumInputs = 2
  Requests <- LineRequests
  Fetches <- LineFetches
  NoData = NoData
SPECIFICATION FairSpec
INVARIANT BeatsBelongToGrant
INVARIANT NoReadPastWrite
PROPERTY FetchGetsMemory
PROPERTY MatchesDevice
PROPERTY DataServed
PROPERTY FetchServed
CHECK_DEADLOCK TRUE
