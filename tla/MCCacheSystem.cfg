CONSTANTS
  Tag = {0, 1, 2}
  Index = {0}
  LineLen = 2
  Lane = {1, 2}
  Byte = {0, 1}
  NumWays = 2
  Requests <- SomeRequests
  NoData = NoData
SPECIFICATION FairSpec
INVARIANT TypeOK
INVARIANT OrderIsPermutation
INVARIANT NoDuplicateLines
INVARIANT DirtyIsValid
INVARIANT CleanLinesMatchMemory
INVARIANT BeatsInLockstep
INVARIANT RequestHeldDuringBurst
PROPERTY AnswersEveryRequest
CHECK_DEADLOCK TRUE
