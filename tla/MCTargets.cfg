CONSTANTS
  NumWorkers = 3
  NumTests = 2
  Item = {0, 1, 2}
  None = 0
  Address = {0, 1}
  Tag = {0, 1, 2}
  Index = {0}
  LineLen = 2
  Lane = {1, 2}
  Byte = {0, 1}
  NumWays = 1
  TestRequests <- PipelineRequests
  MaxTasks = 2
  CachedRequests <- PortCached
  UncachedRequests <- PortUncached
  MaxTyped = 2
  MaxSent = 2
SPECIFICATION TargetsSpec
INVARIANT VerdictIsRight
INVARIANT ReadsReference
INVARIANT BufferAnswersInOrder
INVARIANT PortLoadsInOrder
INVARIANT PeripheralsInOrder
PROPERTY IsFifo
PROPERTY RunnerEnds
PROPERTY FenceReturns
CHECK_DEADLOCK FALSE
