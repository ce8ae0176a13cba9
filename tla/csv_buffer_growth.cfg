CONSTANTS
  FileIds = {1, 2}
  MaxLines = 5
  MaxLineLen = 1
  Tasks <- MC_RangeTasks
  SkipHeader = 1
  InitBufLen = 2
  MaxBufferSize = 8
  Capacities = {1, 2}
  MaxRescans = 1
  IoErrors = FALSE
  ChangeKinds = {}
  MaxChanges = 0
  ReuseLimits <- MC_ReuseToZero
SPECIFICATION Spec
INVARIANT BufferGrowsOnlyForLongLines
CHECK_DEADLOCK FALSE
