CONSTANTS
  FileIds = {1, 2}
  MaxLines = 3
  MaxLineLen = 2
  Tasks <- MC_WholeTasks
  SkipHeader = 1
  InitBufLen = 2
  MaxBufferSize = 8
  Capacities = {1, 2}
  MaxRescans = 0
  IoErrors = FALSE
  ChangeKinds = {"truncate"}
  MaxChanges = 1
  ReuseLimits <- MC_AnyReuseLimit
SPECIFICATION TruncFairSpec
PROPERTY ScanEnds
CHECK_DEADLOCK FALSE
