CONSTANTS
  FileIds = {1, 2}
  MaxLines = 3
  MaxLineLen = 2
  Tasks <- MC_PartZeroTasks
  SkipHeader = 1
  InitBufLen = 2
  MaxBufferSize = 8
  Capacities = {1, 2}
  MaxRescans = 0
  IoErrors = TRUE
  ChangeKinds = {"rewrite"}
  MaxChanges = 1
  ReuseLimits <- MC_AnyReuseLimit
SPECIFICATION Spec
INVARIANT RowsAreReferencePrefix
CHECK_DEADLOCK FALSE
