CONSTANTS
  FileIds = {1, 2}
  MaxLines = 3
  MaxLineLen = 3
  Tasks <- MC_RangeTasks
  SkipHeader = 1
  InitBufLen = 2
  MaxBufferSize = 8
  Capacities = {1, 2}
  MaxRescans = 1
  IoErrors = FALSE
  ChangeKinds = {}
  MaxChanges = 0
  ReuseLimits <- MC_AnyReuseLimit
SPECIFICATION FairSpec
INVARIANT FirstScanRowsAreReferencePrefix
INVARIANT ReaderNeverOpenedTwice
PROPERTY ScanEnds
CHECK_DEADLOCK FALSE
