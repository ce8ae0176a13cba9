CONSTANTS
  FileIds = {1, 2}
  MaxLines = 3
  MaxLineLen = 3
  Tasks <- MC_WholeTasks
  SkipHeader = 1
  InitBufLen = 2
  MaxBufferSize = 8
  Capacities = {1, 2}
  MaxRescans = 0
  IoErrors = FALSE
  ChangeKinds = {"rewrite", "remove"}
  MaxChanges = 2
  ReuseLimits <- MC_AnyReuseLimit
SPECIFICATION FairSpec
INVARIANT CsvTypeOK
INVARIANT RowsAreReferencePrefix
INVARIANT BufferGrowsOnlyForLongLines
INVARIANT MissingFileFailsOnlyAfterProbe
PROPERTY ScanEnds
CHECK_DEADLOCK FALSE
