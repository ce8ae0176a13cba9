\* Explicit columns {1,2} over qualifiers {1,2,3}, two versions kept,
\* forward scan, results cut at two cells.
CONSTANTS
  Rows <- MC_Rows
  Quals <- MC_Quals3
  Stamps <- MC_Stamps2
  Requested = {1, 2}
  MaxVersions = 2
  OldestStamp = 0
  MinStamp = 1
  MaxStamp = 3
  OffsetPerRow = 0
  LimitPerRow <- MC_Unlimited
  BatchSize = 2
  MaxResultSize <- MC_Unlimited
  Reverse = FALSE
  PastLastColumnCode = "SEEK_NEXT_ROW"
  MaxCells = 12
SPECIFICATION FairSpec
INVARIANT TypeOK
INVARIANT ScanOutputIsReferencePrefix
PROPERTY ScanRefinesResult
CHECK_DEADLOCK FALSE
