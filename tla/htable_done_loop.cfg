\* Explicit columns {1,2} over qualifiers {1,2,3}, two versions kept,
\* forward scan; the explicit tracker answers DONE past its last column
\* as section 4.1 of the spec states.
CONSTANTS
  Rows <- MC_Rows
  Quals <- MC_Quals3
  Stamps <- MC_Stamps2
  Requested = {1, 2}
  MaxVersions = 2
  OldestStamp = 0
  MinStamp = 1
  MaxStamp = 3
  OffsetPerRow = 0
  LimitPerRow <- MC_Unlimited
  BatchSize = 2
  MaxResultSize <- MC_Unlimited
  Reverse = FALSE
  PastLastColumnCode = "DONE"
  MaxCells = 12
SPECIFICATION FairSpec
PROPERTY ScanTerminates
CHECK_DEADLOCK FALSE
