\* Wildcard scan in reverse row order over four timestamps and tables of up
\* to five cells: timestamp 1 TTL-expired, timestamp 4 outside the time
\* range, two versions kept, the first cell of each row dropped by the
\* offset, three kept by the limit, results cut at two cells by the size
\* limit.
CONSTANTS
  Rows <- MC_Rows
  Quals <- MC_Quals2
  Stamps <- MC_Stamps4
  Requested = {}
  MaxVersions = 2
  OldestStamp = 2
  MinStamp = 1
  MaxStamp = 4
  OffsetPerRow = 1
  LimitPerRow = 3
  BatchSize <- MC_Unlimited
  MaxResultSize = 2
  Reverse = TRUE
  PastLastColumnCode = "SEEK_NEXT_ROW"
  MaxCells = 5
SPECIFICATION FairSpec
INVARIANT ScanOutputIsReferencePrefix
PROPERTY ScanRefinesResult
CHECK_DEADLOCK FALSE
