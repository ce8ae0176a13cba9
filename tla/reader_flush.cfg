CONSTANTS
  NumFiles <- MCNumFiles
  MaxCSize <- MCMaxCSize
  MaxYield <- MCMaxYield
  BufCap <- MCBufCap
  MaxRead <- MCMaxRead
  HoldingFormats <- MCHoldNone
SPECIFICATION FairSpec
INVARIANT ReaderTypeOK
INVARIANT OutputComplete
PROPERTY ReaderRefinesStream
