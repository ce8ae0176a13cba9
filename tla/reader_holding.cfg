CONSTANTS
  NumFiles <- MCNumFiles
  MaxCSize <- MCMaxCSize
  MaxYield <- MCMaxYield
  BufCap <- MCBufCap
  MaxRead <- MCMaxRead
  HoldingFormats <- MCHoldZstd
SPECIFICATION Spec
INVARIANT OutputComplete
