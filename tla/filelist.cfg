CONSTANTS
  NumEntries <- MCNumEntries
  MaxVisit <- MCMaxVisit
  IoErrors = TRUE
  Sep = Sep
  Dot = Dot
  DotDot = DotDot
  Loc = Loc
SPECIFICATION Spec
INVARIANT FileListTypeOK
INVARIANT ListedExactly
INVARIANT VisitLimitExact
INVARIANT SizesFollowListing
