SPECIFICATION FairSpec
CONSTANTS
  Place <- Repository
  Kind <- MCKind
  Extension <- MCExtension
  Content <- MCContent
  Lower <- MCLower
  OfToolchain = {}
  MaxEdits = 2
INVARIANTS
  TypeOK
  CountsVisitedOnce
  QuietCountsAreExact
PROPERTIES
  WalkEnds
CHECK_DEADLOCK FALSE
