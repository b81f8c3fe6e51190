SPECIFICATION FairSpec
CONSTANTS
  LastId = 4
  Limits <- MCLimits
  DLQ_MAX_LIMIT = 2
  MaxPages = 6
  NoCursor = NoCursor
INVARIANTS
  NothingSkipped
  NothingRepeated
PROPERTIES
  WalkEnds
CHECK_DEADLOCK FALSE
