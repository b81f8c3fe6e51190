SPECIFICATION FairSpec
CONSTANTS
  Code <- MCCodes
  Header <- MCHeaders
  MaxAttempts = 5
  Base = 2
  MaxBackoff = 3
  Jitter = 2
  MaxExponent = 2
  None = None
  MaxRestarts = 1
INVARIANTS
  DeliveredMeansSuccess
PROPERTIES
  DelayBounds
  RetriedWhenItHelps
  Settles
CHECK_DEADLOCK FALSE
