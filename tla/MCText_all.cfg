CONSTANTS
  None = None
  Arrival <- MCArrival
  Setting <- MCSetting
  Cap = 9
  AttributeCap = 2
  MaxPasses = 2
SPECIFICATION Spec
INVARIANTS
  FenceHolds
  OrdinaryTextKept
  SecretsRedacted
  ForgeryFlagged
