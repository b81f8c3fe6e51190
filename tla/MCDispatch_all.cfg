SPECIFICATION FairSpec
CONSTANTS
  Event <- MCEvent
  Sink <- MCSink
  Delivery <- MCFirstRows
  eventOf <- MCEventOf
  sinkOf <- MCSinkOf
  Disabled <- MCSecondSink
  None = None
  MaxAttempts = 2
  ClaimBatch = 2
  MaxCrashes = 1
  MaxFaults = 2
INVARIANTS
  RolledUp
  DeadLetteredUndisturbed
  AttemptBudget
  PayloadKept
  StrandedAfterTwoFaults
  OutcomesCounted
PROPERTIES
  OutboxSpec
  CalledOnlyWhileClaimed
  EverySettles
CHECK_DEADLOCK FALSE
