SPECIFICATION Spec
CONSTANTS
  Event <- MCEvent
  Sink <- MCSink
  Delivery <- MCFirstRows
  eventOf <- MCEventOf
  sinkOf <- MCSinkOf
  Disabled <- MCNoSink
  None = None
  MaxAttempts = 2
  ClaimBatch = 2
  MaxCrashes = 1
  MaxFaults = 0
INVARIANTS
  DeadLettered
CHECK_DEADLOCK FALSE
