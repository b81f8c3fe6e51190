SPECIFICATION MCIngestSpec
CONSTANTS
  r1 = r1
  r2 = r2
  Event <- MCEvent
  Sink <- MCSink
  Delivery <- MCRows
  eventOf <- MCEventOf
  sinkOf <- MCSinkOf
  MaxAttempts = 1
  ClaimBatch = 1
  Disabled <- MCNoSink
  None = None
  Request = {r1, r2}
  Ops <- MCAllOps
  Scored <- MCEvent
  OnDetect = "quarantined"
  OnError = "received"
  DetectorFails = FALSE
  Reroutes = FALSE
  MaxCrashes = 1
  MaxFaults = 0
  MaxAborts = 1
PROPERTIES
  RefusedNeverSent
  DispatchSpec
  EventSettles
CHECK_DEADLOCK FALSE
