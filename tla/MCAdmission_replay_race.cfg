SPECIFICATION Spec
CONSTANTS
  r1 = r1
  r2 = r2
  r3 = r3
  Event <- MCEvent
  Sink <- MCSink
  Delivery <- MCRows
  eventOf <- MCEventOf
  sinkOf <- MCSinkOf
  Request = {r1, r2}
  Ops <- MCIngestReplay
  Scored <- MCEvent
  OnDetect = "dropped"
  OnError = "received"
  DetectorFails = FALSE
  Reroutes = FALSE
  MaxCrashes = 0
  MaxAborts = 0
INVARIANTS
  DroppedNeverQueued
CHECK_DEADLOCK FALSE
