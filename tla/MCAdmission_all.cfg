SPECIFICATION Spec
CONSTANTS
  r1 = r1
  r2 = r2
  r3 = r3
  Event <- MCEvent
  Sink <- MCSink
  Delivery <- MCRows
  eventOf <- MCEventOf
  sinkOf <- MCSinkOf
  Request = {r1, r2, r3}
  Ops <- MCAllOps
  Scored <- MCEvent
  OnDetect = "quarantined"
  OnError = "received"
  DetectorFails = TRUE
  Reroutes = TRUE
  MaxCrashes = 1
  MaxAborts = 1
SYMMETRY Symmetry
INVARIANTS
  NoSilentLoss
  WithheldNeverQueued
  AtMostOncePerSink
  StoredDecision
PROPERTIES
  VerdictStands
  CurrentRoutes
CHECK_DEADLOCK FALSE
