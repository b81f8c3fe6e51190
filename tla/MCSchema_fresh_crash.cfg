SPECIFICATION FairSpec
CONSTANTS
  InstallId <- MCInstallId
  NoId = NoId
  NoTxn = NoTxn
  MaxStops = 1
  MaxFaults = 0
PROPERTIES
  FreshCompletes
CHECK_DEADLOCK FALSE
