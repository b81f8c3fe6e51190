SPECIFICATION FairSpec
CONSTANTS
  InstallId <- MCInstallId
  NoId = NoId
  NoTxn = NoTxn
  MaxStops = 3
  MaxFaults = 2
INVARIANTS
  ReadyIsCurrent
  VersionHonest
PROPERTIES
  NewerUntouched
  UpgradeCompletes
CHECK_DEADLOCK FALSE
