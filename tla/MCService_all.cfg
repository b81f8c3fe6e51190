SPECIFICATION Spec
CONSTANTS
  Strip <- MCStrip
  Lower <- MCLower
  Length <- MCLength
  Sensitive = {"authorization", "cookie"}
  Invalid = Invalid
  Junk = Junk
  Absent = Absent
  None = None
  Case <- MCCase
INVARIANTS
  OnlyVerifiedIngested
  NoRetryStorm
  NeverSilentlyDropped
  AdminClosed
  NoCollateral
  EnabledSinkIsReady
  CredentialNotStored
CHECK_DEADLOCK FALSE
