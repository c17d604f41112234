CONSTANTS
  s1 = s1
  s2 = s2
  p1 = p1
  p2 = p2
  Ssid <- Names
  Password <- Words
  Baud <- Rates
  DefaultBaud = 300
  Numbers <- Typed
  Empty = Empty
  HoldTicks = 2
  LegacyFlash = TRUE
  CommitFailures = {"kept", "erased"}
  PowerMayFail = TRUE
SPECIFICATION FairSpec
INVARIANT SettingsInv
PROPERTY CredentialsAsEntered
PROPERTY CredentialsSurvive
PROPERTY HoldingRecovers
