CONSTANTS
  s1 = s1
  s2 = s2
  p1 = p1
  p2 = p2
  Ssid <- Names
  Password <- Words
  Baud <- Rates
  DefaultBaud = 300
  Numbers <- Typed
  Empty = Empty
  HoldTicks = 1
  LegacyFlash = TRUE
  CommitFailures = {"kept"}
  PowerMayFail = FALSE
SPECIFICATION Spec
PROPERTY BaudKeepsCredentials
