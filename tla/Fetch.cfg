CONSTANTS
  b1 = b1
  b2 = b2
  Block = {b1, b2}
  File <- TwoBlocks
  Direction = "get"
  FrameRetries = 3
  FrameTimeout = 1
  FinishGrace = 1
  Prompt = FALSE
  FaultyLinks = {"fwd", "bwd"}
  MaxFaults = 1
  FaultKinds = {"lost", "bad", "cancel"}
  WrongSizes = {3}
  CrcMayBeWrong = TRUE
  IoMayFail = TRUE
  LinesMayFail = TRUE
  AgentMayDie = TRUE
SPECIFICATION GetSpec
INVARIANT IInv
INVARIANT LocalIsWhole
INVARIANT TempIsRemoved
PROPERTY GetEnds
