CONSTANTS
  b1 = b1
  b2 = b2
  Block = {b1, b2}
  File <- TwoBlocks
  Direction = "put"
  FrameRetries = 10
  FrameTimeout = 5
  FinishGrace = 2
  Prompt = TRUE
  FaultyLinks = {"fwd"}
  MaxFaults = 1
  FaultKinds = {"lost"}
  WrongSizes = {}
  CrcMayBeWrong = FALSE
  IoMayFail = FALSE
  LineFaults = {}
  AgentMayDie = FALSE
SPECIFICATION PutSpec
INVARIANT RaiseNeedsTenFailures
