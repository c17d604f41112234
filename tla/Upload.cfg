CONSTANTS
  b1 = b1
  b2 = b2
  Block = {b1, b2}
  File <- TwoBlocks
  Direction = "put"
  FrameRetries = 3
  FrameTimeout = 1
  FinishGrace = 1
  Prompt = FALSE
  FaultyLinks = {"fwd", "bwd"}
  MaxFaults = 1
  FaultKinds = {"lost", "bad", "cancel"}
  WrongSizes = {0, 1, 2, 5}
  CrcMayBeWrong = TRUE
  IoMayFail = TRUE
  LineFaults = {"reply", "command"}
  AgentMayDie = TRUE
SPECIFICATION PutFairSpec
INVARIANT DataIsPrefix
INVARIANT SuccessMeansValidated
INVARIANT OkMeansStored
PROPERTY AcceptanceIsFinal
PROPERTY ImplementsTransfer
PROPERTY CommandEnds
PROPERTY IncompleteIsDeleted
