SPECIFICATION FairSpec
CONSTANTS
  QueueSize = 2
  EchoMaxAge = 1
  LineCapacity = 3
  LateReflections = FALSE
  TypesAhead = FALSE
  MaxKeys = 3
INVARIANTS
  PasswordStaysHidden
  ShownOnce
  KeysInOrder
  LineAsTyped
PROPERTIES
  KeysGetThrough
