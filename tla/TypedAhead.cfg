SPECIFICATION Spec
CONSTANTS
  QueueSize = 2
  EchoMaxAge = 1
  LineCapacity = 3
  LateReflections = FALSE
  TypesAhead = TRUE
  MaxKeys = 3
INVARIANT PasswordStaysHidden
