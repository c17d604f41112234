CONSTANTS
  Sessions = 3
  HelloTicks = 18
  SyncTicks = 3
  BusyTicks = 12
  CoarseTick = 6
  LegacySync = FALSE
SPECIFICATION FairSpec
INVARIANT SessionInv
INVARIANT AnswerIsOwn
PROPERTY Resynchronises
