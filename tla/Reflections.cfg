SPECIFICATION FairSpec
CONSTANTS
  Payloads <- MCPayloads
  IoChunk = 2
  MaxWrites = 4
  MaxFaults = 2
INVARIANTS
  TypeOK
  Recognised
  OnlySentFrames
  IntactIsRead
  SwallowedAreOwed
PROPERTIES
  ListensAgain
