SPECIFICATION FairSpec
CONSTANTS
  Rounds = 2
  MaxFaults = 2
INVARIANTS
  TypeOK
  PassMeansClean
  FailMeansHarm
PROPERTIES
  TestEnds
