CONSTANTS
  Peers = 3
  SerialLimit = 1
  TcpLimit = 1
  Burst = 1
  HostUnits = 2
  MaxDrops = 1
SPECIFICATION BridgeFairSpec
INVARIANT OneOwner
PROPERTY TakeoverIsClean
PROPERTY ConsoleStaysSilent
PROPERTY NewestOwns
