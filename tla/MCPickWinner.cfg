SPECIFICATION FairSpec
CONSTANTS
  IPs = {a, b}
  Ports = 2
  Rtts = {1, 2}
  Timeout = 4
  TcpDeadline = 1
  None = None
CHECK_DEADLOCK FALSE
INVARIANTS
  TypeOK
  BestWins
  NotGivenUp
PROPERTIES
  RaceEnds
