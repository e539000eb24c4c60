SPECIFICATION Spec
CONSTANTS
  Queries = {q1}
  Keys = {k1}
  ClientReadCount = 2
  ServerReadCount = 2
  MaxSends = 1
  RespMax = 1
  Refreshed = {k1}
  MaxReqs = 1
  MaxClock = 3
  MaxPushes = 1
  MaxFaults = 0
  None = None
CHECK_DEADLOCK FALSE
PROPERTIES
  FresherStays
