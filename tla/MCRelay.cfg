SPECIFICATION Spec
CONSTANTS
  Queries = {q1}
  Keys = {k1}
  ClientReadCount = 2
  ServerReadCount = 2
  MaxSends = 1
  RespMax = 1
  Refreshed = {k1}
  MaxReqs = 1
  MaxClock = 4
  MaxPushes = 1
  MaxFaults = 1
  None = None
CHECK_DEADLOCK FALSE
INVARIANTS
  AnswerSound
PROPERTIES
  ClientSpec
