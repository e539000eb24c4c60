SPECIFICATION FairSpec
CONSTANTS
  ReqIDs = {r1, r2}
  Keys = {k1, k2}
  ReadCount = 2
  RespMax = 2
  Refreshed = {k1}
  MaxReqs = 2
  MaxClock = 3
  MaxPushes = 0
  MaxFaults = 1
  MaxResends = 1
  None = None
CHECK_DEADLOCK FALSE
INVARIANTS
  TypeOK
  OneResponse
  AnswerMatchesRequest
  PendingExact
PROPERTIES
  DeliveredOnce
  RequestHandled
