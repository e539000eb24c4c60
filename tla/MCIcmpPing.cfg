SPECIFICATION Spec
CONSTANTS
  Retry = 3
  Deadline = 10
  MaxLag = 1
  MaxInbox = 3
  MaxSeq = 5
  None = None
CHECK_DEADLOCK FALSE
INVARIANTS TypeOK RealRtt NotDisqualified EndsInTime
