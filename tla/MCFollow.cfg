SPECIFICATION Spec
CONSTANTS
  Keys = {k1}
  a = a
  b = b
  Addrs = {a, b}
  Skew <- OneAhead
  Ahead = 1
  Block = 2
  Grace = 1
  Pause = 1
  BackoffLimit = 1
  Interval = 2
  PerTick = 1
  MaxResps = 2
  MaxPools = 3
  MaxNow = 6
  None = None
INVARIANTS
  TypeOK
  WaitBounded
  OldAnswersBounded
PROPERTIES
  Heard
