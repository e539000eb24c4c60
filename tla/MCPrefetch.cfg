SPECIFICATION Spec
CONSTANTS
  n1 = n1
  n2 = n2
  Names = {n1, n2}
  Fixed = {n2}
  Every = 1
  Sweep = 1
  MaxSweep = 1
  Hour = 9
  TopN = 1
  MinScore = 2
  MaxMembers = 1
  QueueSize = 1
  BatchSize = 2
  CacheTTL = 11
  NegTTL = 2
  Answers <- MCAnswers
  MaxScore = 2
  None = None
INVARIANTS TypeOK CacheBounded NeverLapses PrefetchEarned
