SPECIFICATION FairSpec
CONSTANTS
  Queries = {q1, q2}
  Keys = {k1}
  Foreign = {}
  Wires <- KeyWires
  Stamps = {1, 2}
  ReadCount = 2
  MaxSends = 1
  UniqueResp = TRUE
  MaxResps = 1
  MaxPushes = 1
  None = None
PROPERTIES
  LocalVersionOrdered
  QueryAnswered
