SPECIFICATION Spec
CONSTANTS
  Queries = {q1, q2}
  Keys = {k1}
  Foreign = {}
  Wires <- KeyWires
  Stamps = {1}
  ReadCount = 2
  MaxSends = 2
  UniqueResp = FALSE
  MaxResps = 2
  MaxPushes = 0
  None = None
INVARIANTS
  DispatcherNeverStuck
