SPECIFICATION Spec
CONSTANTS
  Queries = {q1, q2}
  Keys = {k1, k2}
  Foreign = {f1}
  Wires <- KeyWires
  Stamps = {1}
  ReadCount = 2
  MaxSends = 1
  UniqueResp = TRUE
  MaxResps = 2
  MaxPushes = 0
  None = None
SYMMETRY Symmetry
INVARIANTS
  TypeOK
  FlightDiscipline
  AnswersQuestion
  DispatcherNeverStuck
PROPERTIES
  NoResponseSkipped
  ServiceSpec
