SPECIFICATION Spec
CONSTANTS
  Resolvers = {r1, r2}
  IPs = {a, b}
  RecheckHits = 2
  Failures = FALSE
  MaxResends = 0
  None = None
INVARIANTS
  NegativeBounded
