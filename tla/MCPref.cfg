SPECIFICATION Spec
CONSTANTS
  Resolvers = {r1, r2}
  IPs = {a, b, c}
  RecheckHits = 2
  Failures = TRUE
  MaxResends = 1
  None = None
SYMMETRY Symmetry
INVARIANTS
  TypeOK
  NeverBroken
  HitsBounded
