SPECIFICATION Spec
CONSTANTS
  User = {u1, u2, u3}
  Resource = {r1}
  Token = {t1}
  TTL = 2
  Capacity = 2
  MaxTime = 4
SYMMETRY UserSymmetry
INVARIANTS
  TypeOK
  CapacityHolds
  AnswersHonourBinding
PROPERTIES
  TokensAreNotStolen
  ImplementsGate
