SPECIFICATION Spec
CONSTANTS
  User = {u1}
  Res = {r1}
  Proc = {p1, p2, p3}
  MaxSessions = 1
SYMMETRY ProcSymmetry
INVARIANTS
  TypeOK
  AtMostOneCharge
  OneOwnerPerKey
  EveryChargeIsOnRecord
  SessionSuccessIsPaid
  GateIsTended
PROPERTIES
  RecordsSettleOnce
  ImplementsContract
