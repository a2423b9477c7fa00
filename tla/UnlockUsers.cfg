SPECIFICATION MCFairSpec
CONSTANTS
  User = {u1, u2}
  Res = {r1}
  Proc = {p1, p2}
  MaxSessions = 1
INVARIANTS
  GrantsArePaid
  DeliveredIsPaid
PROPERTIES
  HandlersFinish
