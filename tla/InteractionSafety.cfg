SPECIFICATION Spec
CONSTANTS
  User = {a1, u1}
  Admin = {a1}
  Proc = {m1, m2, m3}
  MaxSessions = 1
  None = None
  Sent = {"/authorize", "/revoke", "/note", "/cancel", "/set115", "/set115 cookie", "/unset115", "cookie", "title"}
SYMMETRY ProcSymmetry
INVARIANTS
  TypeOK
  CookiesAreOwn
PROPERTIES
  AuthorizationIsCommanded
  OnlyGrantedAreServed
CHECK_DEADLOCK FALSE
