SPECIFICATION Spec
CONSTANTS
  User = {a1, u1}
  Admin = {a1}
  Proc = {m1, m2}
  MaxSessions = 1
  None = None
  Sent = {"/set115", "cookie"}
INVARIANTS
  CookiesAreNotSearched
CHECK_DEADLOCK FALSE
