SPECIFICATION Spec
CONSTANTS
  u1 = u1
  u2 = u2
  s1 = s1
  bad = bad
  User = {u1, u2}
  Alias = {s1}
  AliasOf <- MCAliasOf
  Bad = bad
  NoteKeys = {u1, s1, bad}
  AccountKeys = {s1, bad}
  MaxList = 1
  MaxChanges = 1
INVARIANTS
  TypeOK
  CompletedImportIsExact
PROPERTIES
  ListedStayAuthorized
CHECK_DEADLOCK FALSE
