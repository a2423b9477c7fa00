SPECIFICATION FairSpec
CONSTANTS
  a = a
  b = b
  c = c
  d = d
  Item = {a, b, c, d}
  NoId = NoId
  Broken = Broken
  Proc = {p1, p2}
  PageSize = 2
  MaxPages = 2
  Shares <- MCShares
  MaxChanges = 1
INVARIANTS
  TypeOK
  SuccessIsComplete
PROPERTIES
  TransfersEnd
