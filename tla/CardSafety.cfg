SPECIFICATION Spec
CONSTANTS
  Proc = {c1, c2, c3}
  Poster = {a, b}
  None = None
SYMMETRY CardSymmetry
INVARIANTS
  TypeOK
  CaptionsGoToPhotos
  CardsAreAccounted
  TrackedAsShown
CHECK_DEADLOCK FALSE
