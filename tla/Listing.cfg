SPECIFICATION Spec
CONSTANTS
  Resource <- MCResource
  Found <- MCFound
  MaxNumber = 5
  Piece <- MCPiece
  Decimal <- MCDecimal
  PageSize = 2
  MaxLen = 5
INVARIANTS
  TypeOK
  PagesAreTheListing
  TitleSurvives
PROPERTIES
  NoEmptyPage
  PressesAdjoin
