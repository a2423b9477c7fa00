SPECIFICATION Spec
CONSTANTS
  Person = Person
  Title <- MCTitle
  Query <- MCQuery
  Answers <- MCAnswers
  MaxNumber = 4
  Piece <- MCPiece
  Decimal <- MCDecimal
INVARIANTS
  EveryButtonActs
