SPECIFICATION Spec
CONSTANTS
  Size = 10
  NBatch = 10
  Prompts = {1, 4, 11}
  Tokens <- MCTokens
  Eos = "eos"
  PieceLen <- MCPieceLen
  Blank = {"space"}
  PieceBuf = 8
  MaxResponse = 7
  MaxEmpty = 3
INVARIANTS
  TypeOK
  InitAllOrNothing
  AnswerContract
  PositionsInContext
  StopsInTime
PROPERTIES
  CallReturns
  CallAdvances
  ImplementsTextCall
CHECK_DEADLOCK FALSE
