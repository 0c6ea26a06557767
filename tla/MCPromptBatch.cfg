SPECIFICATION Spec
CONSTANTS
  Size = 10
  NBatch = 10
  Prompts = {1, 4, 11}
  Tokens <- MCTokens
  Eos = "eos"
  PieceLen <- MCPieceLen
  Blank = {"space"}
  PieceBuf = 8
  MaxResponse = 4
  MaxEmpty = 3
INVARIANTS
  BatchFits
CHECK_DEADLOCK FALSE
