SPECIFICATION AppendSpec
CONSTANTS
  Size = 6
  Seqs = {0}
  MaxPos = 3
  NBatch = 4
  NUBatch = 2
  Deltas <- MCDeltas
  Divs <- MCDivs
PROPERTIES
  ImplementsAppend
