SPECIFICATION DSpec
CONSTANTS
  Size = 3
  Seqs = {0, 1}
  MaxPos = 1
  NBatch = 2
  NUBatch = 1
  Deltas <- MCDeltas
  Divs <- MCDivs
  MoveBounds = {1}
PROPERTIES
  RestoresOnError
