SPECIFICATION TidySpec
CONSTANTS
  Size = 3
  Seqs = {0, 1}
  MaxPos = 1
  NBatch = 2
  NUBatch = 1
  Deltas <- MCDeltas
  Divs <- MCDivs
  MoveBounds = {1}
INVARIANTS
  NoStaleShift
  DataFollowsCells
PROPERTIES
  ImplementsStore
