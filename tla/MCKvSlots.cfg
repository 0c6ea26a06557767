SPECIFICATION TidySpec
CONSTANTS
  Size = 5
  Seqs = {0}
  MaxPos = 2
  NBatch = 3
  NUBatch = 2
  Deltas <- MCDeltas
  Divs <- MCDivs
  MoveBounds = {1, 2}
INVARIANTS
  TypeOK
  UsedCount
  HolesCanBeFilled
  DataFollowsCells
PROPERTIES
  NoSlotOnlyIfNone
  DecodeReturns
  DecodeAdvances
  Compacts
