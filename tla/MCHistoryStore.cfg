SPECIFICATION Spec
CONSTANTS
  Instance = {i1, i2}
  MaxEntries = 5
INVARIANTS
  TypeOK
  KeepsEverything
  InOrder
