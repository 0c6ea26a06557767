CONSTANTS
  N = 2
  NNodes = 1
  MulMats = {}
  Chunks = 3
  Spread = 1
  Counts = {1, 2}
  MaxGraphs = 3
SPECIFICATION Spec
INVARIANTS
  NoWorkerInside
CHECK_DEADLOCK FALSE
