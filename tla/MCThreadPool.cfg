CONSTANTS
  N = 3
  NNodes = 3
  MulMats = {1}
  Chunks = 3
  Spread = 1
  Counts = {1, 2, 3}
  MaxGraphs = 2
SPECIFICATION SteadySpec
INVARIANTS
  TypeOK
  PartsOnce
  NoWorkerInside
  NobodyStranded
PROPERTIES
  ComputeReturns
  FreeReturns
  ImplementsRun
CHECK_DEADLOCK FALSE
