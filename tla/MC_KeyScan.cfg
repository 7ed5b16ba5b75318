SPECIFICATION Spec
CONSTANTS
  Keys = {k1, k2, k3}
  ScanCaps <- Caps
  ScanFloor = 2
  ScanHardLimit = 3
  MaxIterations = 2
  PipelineBatch = 2
  TopN = 2
  MaxBatch = 2
  MaxChanges = 1
  Scores = {0, 1, 3}
INVARIANTS
  TypeOK
  NothingBiggerMissed
PROPERTY
  ScanEnds
