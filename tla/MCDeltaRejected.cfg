SPECIFICATION Spec
CONSTANTS
  MaxObjects = 4
  MaxGeneration = 2
  MaxId = 4
  MaxRevision = 3
  MaxNumber = 1
  MaxFigures = 2
  MaxTiles = 2
  Places = {whole, left, right}
  Whole = whole
  None = None
INVARIANTS DeltaApplies
CHECK_DEADLOCK FALSE
