SPECIFICATION FairSpec
CONSTANTS
  QueueCapacity = 2
  DrainLimit = 2
  BatchFrames = 2
  BatchValues = 2
  MaxSamples = 3
  MaxValues = 5
  Lengths <- MCLengths
  Widths <- MCWidths
  MaxRuns = 2
  MaxCancels = 1
INVARIANT SimulationConsistent
INVARIANT FinishedIsComplete
INVARIANT ReportsTruth
PROPERTY RunEnds
PROPERTY DropCompletes
