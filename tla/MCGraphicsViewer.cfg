SPECIFICATION FairSpec
CONSTANTS
  Figures = {f1, f2}
  KernelOps <- MCAllOps
  UserOps <- MCNoUser
  MaxRevision = 3
  MaxTransactions = 4
  MaxUser = 0
  MaxFailures = 1
  MaxDrops = 1
INVARIANTS PublishedIsMirrored
PROPERTIES EventuallyMirrored
CHECK_DEADLOCK FALSE
