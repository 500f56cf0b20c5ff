SPECIFICATION Spec
CONSTANTS
  Figures = {f1, f2}
  KernelOps <- MCAllOps
  UserOps <- MCUser
  MaxRevision = 4
  MaxTransactions = 3
  MaxUser = 2
  MaxFailures = 1
  MaxDrops = 1
INVARIANTS FeedConsistent ResponseBeforeDelta
PROPERTY MirrorNeverGoesBack
CHECK_DEADLOCK FALSE
