SPECIFICATION KernelFairSpec
CONSTANTS
  MaxRevision = 2
  Protocols <- MCProtocols
  None = None
  Kinds <- SessionKinds
  MaxRequests = 5
INVARIANT KernelTypeOK
INVARIANT NoStaleInterrupt
INVARIANT RunningIsInterruptible
PROPERTY LoopInterruptible
PROPERTY EditSeesCurrent
CHECK_DEADLOCK FALSE
