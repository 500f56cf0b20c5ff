SPECIFICATION FairSpec
CONSTANTS
  MaxRevision = 0
  Protocols <- MCProtocols
  None = None
  Kinds <- LoopKinds
  MaxRequests = 1
  Capacity = 1
  MaxBootstraps = 0
  MaxInterrupts = 0
PROPERTY StopCompletes
CHECK_DEADLOCK FALSE
