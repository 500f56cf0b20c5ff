SPECIFICATION FairSpec
CONSTANTS
  MaxRevision = 0
  Protocols <- MCProtocols
  None = None
  Kinds <- FiniteKinds
  MaxRequests = 2
  Capacity = 1
  MaxBootstraps = 1
  MaxInterrupts = 1
INVARIANT EngineLifecycle
INVARIANT OrderlyExit
INVARIANT ServerConsistent
PROPERTY ServesSequentially
PROPERTY StopCompletes
PROPERTY AcceptedAnswered
