SPECIFICATION FairSpec
CHECK_DEADLOCK FALSE
CONSTANTS
    Channels = {"kernel", "workspace"}
    HasDelays = TRUE
    MaxGen = 5
    MaxFaults = 2
    MaxBad = 1
    MaxRetries = 1
    None = None
INVARIANTS ConnectionConsistent ConnectedIsUsable
PROPERTIES Recovers
