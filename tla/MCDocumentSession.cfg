SPECIFICATION Spec
CHECK_DEADLOCK FALSE
CONSTANTS
    MaxEdits = 2
    MaxSaves = 4
    MaxGen = 3
    MaxFaults = 2
    MaxOpens = 1
    None = None
INVARIANTS SessionConsistent ClosedIsStored QuietIsStored
PROPERTIES StoreNeverGoesBack
