CONSTANTS
    Instance = {i1}
    None = None
    Blocking = TRUE
    MaxChanges = 4
    MaxCalls = 1
    MaxFaults = 3
    MaxCrashes = 2
    MaxFailures = 4
    MaxRemovals = 1
SPECIFICATION FairSpec
INVARIANTS WatermarkHonest 
PROPERTIES AcceptedIsStored
CHECK_DEADLOCK FALSE
