CONSTANTS
    Instance = {i1, i2}
    None = None
    Blocking = FALSE
    MaxChanges = 2
    MaxCalls = 2
    MaxFaults = 1
    MaxCrashes = 1
    MaxFailures = 1
    MaxRemovals = 0
SPECIFICATION Spec
PROPERTIES StoredHistoryGrows LostWritesNothing RefusalIsProofUnfailed
CHECK_DEADLOCK FALSE
SYMMETRY Symmetric
