CONSTANTS
    Fields = {f1, f2}
    Cutting = {1, 2, 3}
    MaxReplays = 1
    MaxEdits = 2
    MaxOthers = 1
    MaxGestures = 1
    MaxDrops = 1
    MaxReloads = 1
    MaxRestarts = 1
    MaxLocks = 1
    MaxThrottles = 2
    MaxKinds = 1
SYMMETRY Alike
SPECIFICATION Spec
INVARIANTS   ConvergedUnastray ShownIsExplained NothingAwaitedInVain   UnsentGoesOutUnastray WorkIsKept DoneAtRest
PROPERTIES EditsLandInOrder
CHECK_DEADLOCK FALSE
