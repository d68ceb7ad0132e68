SPECIFICATION Spec
CONSTANTS
    Device = dev
    Zone = zone
    Drawn = drawn
    Waypoints = {w1}
    Places = {0, 1}
    Gone = gone
    MaxEdits = 1
    MaxInbound = 1
INVARIANTS   HeldByGesture RestShowsStoredUndisturbed
PROPERTIES LockedAuthorsNothing
CHECK_DEADLOCK FALSE
