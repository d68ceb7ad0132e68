CONSTANTS
    Probe = {p1, p2}
    GapLimit = 2
    MaxDeploys = 2
    MaxOutages = 1
    MaxSaid = 2
    MaxDrops = 1
SPECIFICATION Spec
CHECK_DEADLOCK FALSE
INVARIANTS
    VoidOnlyByRace
    NoReloadLoop
PROPERTIES
    WarrantHonoured
    StaleGoesUnrepinned
