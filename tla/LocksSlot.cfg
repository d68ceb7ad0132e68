CONSTANTS
    Agent = {a1, a2}
    Viewer = {v1}
    Kinds = {"commit", "undo"}
    NoLock = NoLock
    TtlMs = 2
    HoldMs = 1
    MaxTime = 4
    MaxTokens = 3
    MaxWrites = 2
    MaxInbox = 2
SPECIFICATION FairSpec
PROPERTIES WritesKeepTurns RemedyRacedByOneUndo LapseReachesViewers
CHECK_DEADLOCK FALSE
