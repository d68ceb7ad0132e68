CONSTANTS
    Entity = {e1, e2}
    Value = {v1}
    Absent = absent
    Size <- Sizes
    LogMax = 2
    LogBytes = 6
    LogHardMax = 3
    LogHardBytes = 9
    MaxVersion = 5
SPECIFICATION Spec
INVARIANTS   BytesExact
PROPERTIES HistorySpec NewestUndoable HumanFloor
CHECK_DEADLOCK FALSE
