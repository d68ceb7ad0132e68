CONSTANTS
    Person = {ann, bob}
    Agent = {bot}
    Diagram = {d1, d2}
    Code = {c1, c2}
    None = None
    Quota = 1
    MaxCalls = 3
    MaxFaults = 2
SYMMETRY Alike
SPECIFICATION Spec
CHECK_DEADLOCK FALSE
INVARIANTS
    MemoryIsFile
    OwnersWithinQuota
PROPERTIES
    ClaimsStay
