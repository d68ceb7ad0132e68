CONSTANTS
    Id = {d1, d2}
    Session = {s1}
    Principal = {ann}
    ann = ann
    bob = bob
    who <- Everyone
    None = None
    Template = Template
    MaxCreates = 1
    MaxEdits = 1
    MaxWrites = 4
    MaxRemovals = 2
    MaxRestores = 2
    MaxFailures = 1
SYMMETRY Alike
SPECIFICATION Spec
CHECK_DEADLOCK FALSE
INVARIANTS
    GoneStaysGone
    BinHoldsTheLast
PROPERTIES
    RestoreKeepsEdits
