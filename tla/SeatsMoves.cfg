CONSTANTS
    Page = {p1, p2}
    Diagram = {d1, d2, d3}
    Template = Template
    None = None
    Quota = 2
    MaxEdits = 1
    MaxEvents = 2
SYMMETRY Alike
SPECIFICATION Spec
CHECK_DEADLOCK FALSE
INVARIANTS
    WritesLandWhereMade
    SeatsMayRead
    PagesShowTheirs
