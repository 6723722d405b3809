SPECIFICATION Spec
CONSTANTS
    None = None
    Calls = {c1, c2, c3}
    Keys = {demo}
    Limit = 1
    Window = 2
    Skews = {0, 1}
    MaxTime = 5
    MaxRestarts = 1
CHECK_DEADLOCK FALSE
SYMMETRY Symmetry
INVARIANTS
    TypeOK
    CapPerWindow
    LimitIsEarned
PROPERTIES
    OverForAWindow
