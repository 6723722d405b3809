SPECIFICATION FairSpec
CONSTANTS
    None = None
    Calls = {c1, c2}
    Keys = {demo}
    Limit = 1
    Window = 2
    Skews = {0}
    MaxTime = 3
    MaxRestarts = 0
CHECK_DEADLOCK FALSE
PROPERTIES
    EveryCallIsDecided
