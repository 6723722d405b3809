SPECIFICATION FairSpec
CONSTANTS
    Gateways = {g1, g2}
    Keys = {k1, k2, k3, k4}
    U64Max = 3
    Issuer = "ratewall"
    DemoUser = "demo"
    Ttl = 2
    MaxTime = 3
    MaxCrashes = 2
    Absent = Absent
    Torn = Torn
    None = None
CHECK_DEADLOCK FALSE
INVARIANTS
    TypeOK
    TokensSurviveRestarts
    PublicFileNeverLies
PROPERTIES
    KeyNeverOverwritten
    EventuallyServing
