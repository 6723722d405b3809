SPECIFICATION Spec
CONSTANTS
    Clean <- CleanChars
    Absent = Absent
    U64Max = 1000
    None = None
    Files <- FilesOfAllKinds
    Clients = {c1, c2}
    Paths <- SomePaths
    Foreign <- GoodAndBad
    Vouched <- Good
    OwnKey = OwnKey
    IssuerKey = IssuerKey
    OwnIssuer = "ratewall"
    Issuer = "issuer"
    DemoUser = "demo"
    Others = {"alice", "bob"}
    MaxTime = 2
    MaxRequests = 3
INVARIANTS
    TypeOK
    OnlyGenuineReachBackends
    LoginTokensOpenTheGate
    NobodyPaysForOthers
    AuditAddsUp
    RefusedForWhatIsWritten
    ServingIsUsable
    RejectionsLandOnTheRoute
SYMMETRY Symmetry
CHECK_DEADLOCK FALSE
