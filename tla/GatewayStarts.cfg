SPECIFICATION Spec
CONSTANTS
    Clean <- CleanChars
    Absent = Absent
    U64Max = 1000
    None = None
    Files <- FilesOfAllKinds
    Clients = {c1, c2}
    Paths <- SomePaths
    Foreign <- GoodAndBad
    Vouched <- Good
    OwnKey = OwnKey
    IssuerKey = IssuerKey
    OwnIssuer = "ratewall"
    Issuer = "issuer"
    DemoUser = "demo"
    Others = {"alice", "bob"}
    MaxTime = 0
    MaxRequests = 0
INVARIANT StartsAsDocumented
CHECK_DEADLOCK FALSE
