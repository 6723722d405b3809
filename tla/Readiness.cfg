SPECIFICATION FairSpec
CONSTANTS
    None = None
    Pods = {g1}
    Routes = 2
    ProbeThreshold = 2
    Gated = FALSE
    FailureThreshold = 2
    Cooldown = 2
INVARIANTS
    TypeOK
PROPERTIES
    ReadyzHasSeenIt
    RedisOutageIsSeen
    ReadinessRecovers
