SPECIFICATION FairSpec
CONSTANTS
    None = None
    Pods = {g1}
    Routes = 2
    ProbeThreshold = 2
    Gated = TRUE
    FailureThreshold = 2
    Cooldown = 2
PROPERTIES
    CircuitsSelfHeal
