SPECIFICATION Spec
CONSTANTS
    None = None
    Lost = Lost
    Prefixes = {crm, hrm}
    Requests = {r1, r2, r3}
    FailureThreshold = 2
    Cooldown = 3
    Timeout = 1
    Classes = {"5xx"}
    CounterMax = 0
SYMMETRY Symmetry
INVARIANTS
    TypeOK
    BreakersConsistent
    ProbeAccounted
    OlderThanOpening
    OneProbeIfPrompt
PROPERTIES
    ProbeDecidesIfPrompt
    KeepsContract
