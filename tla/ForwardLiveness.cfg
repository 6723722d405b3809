SPECIFICATION FairSpec
CONSTANTS
    None = None
    Lost = Lost
    Prefixes = {crm}
    Requests = {r1, r2}
    FailureThreshold = 2
    Cooldown = 2
    Timeout = 1
    Classes = {"2xx", "5xx"}
    CounterMax = 2
INVARIANTS
    OutcomesCounted
PROPERTIES
    Recovers
