SPECIFICATION Spec
CONSTANTS
    None = None
    Requests = {r1, r2}
    Scrapers = {s1, s2}
    Classes = {"2xx"}
    Buckets = 2
SYMMETRY Symmetry
INVARIANTS
    TypeOK
    ResponsesWithinRequests
    ObservationsWithinRequests
    ScrapesNeverDeadlock
    Settled
    HistogramOffByUnfinished
    GaugeIsRecent
