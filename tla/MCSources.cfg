SPECIFICATION SourcesSpec
CHECK_DEADLOCK FALSE
CONSTANTS
    osm = osm
    captain = captain
    Sources = {osm, captain}
    Polls = {chart}
    Kind <- MCKind
    Cached = {osm}
    e2 = e2
    e3 = e3
    Endpoints = {e1, e2, e3}
    Unusable = Unusable
    Default = e1
    Nobody = Nobody
    MaxConfigured = 2
    Bodies <- MCBodies
    RequestTimeout = 7
    Gateway = 6
    MaxRetries = 3
    Backoffs = {2}
    RetryAfters = {6}
    LongestWait = 6
    Budget = 9
    QueueWaits = {0, 4}
    q1 = q1
    q2 = q2
    Queries = {q1, q2}
    Features = {1, 2, 3, 4}
    Stored <- MCStored
    PageSize = 2
    MaxPages = 3
    Unknown = Unknown
    Reports <- MCReports
    MaxReports = 3
    Base = "ac"
    DedupeSources = {"osm", "enc"}
    Radius <- MCRadius
    DefaultRadius = 4
    MaxRadius = 8
    EquatorScale = 4
    Scale <- MCScale
    HalfTurn = 8
    Pole = 2
    ChartKinds <- MCChartKinds
    MaxFields = 3
    MarinaTypes = {"Marina", "Hazard"}
    ReviewTypes = {"Marina"}
    MaxFilled = 2
SYMMETRY MCSymmetry
INVARIANTS
    WaitingHasReason
    QueryBounded
    QueryComplete
    DedupeSound
    DetailsAgree
