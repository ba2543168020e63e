SPECIFICATION FairScanSpec
CHECK_DEADLOCK FALSE
CONSTANTS
    h1 = h1
    h2 = h2
    r1 = r1
    r2 = r2
    Points <- MCPoints
    Routes <- MCRoutes
    Ahead <- MCAhead
    Positions <- MCPositions
    Unplaced = Unplaced
    RaiseRadius = 1
    ExitRadius = 1
    Window = 1
    NoFix = NoFix
    NoAnswer = NoAnswer
    HasZone = TRUE
    MinMove = 1
    MinInterval = 1
    CoverageMove = 1
    EvaluationMove = 1
    CoveredChord = 1
    MinEvaluation = 1
    MaxEvaluation = 1
    CoverageReportInterval = 0
    MaxTime = 0
    NoRoute = NoRoute
    NextPoint = NextPoint
    MaxChanges = 2
PROPERTY
    CancelledRouteClears
