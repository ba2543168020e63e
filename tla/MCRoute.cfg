SPECIFICATION RouteSpec
CHECK_DEADLOCK FALSE
CONSTANTS
    r1 = r1
    r2 = r2
    h1 = h1
    h2 = h2
    Points <- MCPoints
    Routes <- MCRoutes
    Ahead <- MCAhead
    Positions <- MCPositions
    Unplaced = Unplaced
    RaiseRadius = 1
    ExitRadius = 1
    Window = 1
    NoFix = NoFix
    NoAnswer = NoAnswer
    HasZone = FALSE
    MinMove = 1
    MinInterval = 1
    CoverageMove = 1
    EvaluationMove = 1
    CoveredChord = 1
    MinEvaluation = 1
    MaxEvaluation = 1
    CoverageReportInterval = 0
    MaxTime = 1
    NoRoute = NoRoute
    NextPoint = NextPoint
    NoBox = NoBox
    Turns <- MCTurns
    Sea <- MCSea
    Kinds = {"Hazard", "Marina"}
    CorridorKinds = {"Hazard"}
    MaxPoints = 4
    HalfWidth = 2
    LookAhead = 7
    MaxChanges = 2
INVARIANTS
    CacheIsCourse
    AlarmsFollowRoute
    CorridorSound
PROPERTIES
    NoResurrection
    ReaderConverges
