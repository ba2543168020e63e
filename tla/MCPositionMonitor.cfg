SPECIFICATION MonitoredSpec
CHECK_DEADLOCK FALSE
CONSTANTS
    h1 = h1
    Points <- MCPoints
    Positions <- MCPositions
    Unplaced = Unplaced
    RaiseRadius = 2
    ExitRadius = 3
    Window = 1
    Fixes <- MCPositions
    NoFix = NoFix
    Answers <- MCAnswers
    EmptyAnswer <- NoPois
    NoAnswer = NoAnswer
    HasZone = TRUE
    MinMove = 1
    MinInterval = 2
    CoverageMove = 4
    EvaluationMove = 2
    CoveredChord = 3
    MinEvaluation = 1
    MaxEvaluation = 2
    CoverageReportInterval = 1
    MaxTime = 3
INVARIANTS
    MonitorSound
    FixesAreChecked
PROPERTIES
    EvaluatesNewest
    RequestsThrottled
    Refines
