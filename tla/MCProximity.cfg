SPECIFICATION ProximitySpec
CHECK_DEADLOCK FALSE
CONSTANTS
    h1 = h1
    Points <- MCPoints
    Positions <- MCPositions
    Unplaced = Unplaced
    RaiseRadius = 5
    ExitRadius = 6
    Window = 1
    StartTime = 0
    MaxTime = 4
    Radii <- MCRadii
    FixGaps <- MCFixGaps
    Speeds <- MCSpeeds
    Drifts <- MCDrifts
    MaxEvaluation = 40
INVARIANTS
    AlarmsSound
    CadenceCovers
PROPERTIES
    ClearJustified
    NoChatter
