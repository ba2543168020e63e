SPECIFICATION StillSpec
CONSTANTS
    b1 = b1
    Points <- MCPoints
    Positions <- MCPositions
    Clearances <- MCClearances
    Drafts <- MCDrafts
    Unplaced = Unplaced
    Unknown = Unknown
    NoDraft = NoDraft
    NoTime = NoTime
    RaiseRadius = 5
    ExitRadius = 6
    Window = 1
    Ttl = 2
    RetryWindow = 2
    FetchTimeout = 1
    MaxTime = 2
INVARIANTS
    NoLateOverwrite
PROPERTIES
    ClearJustified
    LowBridgesAlarm
    RetriesSpaced
    Released
