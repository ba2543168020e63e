SPECIFICATION CacheSpec
CONSTANTS
    t1 = t1
    t2 = t2
    t3 = t3
    r1 = r1
    r2 = r2
    Readers = {r1, r2}
    Tiles = {t1, t2, t3}
    Neighbours <- MCNeighbours
    Capacity = 2
    Ttl = 2
    DegradedTtl = 1
    CoolDown = 1
    NoEntry = NoEntry
INVARIANTS
    CacheSound
PROPERTIES
    FailuresContained
    Refreshed
