SPECIFICATION StoresSpec
CONSTANTS
    p1 = p1
    p2 = p2
    p0 = p0
    r1 = r1
    r2 = r2
    r0 = r0
    f1 = f1
    x = x
    y = y
    z = z
    v = v
    w = w
    c1 = c1
    c2 = c2
    c3 = c3
    Unusable = Unusable
    Kinds = {"coops", "lnm"}
    Families = {f1}
    Records <- MCRecords
    MaxVersions = 3
    MaxDamage = 1
    Entries <- MCEntries
    MaxEntries = 2
    MaxRuns = 2
    Callers = {c1, c2, c3}
    Table <- MCTable
    Retired = {p0}
    Llnrs = {r0, r1, r2}
    Listings <- MCShared
    Concurrency = 2
    MaxVersion = 2
    MaxRestarts = 0
    IndexFile = IndexFile
    NoFile = NoFile
    NotListed = NotListed
    NoRecord = NoRecord
    NoValidator = NoValidator
INVARIANTS
    PagesKeptApart
