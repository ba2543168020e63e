SPECIFICATION PluginSpec
CHECK_DEADLOCK FALSE
CONSTANTS
    notes = notes
    alarms = alarms
    c1 = c1
    c2 = c2
    x = x
    y = y
    z = z
    enc = enc
    chart = chart
    monitor = monitor
    NoBox = NoBox
    HalfTurn = 12
    Pole = 6
    Cell = 4
    MaxSpan = 4
    MaxExplicit = 6
    MaxSearch = 3
    MaxZones = 3
    Places <- MCPlaces
    Radii = {0, 2, 4}
    Outputs = {notes, alarms}
    Notes = notes
    StopOrder <- MCStopOrder
    MaxStarts = 2
    Callers = {c1, c2}
    Ports = {x, y, z}
    Unplaced = {y}
    Views <- MCViews
    Forms <- MCForms
    PoiFlags <- MCFlags
    Numbers <- MCNumbers
    Endpoints <- MCEndpoints
    NoNumber = 99
    Largest = 12
    Fallback = 8
    MinYear = 4
INVARIANTS
    LifecycleSound
    SettingsSound
    BoxesSound
PROPERTIES
    PortsKept
    OutageEndShows
