SPECIFICATION PatientSpec
CONSTANTS
    p1 = p1
    p2 = p2
    Absent = Absent
    Ids <- MCIds
    Versions <- MCVersions
    EnvIds <- MCOne
    MenuIds <- MCOne
    MaxEntries = 2
    MaxLines = 10
    LongEntries = {}
    LiteralIds <- MCOne
    MaxCuts = 0
    MaxRefused = 1
PROPERTY OnlyTheCacheStops
