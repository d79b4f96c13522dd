SPECIFICATION LauncherSpec
CONSTANTS
    p1 = p1
    p2 = p2
    u1 = u1
    Absent = Absent
    Ids <- MCIds
    Own <- MCOwn
    Stems <- MCStems
    MaxItems = 3
    LongEntries = {p1}
INVARIANTS OneMarkerEach RemovesMarkerAndEntry
