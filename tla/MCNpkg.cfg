SPECIFICATION Spec
CONSTANTS
    p1 = p1
    p2 = p2
    Absent = Absent
    Ids <- MCIds
    Versions <- MCVersions
    EnvIds <- MCIds
    MenuIds <- MCOne
    MaxEntries = 2
    MaxLines = 6
    LongEntries = {}
    LiteralIds <- MCOne
    MaxCuts = 1
    MaxRefused = 0
INVARIANTS FilesAgree RemoveLeavesNothing
PROPERTIES OthersUntouched CommandReturns
