SPECIFICATION Spec
CONSTANTS
    p1 = p1
    p2 = p2
    p3 = p3
    Absent = Absent
    Ids <- MCIds
    Versions <- MCVersions
    MaxEntries = 2
INVARIANTS OneCopySurvives OkMeansSaved FailureLosesNothing
PROPERTY ImplementsInstalledSet
