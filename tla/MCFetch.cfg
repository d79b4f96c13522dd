SPECIFICATION Spec
CONSTANTS
    Absent = Absent
    MaxUrls = 3
    Retries = 3
INVARIANTS OkMeansFreshArchive GivesUpAfterAll
PROPERTY FetchReturns
