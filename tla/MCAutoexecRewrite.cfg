SPECIFICATION Spec
CONSTANTS
    p1 = p1
    p2 = p2
    u1 = u1
    Absent = Absent
    Ids <- MCIds
    Own <- MCOwn
    MaxLines = 7
    MaxTorn = 1
INVARIANTS CopiesOutsideBlocks RemovesOwnLinesOnly OneCopySurvives
