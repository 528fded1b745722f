SPECIFICATION Spec
CONSTANTS
    Sumps = {p1}
    SessionIds = {s1}
    RecIds = {r1}
    Calls = {c1, c2}
    Null = Null
    CatalogMayFail = FALSE
    Ranges <- MCRanges
    MaxTime = 1
    MaxSegments = 2
PROPERTIES
    StoppedStaysStopped
CHECK_DEADLOCK FALSE
