SPECIFICATION Spec
CONSTANTS
    Sumps = {p1}
    SessionIds = {s1}
    RecIds = {r1, r2}
    Calls = {c1, c2}
    Null = Null
    CatalogMayFail = TRUE
    Ranges <- MCRanges
    MaxTime = 2
    MaxSegments = 2
SYMMETRY IdSymmetry
INVARIANTS
    TypeOK
    RowsCoherent
    SegmentsChained
    SegmentsBacked
    ReferencesResolve
    NoticeStands
CHECK_DEADLOCK FALSE
