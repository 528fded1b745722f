SPECIFICATION FairSpec
CONSTANTS
    Sumps = {p1}
    SessionIds = {s1, s2}
    RecIds = {r1}
    Calls = {c1}
    Null = Null
    CatalogMayFail = FALSE
    Ranges <- MCRanges
    MaxTime = 2
    MaxSegments = 2
INVARIANTS
    OneActivePerSump
PROPERTIES
    StoppedIsFinal
    NoCaptureDropped
    BootRecoversAll
    InterruptedIsMarked
    RecordsLikeARecorder
CHECK_DEADLOCK FALSE
