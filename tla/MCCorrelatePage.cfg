SPECIFICATION Spec
CONSTANTS
    Sumps = {s1, s2}
    MaxSessions = 3
    MaxRules = 1
    MaxActs = 3
    Null = Null
SYMMETRY SumpSymmetry
CHECK_DEADLOCK FALSE
INVARIANTS
    TypeOK
    RestShowsSelected
    RestShowsSession
