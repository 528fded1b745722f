SPECIFICATION Spec
CONSTANTS
    Local = local
    FreshIds = {f1}
    Hosts = {h1}
    Tokens = {t1, t2, t3}
    Calls = {c1, c2}
    Null = Null
    TypedTokens = {t3}
    Overlap = TRUE
    TornWrites = TRUE
SYMMETRY IdSymmetry
PROPERTY StatusFollowsTable
