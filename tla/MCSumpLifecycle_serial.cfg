SPECIFICATION Spec
CONSTANTS
    Local = local
    FreshIds = {f1}
    Hosts = {h1}
    Tokens = {t1, t2, t3}
    Calls = {c1}
    Null = Null
    TypedTokens = {t3}
    Overlap = FALSE
    TornWrites = FALSE
INVARIANTS
    TypeOK
    NoDanglingChild
    TokensMatchServers
    LiveSumpIsShown
PROPERTIES
    StatusFollowsTable

