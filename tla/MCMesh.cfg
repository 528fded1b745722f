SPECIFICATION MCSpec
CONSTANTS
    Calls = {c1, c2}
    Keys = {k1, k2}
    Nonces = {n1, n2}
    Peers = {p1}
    Users = {u1, u2}
    Sources = {s1}
    Contacts = {1, 2}
    Null = Null
INVARIANTS
    TypeOK
    NonceAcceptedOnce
    OwnedByFirstClaimant
PROPERTIES
    OwnerChangesHands
    PeersKeptUnlessRaced
