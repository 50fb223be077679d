\* Clients wait only upwards.
CONSTANTS
    m1 = m1
    m2 = m2
    c1 = c1
    c2 = c2
    r1 = r1
    p = p
    Managers = {m1, m2}
    Workers = {w}
    Cells = {c1, c2, r1, p}
    Kind <- MCKind
    Registered <- MCRegistered
    Nothing = Nothing
    Rank <- MCRank
    Ordered = TRUE
SPECIFICATION SharedFairSpec
INVARIANTS
    SharedTypeOK
    NoCircularWait
    NoBorrowPanic
PROPERTIES
    WaitsEnd
