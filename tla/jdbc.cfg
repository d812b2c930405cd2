SPECIFICATION Spec
CONSTANTS
    Keys = {k1}
    Ids = {i1, i2}
    NoKey = NoKey
    NoId = NoId
    Threads = {t1, t2}
    Principals = {alice}
    NoPrincipal = NoPrincipal
    Intervals = {1, 2}
    DefaultInterval = 1
    Indexed = FALSE
    Touching = {TRUE, FALSE}
    SetPrincipals = {alice}
    MayRemove = TRUE
    SetIntervals = {2}
    MayChangeId = TRUE
    MaxTime = 2
INVARIANT
    JdbcInv
PROPERTY
    ImplementsStore
CHECK_DEADLOCK FALSE
SYMMETRY MCSymmetry
