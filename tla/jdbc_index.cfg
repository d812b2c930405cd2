SPECIFICATION Spec
CONSTANTS
    Keys = {k1}
    Ids = {i1, i2}
    NoKey = NoKey
    NoId = NoId
    Threads = {t1, t2}
    Principals = {alice}
    NoPrincipal = NoPrincipal
    Intervals = {1, 2}
    DefaultInterval = 1
    Indexed = TRUE
    Touching = {TRUE, FALSE}
    SetPrincipals = {alice}
    MayRemove = FALSE
    SetIntervals = {}
    MayChangeId = FALSE
    MaxTime = 2
INVARIANT
    PrincipalIndexed
CHECK_DEADLOCK FALSE
