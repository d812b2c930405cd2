SPECIFICATION Spec
CONSTANTS
    Ids = {s1, s2, s3}
    Nodes = {n1}
    Principals = {}
    NoPrincipal = NoPrincipal
    Intervals <- MCIntervals
    DefaultInterval = 1
    Minute = 1
    Grace = 2
    Threads = {t1}
    NoId = NoId
    FlushMode = "ON_SAVE"
    Touching = {TRUE}
    SetPrincipals = {}
    SetIntervals = {}
    MayChangeId = TRUE
    CronMode = "late"
    PromptListeners = TRUE
    MayLose = TRUE
    MaxRequest = 1
    MaxExpiryLag = 1
    MaxCrashes = 1
    MaxCalls = 2
    LastStart = 1
    MaxTime = 6
INVARIANTS
    OneLiveCopy
CHECK_DEADLOCK FALSE
SYMMETRY MCIdSymmetry
