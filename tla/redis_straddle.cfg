SPECIFICATION Spec
CONSTANTS
    Ids = {s1}
    Nodes = {n1}
    Principals = {alice}
    NoPrincipal = NoPrincipal
    Intervals <- MCIntervals
    DefaultInterval = 3
    Minute = 2
    Grace = 3
    Threads = {t1}
    NoId = NoId
    FlushMode = "ON_SAVE"
    Touching = {TRUE}
    SetPrincipals = {alice}
    SetIntervals = {}
    MayChangeId = FALSE
    CronMode = "prompt"
    PromptListeners = TRUE
    MayLose = FALSE
    MaxRequest = 2
    MaxExpiryLag = 20
    MaxCrashes = 0
    MaxCalls = 3
    LastStart = 5
    MaxTime = 13
INVARIANTS
    TimelyExpiry
CHECK_DEADLOCK FALSE
