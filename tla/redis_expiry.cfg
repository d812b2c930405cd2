SPECIFICATION Spec
CONSTANTS
    Ids = {s1}
    Nodes = {n1}
    Principals = {alice, bob}
    NoPrincipal = NoPrincipal
    Intervals <- MCIntervals
    DefaultInterval = 3
    Minute = 2
    Grace = 3
    Threads = {t1}
    NoId = NoId
    FlushMode = "ON_SAVE"
    Touching = {TRUE}
    SetPrincipals <- MCSetPrincipals
    SetIntervals <- MCSetIntervals
    MayChangeId = FALSE
    CronMode = "prompt"
    PromptListeners = TRUE
    MayLose = FALSE
    MaxRequest = 0
    MaxExpiryLag = 20
    MaxCrashes = 0
    MaxCalls = 4
    LastStart = 5
    MaxTime = 13
INVARIANTS
    TypeOK
    TimelyExpiry
    LiveIsKept
    IndexExact
CHECK_DEADLOCK FALSE
