SPECIFICATION FairSpec
CONSTANTS
    Ids = {s1}
    Nodes = {n1}
    Principals = {alice}
    NoPrincipal = NoPrincipal
    Intervals <- MCIntervals
    DefaultInterval = 3
    Minute = 1
    Grace = 2
    Threads = {t1}
    NoId = NoId
    FlushMode = "IMMEDIATE"
    Touching = {TRUE}
    SetPrincipals = {alice}
    SetIntervals = {}
    MayChangeId = FALSE
    CronMode = "late"
    PromptListeners = TRUE
    MayLose = FALSE
    MaxRequest = 1
    MaxExpiryLag = 1
    MaxCrashes = 0
    MaxCalls = 3
    LastStart = 3
    MaxTime = 10
PROPERTIES
    ExpiredLeavesIndex
CHECK_DEADLOCK FALSE
