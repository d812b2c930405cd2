SPECIFICATION Spec
CONSTANTS
    Ids = {s1}
    Nodes = {n1}
    Principals = {alice}
    NoPrincipal = NoPrincipal
    Intervals = {0, 1}
    DefaultInterval = 1
    Minute = 1
    Grace = 2
    Threads = {t1, t2}
    NoId = NoId
    FlushMode = "ON_SAVE"
    Touching = {TRUE}
    SetPrincipals = {alice}
    SetIntervals = {}
    MayChangeId = FALSE
    CronMode = "off"
    PromptListeners = TRUE
    MayLose = FALSE
    MaxRequest = 1
    MaxExpiryLag = 1
    MaxCrashes = 0
    MaxCalls = 3
    LastStart = 1
    MaxTime = 7
INVARIANTS
    IInv
    DeletedStaysDead
    LiveIsComplete
    DestroyedEventCarriesSession
PROPERTY
    ImplementsStore
CHECK_DEADLOCK FALSE
SYMMETRY MCSymmetry
