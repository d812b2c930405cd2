SPECIFICATION Spec
CONSTANTS
    Requests = {r1, r2}
    Ids = {i1, i2}
    NoId = NoId
    Interval = 1
    MaxAlias = 1
    MaxTime = 1
INVARIANTS
    FilterInv
    ClientIsTold
    OtherAliasesKept
    CookieIsGood
CHECK_DEADLOCK FALSE
SYMMETRY MCSymmetry
