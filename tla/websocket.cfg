SPECIFICATION Spec
CONSTANTS
    Connections = {c1, c2, c3}
    HttpIds = {h1, h2}
    NoHttpId = NoHttpId
    NoMap = NoMap
    ClientsLeave = TRUE
INVARIANTS
    TypeOK
    OnlyEndedAreClosed
    ClosedUnlessClientsLeft
    ForgetsClosed
CHECK_DEADLOCK FALSE
SYMMETRY MCSymmetry
