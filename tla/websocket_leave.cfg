SPECIFICATION Spec
CONSTANTS
    Connections = {c1, c2}
    HttpIds = {h1}
    NoHttpId = NoHttpId
    NoMap = NoMap
    ClientsLeave = TRUE
INVARIANTS
    RegisteredAreClosed
CHECK_DEADLOCK FALSE
