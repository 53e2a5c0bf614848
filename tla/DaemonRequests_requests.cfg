SPECIFICATION Spec
CONSTANTS
    Clients = {c1}
    Nodes = {n1}
    Names = {x}
    Refused = {r}
    Malformed = {m}
    MaxVersion = 2
    MaxRequests = 3
    Faults = TRUE
    c1 = c1
    m = m
    n1 = n1
    r = r
    x = x
INVARIANTS
    AnsweredOnce
    SavedIsOnDisk
PROPERTIES
    VersionsByOne
CHECK_DEADLOCK FALSE
