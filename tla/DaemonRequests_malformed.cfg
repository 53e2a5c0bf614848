SPECIFICATION Spec
CONSTANTS
    Clients = {c1}
    Nodes = {n1}
    Names = {x}
    Refused = {r}
    Malformed = {m}
    MaxVersion = 2
    MaxRequests = 1
    Faults = FALSE
    c1 = c1
    n1 = n1
    m = m
    r = r
    x = x
INVARIANTS
    ErrorIsReplied
CHECK_DEADLOCK FALSE
