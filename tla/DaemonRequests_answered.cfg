SPECIFICATION Spec
CONSTANTS
    Clients = {c1, c2}
    Nodes = {n1}
    Names = {x}
    Refused = {r}
    Malformed = {}
    MaxVersion = 2
    MaxRequests = 3
    Faults = FALSE
    c1 = c1
    n1 = n1
    c2 = c2
    r = r
    x = x
PROPERTIES
    EveryRequestAnswered
CHECK_DEADLOCK FALSE
