SPECIFICATION Spec
CONSTANTS
    Clients = {c1, c2}
    Daemons = {1}
    MaxList = 1
    MaxFaults = 0
    ClockDrift = FALSE
    c1 = c1
    c2 = c2
PROPERTIES
    RegisteredGetsList
CHECK_DEADLOCK FALSE
