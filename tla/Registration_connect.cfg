SPECIFICATION Spec
CONSTANTS
    Clients = {c1}
    Daemons = {1}
    MaxList = 2
    MaxFaults = 2
    ClockDrift = TRUE
    c1 = c1
INVARIANTS
    ListenerFollowsGates
    LiveIsReferenced
    BroadcastReaches
PROPERTIES
    ListNeverOlder
    LearnsThenRegisters
CHECK_DEADLOCK FALSE
