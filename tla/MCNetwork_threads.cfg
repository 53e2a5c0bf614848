SPECIFICATION NetworkSpec
CONSTANTS
    Daemons = {1, 2}
    NodeAddress <- MCNodeAddress
    MyAddress <- MCMyAddress
    MaxRestarts = 0
    Threads = {t1, t2}
    MessageIds = {1, 2, 3}
    DataCells <- MCDataCells
    HeaderCells = 2
    Capacity = 2
    MaxDamages = 0
    MaxCuts = 1
    Links = {1, 2}
    Pinged = {1, 2}
    MaxFailures = 2
    SerialModulus = 16
    MaxTicks = 4
    MaxOthers = 2
    t1 = t1
    t2 = t2
INVARIANT MessagesAreWhole
CHECK_DEADLOCK FALSE
