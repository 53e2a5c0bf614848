SPECIFICATION Spec
CONSTANTS
    RequestIds = {r1, r2, r3}
    GarbageId = garbage
    InputTimes = {1}
    MaxTime = 3
    DataSizes = {1, 4}
    FileLimit = 2
    FileCounts = {2}
    FileSizes = {8}
    EventLimits = {2}
    SyncModes = {"none"}
    Managements = {"truncate"}
    CompressModes = {TRUE}
    ClientStatuses = {"COMPLETED"}
    MaxFaults = 1
SYMMETRY IdSymmetry
CONSTRAINT LargeInSecond
INVARIANTS
    IndexMatchesFiles
    EventsDisjoint
    AppendIsPastEvents
    ScanInBounds
    CountCovers
PROPERTIES
    CompressLosesNothing
