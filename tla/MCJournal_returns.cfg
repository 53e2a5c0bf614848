SPECIFICATION Spec
CONSTANTS
    RequestIds = {r1, r2}
    GarbageId = garbage
    InputTimes = {1}
    MaxTime = 2
    DataSizes = {1, 6}
    FileLimit = 2
    FileCounts = {2}
    FileSizes = {8}
    EventLimits = {2}
    SyncModes = {"flush"}
    Managements = {"keep"}
    CompressModes = {TRUE}
    ClientStatuses = {"COMPLETED"}
    MaxFaults = 0
SYMMETRY IdSymmetry
PROPERTIES
    FinishedIsGone
