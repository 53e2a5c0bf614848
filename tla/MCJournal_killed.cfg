SPECIFICATION Spec
CONSTANTS
    RequestIds = {r1, r2, r3}
    GarbageId = garbage
    InputTimes = {1}
    MaxTime = 3
    DataSizes = {1, 2, 10}
    FileLimit = 2
    FileCounts = {2}
    FileSizes = {12}
    EventLimits = {3}
    SyncModes = {"flush"}
    Managements = {"keep"}
    CompressModes = {TRUE}
    ClientStatuses = {"COMPLETED"}
    MaxFaults = 0
SYMMETRY IdSymmetry
PROPERTIES
    LoadKeepsEvents
