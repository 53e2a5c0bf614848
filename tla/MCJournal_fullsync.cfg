SPECIFICATION Spec
CONSTANTS
    RequestIds = {r1, r2}
    GarbageId = garbage
    InputTimes = {1}
    MaxTime = 2
    DataSizes = {1, 2}
    FileLimit = 2
    FileCounts = {2}
    FileSizes = {8}
    EventLimits = {2}
    SyncModes = {"full"}
    Managements = {"keep"}
    CompressModes = {FALSE}
    ClientStatuses = {"COMPLETED"}
    MaxFaults = 0
SYMMETRY IdSymmetry
INVARIANTS
    IndexIsPersisted
