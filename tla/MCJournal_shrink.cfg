SPECIFICATION Spec
CONSTANTS
    RequestIds = {r1, r2, r3}
    GarbageId = garbage
    InputTimes = {1}
    MaxTime = 3
    DataSizes = {1}
    FileLimit = 3
    FileCounts = {2, 3}
    FileSizes = {5}
    EventLimits = {2}
    SyncModes = {"flush"}
    Managements = {"keep"}
    CompressModes = {FALSE}
    ClientStatuses = {"COMPLETED"}
    MaxFaults = 0
SYMMETRY IdSymmetry
INVARIANTS
    CurrentFileExists
