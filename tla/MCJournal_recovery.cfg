SPECIFICATION Spec
CONSTANTS
    RequestIds = {r1, r2}
    GarbageId = garbage
    InputTimes = {1}
    MaxTime = 2
    DataSizes = {1}
    FileLimit = 3
    FileCounts = {2, 3}
    FileSizes = {8}
    EventLimits = {2}
    SyncModes = {"flush"}
    Managements = {"keep", "truncate", "delete"}
    CompressModes = {FALSE}
    ClientStatuses = {"FORWARDED", "COMPLETED"}
    MaxFaults = 0
SYMMETRY IdSymmetry
CONSTRAINT OneLongFile
INVARIANTS
    IndexIsPersisted
    ReplayAgrees
    CountIsExact
PROPERTIES
    FilesKeepLedger
