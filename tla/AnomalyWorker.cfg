SPECIFICATION Spec
CONSTANTS
    NULL = NULL
    Keys = {k1}
    Fns = {f1}
    MaxOpenConns = 2
    ErrorThreshold = 0
    MaxErrors = 1
    MaxWrites = 1
    MaxFaults = 1
INVARIANTS
    TypeOK
    NoDuplicateAnomaly
    PublishedMeansDisabled
PROPERTIES
    AutoDisable
    StopReturns
CHECK_DEADLOCK FALSE
