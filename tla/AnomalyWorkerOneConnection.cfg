SPECIFICATION Spec
CONSTANTS
    NULL = NULL
    Keys = {k1}
    Fns = {}
    MaxOpenConns = 1
    ErrorThreshold = 0
    MaxErrors = 1
    MaxWrites = 1
    MaxFaults = 0
PROPERTY
    AutoDisable
CHECK_DEADLOCK FALSE
