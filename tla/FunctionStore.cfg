SPECIFICATION Spec
CONSTANTS
    NULL = NULL
    Fns = {f1}
    Procs = {p1, p2}
    Sources = {"good", "good2", "bad"}
    Valid = {"good", "good2"}
    Artifacts = {"long", "short"}
    MaxCalls = 4
    MaxFaults = 1
INVARIANTS
    TypeOK
    SequentialUse
    CompilingIsTransient
    ReadyHasObject
    VersionsContiguous
SYMMETRY MCSymmetry
CHECK_DEADLOCK FALSE
