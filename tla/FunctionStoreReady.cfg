SPECIFICATION Spec
CONSTANTS
    NULL = NULL
    Fns = {f1}
    Procs = {p1, p2}
    Sources = {"good", "good2", "bad"}
    Valid = {"good", "good2"}
    Artifacts = {"long", "short"}
    MaxCalls = 4
    MaxFaults = 0
INVARIANT ReadyRuns
SYMMETRY MCSymmetry
CHECK_DEADLOCK FALSE
