SPECIFICATION Spec
CONSTANTS
    NULL = NULL
    Ids = {i1}
    Fns = {f1}
    Procs = {p1, p2}
    Handles = {h1, h2, h3}
    Types = {"http", "cron"}
    Configs = {"hourly", "daily", "missing"}
    GoodPairs <- MCGoodPairs
    MaxCalls = 4
INVARIANT
    DeletedIsSilent
SYMMETRY MCSymmetry
CHECK_DEADLOCK FALSE
