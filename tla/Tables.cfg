SPECIFICATION Spec
CONSTANTS
    NULL = NULL
    Keys = {t1}
    Procs = {p1, p2}
    Ids = {i1, i2}
    Contexts = {"f:on"}
    Lists <- MCLists
    Data <- MCData
    MaxCalls = 5
    MaxFaults = 1
INVARIANTS
    TypeOK
    RegistryMatchesTable
    ReadColumnsStayTrue
    RowsFitSchema
    AnnouncedUnlessFlagged
    PositionsDense
PROPERTIES
    KeepsDrafts
SYMMETRY MCSymmetry
CHECK_DEADLOCK FALSE
