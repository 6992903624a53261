SPECIFICATION Spec
CONSTANTS
    UserIds = {u1, u2}
    GroupIds = {g1}
    Emails = {"ann", "bob"}
    GroupNames = {"beta"}
    Roles = {"admin", "user"}
    Procs = {p1, p2}
    MaxStarts = 2
    MaxLogins = 2
    MaxEdits = 3
INVARIANTS
    TypeOK
    ClaimsTrueUntilChanged
    OneAdminPerToken
    SetupWayIn
CHECK_DEADLOCK FALSE
