SPECIFICATION Spec
CONSTANTS
    FrontendIds = {f1, f2}
    VersionIds = {v1, v2}
    Slugs = {"shop", "docs"}
    ZipNames = {"index", "./index", "app", "../app"}
    Entries = {"index", "app"}
    cleanName <- MCCleanName
    Archives <- MCArchives
    None = None
    Ids = {i1, i2}
    Names = {"lodash"}
    Jobs = {j1, j2}
    Procs = {p1, p2}
    FrontendCalls = 3
    PackageCalls = 4
    MaxFaults = 1
INVARIANTS
    TypeOK
    DirectoriesMatchRows
    ActiveIsOwnVersion
    AvailableIsUsable
PROPERTIES
    BundlingEnds
CHECK_DEADLOCK FALSE
