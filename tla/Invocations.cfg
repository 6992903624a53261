SPECIFICATION Spec
CONSTANTS
    Fns <- MCFns
    Runtime <- MCRuntime
    Traces = {"t1"}
    MaxRequests = 1
    MaxInvs = 3
    MaxHostCalls = 1
    MaxFaults = 1
INVARIANTS
    TypeOK
    AccountedUnlessCut
    HostEffectsAreOwn
    TraceTellsOutcome
    NobodyStuck
PROPERTIES
    EveryInvocationEnds
CHECK_DEADLOCK FALSE
