SPECIFICATION Spec
CONSTANTS
    NULL = NULL
    Keys = {k1, k2}
    Procs = {p1, p2}
    Users = {"alice"}
    VariantKeys = {"true", "false"}
    Rules <- MCRules
    RuleLists <- MCRuleLists
    Bodies <- MCBodies
    Contexts <- MCContexts
    Substring <- MCSubstring
    MaxCalls = 3
INVARIANTS
    TypeOK
    FreshAfterSoloCall
    EvaluationFollowsTables
    DraftNeverExposed
PROPERTY
    ServesWovenFlags
SYMMETRY MCSymmetry
CHECK_DEADLOCK FALSE
