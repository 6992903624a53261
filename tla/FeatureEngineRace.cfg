SPECIFICATION Spec
CONSTANTS
    NULL = NULL
    Keys = {k1}
    Procs = {p1, p2}
    Users = {"alice"}
    VariantKeys = {"true", "false"}
    Rules <- MCRules
    RuleLists <- MCRuleLists
    Bodies <- MCBodies
    Contexts <- MCContexts
    Substring <- MCSubstring
    MaxCalls = 3
INVARIANT
    FreshAtRest
SYMMETRY MCSymmetry
CHECK_DEADLOCK FALSE
