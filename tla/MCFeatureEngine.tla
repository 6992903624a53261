--------------------------- MODULE MCFeatureEngine ---------------------------
(***************************************************************************)
(* Constants for checking FeatureEngine: two rules of the same flag whose  *)
(* priorities order them against their position in the request, and a rule *)
(* id that two requests may reuse.                                         *)
(***************************************************************************)
EXTENDS FeatureEngine, TLC

RoleRule(id, op, val, vk, prio) ==
    [id |-> id, attribute |-> "role", operator |-> op, value |-> val,
     variant |-> TRUE, variantKey |-> vk, priority |-> prio]

DevOn  == RoleRule("r1", "equals", {"dev"}, "", 1)
DevOff == RoleRule("r2", "in", {"dev", "ops"}, "false", 0)

MCRules == {DevOn, DevOff}
MCRuleLists == {<<>>, <<DevOn, DevOff>>}

Body(e, d, s) == [enabled |-> e, default_value |-> d, status |-> s]
MCBodies == {Body(TRUE, TRUE, "")}

\* Neither keys nor requests are compared except for equality.
MCSymmetry == Permutations(Keys) \cup Permutations(Procs)

MCContexts == {[userId |-> u, role |-> r] : u \in {"anonymous", "alice"},
                                            r \in {"guest", "dev"}}
MCSubstring == {<<"dev", "dev">>, <<"dev", "developer">>}
=============================================================================
