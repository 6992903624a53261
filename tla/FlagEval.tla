------------------------------ MODULE FlagEval ------------------------------
(***************************************************************************)
(* The evaluation half of internal/feature: what a flag resolves to for a  *)
(* caller, as a pure function of the cached flag and the context map.      *)
(*                                                                         *)
(* Strings are abstracted to the atoms the rules compare.  An atom stands  *)
(* for a case-folded string (matchRule always compares with EqualFold or   *)
(* ToLower).  A rule's value is the set of the items of its comma-separated *)
(* list; a value without a comma is a singleton.                           *)
(***************************************************************************)
EXTENDS Integers, Sequences, FiniteSets

CONSTANTS
    Users,       \* user ids an override may name ("anonymous" included)
    VariantKeys, \* what overrides and rules may resolve to
    Rules,       \* the rules requests may carry
    Substring,   \* {<<a, b>> : a is a substring of b}
    NULL         \* absent: no row, no map entry, nil

\* The lifecycle statuses; "other" is a string CreateFlag or UpdateFlag stored
\* without validating it (only TransitionStatus checks the name).
Statuses == {"draft", "testing", "ga", "deprecated", "other"}

ASSUME RulesAssumption ==
    /\ IsFiniteSet(Rules)
    /\ NULL \notin VariantKeys
    /\ {"true", "false"} \subseteq VariantKeys
    /\ \A r \in Rules : /\ r.priority \in Int
                        /\ r.variant \in BOOLEAN
                        /\ r.variantKey \in VariantKeys \cup {""}

-----------------------------------------------------------------------------
boolToVariantKey(b) == IF b THEN "true" ELSE "false"

variantKeyToBool(v) == v \notin {"false", ""}

\* VariantKey takes precedence over the legacy boolean field.
resolveRuleVariant(r) ==
    IF r.variantKey # "" THEN r.variantKey ELSE boolToVariantKey(r.variant)

matchRule(r, val) ==
    \/ r.operator = "equals"     /\ r.value = {val}
    \/ r.operator = "not_equals" /\ r.value # {val}
    \/ r.operator = "contains"   /\ \E w \in r.value : /\ r.value = {w}
                                                       /\ <<w, val>> \in Substring
    \/ r.operator = "in"         /\ val \in r.value

\* The positions of the rules that the loop over f.Rules would stop at.
Hits(rules, ctx) ==
    {i \in 1..Len(rules) : /\ rules[i].attribute \in DOMAIN ctx
                           /\ matchRule(rules[i], ctx[rules[i].attribute])}

\* The loop over f.Overrides: a named, non-anonymous caller with an override.
Pinned(f, ctx) ==
    /\ "userId" \in DOMAIN ctx
    /\ ctx["userId"] \in Users \ {"", "anonymous"}
    /\ f.overrides[ctx["userId"]] # NULL

\* Mutant of EvaluateVariant: the draft gate is missing.
EvaluateVariant_NoDraftGate(f, ctx) ==
    IF f = NULL THEN "false"
    ELSE IF ~f.enabled THEN "false"
    ELSE IF Pinned(f, ctx) THEN f.overrides[ctx["userId"]]
    ELSE boolToVariantKey(f.default_value)

\* EvaluateVariant, from the map lookup on: f is the cached flag or NULL.
EvaluateVariant(f, ctx) ==
    IF f = NULL THEN "false"
    ELSE IF ~f.enabled THEN "false"
    ELSE IF f.status = "deprecated" THEN boolToVariantKey(f.default_value)
    ELSE IF Pinned(f, ctx) THEN f.overrides[ctx["userId"]]
    ELSE IF f.status = "draft" THEN "false"
    ELSE IF Hits(f.rules, ctx) # {}
         THEN resolveRuleVariant(f.rules[CHOOSE i \in Hits(f.rules, ctx) :
                                            \A j \in Hits(f.rules, ctx) : i <= j])
    ELSE IF f.status = "testing" THEN "false"
    ELSE boolToVariantKey(f.default_value)

EvaluateBool(f, ctx) == variantKeyToBool(EvaluateVariant(f, ctx))

-----------------------------------------------------------------------------
(***************************************************************************)
(* Reference semantics, from the tables rather than from the loop: D is    *)
(* the stored flag, whose rules are an unordered set.  The value of the    *)
(* flag is any member of Outcomes: equal priorities leave a choice.        *)
(***************************************************************************)
Matching(D, ctx) ==
    {r \in D.rules : r.attribute \in DOMAIN ctx /\ matchRule(r, ctx[r.attribute])}

\* Rules that decide: they match, and none that matches has a smaller priority.
Deciding(D, ctx) ==
    {r \in Matching(D, ctx) : \A q \in Matching(D, ctx) : r.priority <= q.priority}

Fallback(D) == boolToVariantKey(D.default_value /\ D.status # "testing")

Outcomes(D, ctx) ==
    CASE D = NULL                 -> {"false"}
      [] D # NULL /\ ~D.enabled   -> {"false"}
      [] OTHER ->
           IF D.status = "deprecated" THEN {boolToVariantKey(D.default_value)}
           ELSE IF Pinned(D, ctx) THEN {D.overrides[ctx["userId"]]}
           ELSE IF D.status = "draft" THEN {"false"}
           ELSE IF Matching(D, ctx) = {} THEN {Fallback(D)}
           ELSE {resolveRuleVariant(r) : r \in Deciding(D, ctx)}
=============================================================================
