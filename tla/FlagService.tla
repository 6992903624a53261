----------------------------- MODULE FlagService -----------------------------
(***************************************************************************)
(* What the flag engine promises to whoever evaluates a flag, whatever     *)
(* calls overlap, fail or are cut short by a restart: the map it serves is *)
(* woven from committed data.  Scalars, rules, variants and overrides of a *)
(* served flag may come from different moments, but each of the four was   *)
(* stored together under that very key, and the rules are in priority      *)
(* order.  Nothing else is promised: not that the map is recent.           *)
(***************************************************************************)
EXTENDS FlagEval

CONSTANTS Keys,             \* flag keys
          StoredFlags,      \* the values a stored flag may have
          ServedFlags,      \* the values a served flag may have
          InOrder(_)        \* the sequences that list a rule set by priority

VARIABLES past,   \* past[k]: every value stored so far under k
          served  \* served[k]: the flag evaluation reads, or NULL

vars == <<past, served>>

\* f mixes parts of values in P.
Woven(f, P) ==
    /\ \E d \in P : /\ f.enabled = d.enabled
                    /\ f.default_value = d.default_value
                    /\ f.status = d.status
    /\ \E d \in P : f.rules \in InOrder(d.rules)
    /\ \E d \in P : f.variants = d.variants
    /\ \E d \in P : f.overrides = d.overrides

Init ==
    /\ past = [k \in Keys |-> {}]
    /\ served = [k \in Keys |-> NULL]

\* A statement stores a new value under one key.
Store(k) ==
    /\ \E d \in past'[k] : d \in StoredFlags /\ past' = [past EXCEPT ![k] = @ \cup {d}]
    /\ UNCHANGED served

\* The served map is replaced as a whole by one woven from stored values.
Serve ==
    /\ served' \in [Keys -> ServedFlags \cup {NULL}]
    /\ \A k \in Keys : served'[k] # NULL => Woven(served'[k], past[k])
    /\ UNCHANGED past

Next == Serve \/ \E k \in Keys : Store(k)

Spec == Init /\ [][Next]_vars
=============================================================================
