---------------------------- MODULE FeatureEngine ----------------------------
(***************************************************************************)
(* internal/feature.Engine: the flag tables in SQLite, the in-memory map   *)
(* that evaluation reads, and the operations that change the first and     *)
(* rebuild the second.                                                     *)
(*                                                                         *)
(* Every SQL statement is one step: the pool has one connection, and the   *)
(* engine closes each result set before its next statement.  Between two   *)
(* statements of one call any other call may run.  The mutex guards only   *)
(* the swap of the map, so two reloads interleave freely.                  *)
(*                                                                         *)
(* db[k] is the feature_flags row of key k with the rows of flag_rules,    *)
(* flag_variants and flag_overrides that reference it: foreign keys are on *)
(* and cascade, so child rows exist exactly while their flag does.         *)
(***************************************************************************)
EXTENDS FlagEval

CONSTANTS
    Keys,      \* flag keys
    Procs,     \* requests (goroutines) that may be in the engine at once
    Bodies,    \* request bodies of CreateFlag and UpdateFlag: scalar fields
    RuleLists, \* rule lists a CreateFlag body may carry
    Contexts,  \* evaluation contexts: attribute name -> value
    MaxCalls   \* bound on the number of calls in a behaviour

StatusOrEmpty == Statuses \cup {""}

NoFlags == [k \in Keys |-> NULL]

NoOverrides == [u \in Users |-> NULL]

OverrideMap == [Users -> VariantKeys \cup {NULL}]

\* A flag as the tables hold it (rules unordered) and as the map holds it
\* (rules in the order the query returned them).
DbFlag == [enabled : BOOLEAN, default_value : BOOLEAN, status : Statuses,
           rules : SUBSET Rules, variants : SUBSET VariantKeys, overrides : OverrideMap]

Flag == [enabled : BOOLEAN, default_value : BOOLEAN, status : Statuses,
         rules : Seq(Rules), variants : SUBSET VariantKeys, overrides : OverrideMap]

ASSUME EngineAssumption ==
    /\ NULL \notin Flag \cup DbFlag
    /\ Bodies \subseteq [enabled : BOOLEAN, default_value : BOOLEAN, status : StatusOrEmpty]
    /\ RuleLists \subseteq Seq(Rules)
    /\ MaxCalls \in Nat

VARIABLES
    db,      \* db[k]: the stored flag, or NULL
    flags,   \* e.flags: the installed map
    pc,      \* pc[p]: where call p stands
    key,     \* key[p]: the key call p creates, later the key its reload is at
    pending, \* pending[p]: rules a CreateFlag call has still to insert
    snap,    \* snap[p]: the map a reload of p is building
    todo,    \* todo[p]: keys of that map whose child rows are still to load
    calls,   \* number of calls made so far
    past,    \* history: past[k] is every value db[k] has had
    solo,    \* history: solo[p] holds while no other call overlapped p's
    last     \* history: "solo" if the last call to return ran alone and
             \* succeeded; else "failed" if one failed since then, or "raced"

vars == <<db, flags, pc, key, pending, snap, todo, calls, past, solo, last>>

Locations == {"idle", "insertRule", "reload", "nextFlag", "loadVariants",
              "loadOverrides"}

\* Mutant of Orders: the query without its ORDER BY.
Orders_Unsorted(S) == {s \in [1..Cardinality(S) -> S] :
                          \A i, j \in 1..Cardinality(S) : i < j => s[i] # s[j]}

\* The orders loadRules may return: by ascending priority, ties unspecified.
Orders(S) == {s \in [1..Cardinality(S) -> S] :
                 \A i, j \in 1..Cardinality(S) :
                    i < j => s[i] # s[j] /\ s[i].priority <= s[j].priority}

-----------------------------------------------------------------------------
Init ==
    /\ db = NoFlags
    /\ flags = NoFlags
    /\ pc = [p \in Procs |-> "idle"]
    /\ key \in [Procs -> Keys]
    /\ pending = [p \in Procs |-> <<>>]
    /\ snap = [p \in Procs |-> NoFlags]
    /\ todo = [p \in Procs |-> {}]
    /\ calls = 0
    /\ past = [k \in Keys |-> {}]
    /\ solo = [p \in Procs |-> TRUE]
    /\ last = "solo"

-----------------------------------------------------------------------------
(* Bookkeeping shared by the operations.                                   *)

\* db[k] becomes f in one statement, and past remembers it.
Commit(k, f) ==
    /\ db' = [db EXCEPT ![k] = f]
    /\ past' = IF f = NULL THEN past ELSE [past EXCEPT ![k] = @ \cup {f}]

NoCommit == UNCHANGED <<db, past>>

\* Call p begins: it overlaps every call in progress, and they overlap it.
Begin(p) ==
    /\ pc[p] = "idle"
    /\ calls < MaxCalls
    /\ calls' = calls + 1
    /\ solo' = [q \in Procs |-> IF q = p THEN \A r \in Procs \ {p} : pc[r] = "idle"
                                ELSE FALSE]

Goto(p, l) == pc' = [pc EXCEPT ![p] = l]

\* Call p returns, and its local variables are gone.
Return(p) ==
    /\ Goto(p, "idle")
    /\ pending' = [pending EXCEPT ![p] = <<>>]
    /\ snap' = [snap EXCEPT ![p] = NoFlags]
    /\ todo' = [todo EXCEPT ![p] = {}]

\* It returns an error after its first statement: the map is not reloaded.
Fail(p) ==
    /\ Return(p)
    /\ last' = "failed"

\* The first statement of p violates a constraint: an error, nothing stored.
Refuse(p) ==
    /\ Begin(p)
    /\ NoCommit
    /\ UNCHANGED <<flags, pc, key, pending, snap, todo, last>>

\* Requests that change the row of an existing flag and then reload.
Mutate(p, k, f) ==
    /\ Begin(p)
    /\ IF db[k] = NULL THEN NoCommit ELSE Commit(k, f)
    /\ Goto(p, "reload")
    /\ UNCHANGED <<flags, key, pending, snap, todo, last>>

-----------------------------------------------------------------------------
(* CreateFlag: the row, then each rule in a statement of its own.          *)

\* Mutant of CreateFlag: the empty status is stored as it came.
CreateFlag_NoDefault(p, k, b, rs) ==
    /\ db[k] = NULL
    /\ Begin(p)
    /\ Commit(k, [enabled |-> b.enabled, default_value |-> b.default_value, status |-> b.status,
                  rules |-> {}, variants |-> {}, overrides |-> NoOverrides])
    /\ Goto(p, "reload")
    /\ UNCHANGED <<flags, key, pending, snap, todo, last>>

\* A key already stored is a UNIQUE error.
CreateFlag(p, k, b, rs) ==
    IF db[k] # NULL THEN Refuse(p)
    ELSE /\ Begin(p)
         /\ Commit(k, [enabled |-> b.enabled, default_value |-> b.default_value,
                       status |-> IF b.status = "" THEN "draft" ELSE b.status,
                       rules |-> {}, variants |-> {}, overrides |-> NoOverrides])
         /\ Goto(p, IF rs = <<>> THEN "reload" ELSE "insertRule")
         /\ key' = [key EXCEPT ![p] = k]
         /\ pending' = [pending EXCEPT ![p] = rs]
         /\ UNCHANGED <<flags, snap, todo, last>>

\* A rule id is a primary key of flag_rules, whichever flag the rule is of.
RuleStored(r) == \E k \in Keys : db[k] # NULL /\ \E q \in db[k].rules : q.id = r.id

\* insertRule: a duplicate id or a flag deleted meanwhile (foreign key) is an
\* error that ends the call with the flag half created and the map not reloaded.
insertRule(p) ==
    /\ pc[p] = "insertRule"
    /\ LET r == Head(pending[p])
           k == key[p]
       IN IF db[k] # NULL /\ ~RuleStored(r)
          THEN /\ Commit(k, [db[k] EXCEPT !.rules = @ \cup {r}])
               /\ pending' = [pending EXCEPT ![p] = Tail(@)]
               /\ Goto(p, IF Tail(pending[p]) = <<>> THEN "reload" ELSE "insertRule")
               /\ UNCHANGED <<snap, todo, last>>
          ELSE /\ NoCommit
               /\ Fail(p)
    /\ UNCHANGED <<flags, key, calls, solo>>

-----------------------------------------------------------------------------
(* The other operations: one statement, then reload.                       *)

\* No check that a row was updated; an empty status means "ga" here.
UpdateFlag(p, k, b) ==
    Mutate(p, k, [db[k] EXCEPT !.enabled = b.enabled, !.default_value = b.default_value,
                               !.status = IF b.status = "" THEN "ga" ELSE b.status])

TransitionStatus(p, k, s) ==
    /\ s \in Statuses \ {"other"}
    /\ Mutate(p, k, [db[k] EXCEPT !.status = s])

\* Mutant of DeleteFlag: the row goes, the map is not reloaded.
DeleteFlag_NoReload(p, k) ==
    /\ Begin(p)
    /\ Commit(k, NULL)
    /\ last' = "solo"
    /\ UNCHANGED <<flags, pc, key, pending, snap, todo>>

DeleteFlag(p, k) == Mutate(p, k, NULL)

DeleteVariant(p, k, v) == Mutate(p, k, [db[k] EXCEPT !.variants = @ \ {v}])

DeleteOverride(p, k, u) == Mutate(p, k, [db[k] EXCEPT !.overrides[u] = NULL])

\* Inserting a child row of a missing flag, or a variant twice, is an error.
CreateVariant(p, k, v) ==
    IF db[k] = NULL THEN Refuse(p)
    ELSE IF v \in db[k].variants THEN Refuse(p)
    ELSE Mutate(p, k, [db[k] EXCEPT !.variants = @ \cup {v}])

\* ON CONFLICT DO UPDATE: the last variant named for the user wins.
CreateOverride(p, k, u, v) ==
    IF db[k] = NULL THEN Refuse(p)
    ELSE Mutate(p, k, [db[k] EXCEPT !.overrides[u] = v])

-----------------------------------------------------------------------------
(* reload: one query for the rows, three per flag, then the swap.          *)

\* The row of a flag, before its child rows are loaded.
RowOnly(f) == [enabled |-> f.enabled, default_value |-> f.default_value,
               status |-> f.status, rules |-> <<>>, variants |-> {},
               overrides |-> NoOverrides]

queryFlags(p) ==
    /\ pc[p] = "reload"
    /\ snap' = [snap EXCEPT ![p] = [k \in Keys |-> IF db[k] = NULL THEN NULL
                                                   ELSE RowOnly(db[k])]]
    /\ todo' = [todo EXCEPT ![p] = {k \in Keys : db[k] # NULL}]
    /\ Goto(p, "nextFlag")
    /\ UNCHANGED <<flags, key, pending, calls, solo, last>>
    /\ NoCommit

\* The next key in map order (any order), and its rules.
loadRules(p, k) ==
    /\ pc[p] = "nextFlag"
    /\ k \in todo[p]
    /\ \E s \in Orders(IF db[k] = NULL THEN {} ELSE db[k].rules) :
          snap' = [snap EXCEPT ![p][k].rules = s]
    /\ key' = [key EXCEPT ![p] = k]
    /\ todo' = [todo EXCEPT ![p] = @ \ {k}]
    /\ Goto(p, "loadVariants")
    /\ UNCHANGED <<flags, pending, calls, solo, last>>
    /\ NoCommit

\* Mutant of loadVariants: the query without its WHERE flag_key = ?.
loadVariants_AllFlags(p) ==
    /\ pc[p] = "loadVariants"
    /\ snap' = [snap EXCEPT ![p][key[p]].variants =
                   UNION {IF db[k] = NULL THEN {} ELSE db[k].variants : k \in Keys}]
    /\ Goto(p, "loadOverrides")
    /\ UNCHANGED <<flags, key, pending, todo, calls, solo, last>>
    /\ NoCommit

loadVariants(p) ==
    /\ pc[p] = "loadVariants"
    /\ snap' = [snap EXCEPT ![p][key[p]].variants =
                   IF db[key[p]] = NULL THEN {} ELSE db[key[p]].variants]
    /\ Goto(p, "loadOverrides")
    /\ UNCHANGED <<flags, key, pending, todo, calls, solo, last>>
    /\ NoCommit

loadOverrides(p) ==
    /\ pc[p] = "loadOverrides"
    /\ snap' = [snap EXCEPT ![p][key[p]].overrides =
                   IF db[key[p]] = NULL THEN NoOverrides ELSE db[key[p]].overrides]
    /\ Goto(p, "nextFlag")
    /\ UNCHANGED <<flags, key, pending, todo, calls, solo, last>>
    /\ NoCommit

\* The swap under the mutex; the call returns nil.
install(p) ==
    /\ pc[p] = "nextFlag"
    /\ todo[p] = {}
    /\ flags' = snap[p]
    /\ last' = IF solo[p] THEN "solo" ELSE IF last = "failed" THEN "failed" ELSE "raced"
    /\ Return(p)
    /\ UNCHANGED <<key, calls, solo>>
    /\ NoCommit

\* A query of reload returns an error: so does the call, the map stays.
reloadFails(p) ==
    /\ pc[p] \in {"reload", "nextFlag", "loadVariants", "loadOverrides"}
    /\ Fail(p)
    /\ UNCHANGED <<flags, key, calls, solo>>
    /\ NoCommit

-----------------------------------------------------------------------------
\* The map entries a reload with no statement in between may give key k.
Loaded(k) ==
    IF db[k] = NULL THEN {NULL}
    ELSE {[RowOnly(db[k]) EXCEPT !.rules = s, !.variants = db[k].variants,
                                 !.overrides = db[k].overrides] : s \in Orders(db[k].rules)}

\* The process dies and starts again: NewEngine reloads before it serves.
NewEngine ==
    /\ calls < MaxCalls
    /\ calls' = calls + 1
    /\ pc' = [p \in Procs |-> "idle"]
    /\ pending' = [p \in Procs |-> <<>>]
    /\ snap' = [p \in Procs |-> NoFlags]
    /\ todo' = [p \in Procs |-> {}]
    /\ solo' = [p \in Procs |-> TRUE]
    /\ last' = "solo"
    /\ \E m \in [Keys -> UNION {Loaded(k) : k \in Keys}] :
          /\ \A k \in Keys : m[k] \in Loaded(k)
          /\ flags' = m
    /\ UNCHANGED key
    /\ NoCommit

-----------------------------------------------------------------------------
\* The first statement of a request.
Request(p) ==
    \E k \in Keys :
       \/ \E b \in Bodies, rs \in RuleLists : CreateFlag(p, k, b, rs)
       \/ \E b \in Bodies : UpdateFlag(p, k, b)
       \/ \E s \in Statuses : TransitionStatus(p, k, s)
       \/ DeleteFlag(p, k)
       \/ \E v \in VariantKeys : CreateVariant(p, k, v) \/ DeleteVariant(p, k, v)
       \/ \E u \in Users : DeleteOverride(p, k, u)
       \/ \E u \in Users, v \in VariantKeys : CreateOverride(p, k, u, v)

\* The statements after it.
Continue(p) ==
    \/ insertRule(p)
    \/ queryFlags(p)
    \/ \E k \in Keys : loadRules(p, k)
    \/ loadVariants(p)
    \/ loadOverrides(p)
    \/ install(p)

Next ==
    \/ \E p \in Procs : Request(p) \/ Continue(p) \/ reloadFails(p)
    \/ NewEngine

Spec == Init /\ [][Next]_vars

-----------------------------------------------------------------------------
(* Properties.                                                             *)

\* Types of the engine's state.
TypeOK ==
    /\ db \in [Keys -> DbFlag \cup {NULL}]
    /\ flags \in [Keys -> Flag \cup {NULL}]
    /\ pc \in [Procs -> Locations]
    /\ key \in [Procs -> Keys]
    /\ pending \in [Procs -> Seq(Rules)]
    /\ snap \in [Procs -> [Keys -> Flag \cup {NULL}]]
    /\ todo \in [Procs -> SUBSET Keys]
    /\ calls \in 0..MaxCalls
    /\ past \in [Keys -> SUBSET DbFlag]
    /\ solo \in [Procs -> BOOLEAN]
    /\ last \in {"solo", "raced", "failed"}

AtRest == \A p \in Procs : pc[p] = "idle"

\* The map says what the tables say.
CacheAgrees == \A k \in Keys : flags[k] \in Loaded(k)

\* A call that ran alone and succeeded leaves the map equal to the tables: no
\* operation forgets to reload, and no reload skips a flag or one of its tables.
FreshAfterSoloCall == AtRest /\ last = "solo" => CacheAgrees

\* What "persists ... and reloads the cache" says of every operation of the
\* "thread-safe" engine: with no call in progress the map equals the tables,
\* unless a call has failed.  (Overlapping reloads break it.)
FreshAtRest == AtRest /\ last # "failed" => CacheAgrees

\* Where the map agrees with the tables, the loop of EvaluateVariant finds what
\* the tables define: status gates, overrides, then the matching rule of the
\* smallest priority, then the default.
EvaluationFollowsTables ==
    \A k \in Keys, c \in Contexts :
       flags[k] \in Loaded(k) => EvaluateVariant(flags[k], c) \in Outcomes(db[k], c)

\* FlagStatusDraft: "visible only to users with an explicit override".  A flag
\* whose key was never stored in another status resolves to something else than
\* "false" only for a user some override pinned to just that, even while
\* reloads mix the tables of different moments.
DraftNeverExposed ==
    \A k \in Keys, c \in Contexts :
       LET v == EvaluateVariant(flags[k], c)
       IN (\A f \in past[k] : f.status = "draft") /\ v # "false"
          => \E f \in past[k] : Pinned(f, c) /\ f.overrides[c["userId"]] = v

\* Whatever calls overlap, evaluation reads maps woven from committed data.
Service == INSTANCE FlagService WITH served <- flags, StoredFlags <- DbFlag,
                                     ServedFlags <- Flag, InOrder <- Orders
ServesWovenFlags == Service!Spec

=============================================================================
