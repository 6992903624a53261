# Flagbase: models, checks and proofs

Flagbase is one Go process: an HTTP API over a SQLite database with an
in-memory flag evaluator, an embedded NATS bus, a cron scheduler, a function
runtime and a background worker. Its parts share one database connection and
call each other directly. The TLA+ modules here model the parts whose
correctness depends on how such calls interleave, fail and restart. TLC checks
them on small instances, and TLAPS proves the central results for all.

## Inventory

| Component | State | Operations | Interacts with |
|---|---|---|---|
| feature engine (`internal/feature`) | tables `feature_flags`, `flag_rules`, `flag_variants`, `flag_overrides`; the map `e.flags` | create, update, transition, delete; variants; overrides; `reload`; evaluate | API handlers, gateway, functions, worker |
| anomaly worker (`internal/worker`) | `metrics`, `function_invocations`, `anomaly_events`; its goroutine, `stop`, `done` | both checks, `recordAnomaly`, auto-disable, `Stop` | pool, feature engine, bus |
| trigger engine (`internal/trigger`) | `function_triggers`; `subs`, `cronEnts`; registrations in the bus and the scheduler | `Create`, `Update`, `Delete`, `Start`, `Stop`, `ServeHTTPTrigger` | bus, scheduler, function store |
| function store (`internal/function/store.go`) | `functions`, `function_versions`, `function_invocations`; artifacts in storage | `Create`, `Upload`, `Update`, `DeployVersion`, `Delete`, `Invoke*` | runtime, storage, packages, tracing |
| function runtime (`wasm.go`, `hostfuncs.go`) | compiled modules, the host module, per-invocation state | `Invoke`, host functions, nested `fn_invoke` | feature engine, tables, storage, store |
| tables (`internal/table`) | `table_definitions`, `table_columns`, one `data_*` table each | schema and record operations, promote and roll back by flag context | bus, runtime |
| packages (`internal/packages`) | `packages`, bundles in storage | request, approve (bundles in the background), delete | storage, function store |
| frontends (`internal/frontend`) | `frontends`, `frontend_versions`, files in storage | create, versions, activate, serve | storage |
| object storage (`internal/storage`) | directories and files | buckets and objects | bus, functions, packages, frontends |
| identity and access (`internal/iam`, `api/middleware.go`) | `users`, `groups`, `user_groups`; signed tokens | register, log in, roles, groups, `RequireRole` | every handler |
| first-time setup (`internal/admin`) | the setup token | generate, consume | identity |
| gateway (`internal/gateway`) | the routes | register, remove, serve | feature engine |
| tracing (`internal/tracing`) | `traces`, `trace_events` | start, complete, record | function store |

What is hard in this code:

* **Interleaving.** Handlers run concurrently, and almost every operation is a
  series of SQL statements and file operations without a transaction. Only changes
  of a table's definition are transactions. Mutexes guard single accesses.
* **The pool of one connection.** A result set that is open keeps everybody else
  out of the database, its own reader included.
* **Caches of tables.** The flag map, the registrations of triggers and the
  compiled modules have to follow rows that others change.
* **Failure half-way and restart.** What was done before an error stays done;
  the process rebuilds its memory from the tables when it starts.
* **Background work** that outlives the request that began it, or the row it is about.
* **Nesting.** A function that runs calls functions, under deadlines and contexts
  that it shares with some of them.
* **Copies that are never looked up again**: the claims in a signed token, the
  dependencies the host module was built with.

What makes each component correct:

* feature engine: evaluation follows the stored rules in priority order; a draft
  is never visible but to those pinned to it; after a successful call the map
  is the tables;
* worker: a noisy flag gets disabled, an anomaly is recorded once per window,
  an event follows the fact, the worker stops when told;
* triggers: an enabled row has exactly one registration, with its own
  configuration, and any other row has none;
* function store: a ready function has its artifact, its version numbers
  have no gaps, an invocation is completed once, a trace belongs to its invocation;
* invocations: everybody ends; row, trace, metrics and host call counts are those of
  the right invocation, whatever it called and whoever called it;
* tables: the registry and the data table agree, a definition that was read stays
  true, promotion and rollback of a flag context do what they say;
* packages, frontends: rows and files agree, a frontend serves its own versions, a
  bundling ends;
* access: a setup token makes one administrator, setup stays open to an installation
  without one, a token's claims are true until its user is changed.

PROJECT.json lists every component with its status and every hazard at its line.

## Plan

Modules, in the order of their weight for the server:

1. **Feature engine** (done): `FlagEval`, `FlagService` (abstract),
   `FeatureEngine` (implements it).
2. **Anomaly worker** (done): `AnomalyWorker`, with the pool and the flag map as
   far as the worker sees them.
3. **Trigger engine** (done): `TriggerEngine`.
4. **Function store** (done): `FunctionStore`, with the files of the storage adapter
   as far as functions use them.
5. **Tables** (done): `Tables`, schema, records and flag contexts, and `DraftTables`
   (abstract), which it implements.
6. **Invocations** (done): `Invocations`, the runtimes, nested calls, the shared host
   module, and the rows, traces and metrics they leave.
7. **Packages and frontends** over storage (done): `Frontends`, `Packages`, and
   `MCContent`, which composes them.
8. **Access** (done): users, groups, first-time setup and signed tokens.

Left: a composition of the worker with the feature engine, for the flag that the
worker writes back whole; the abstract promise of the function store, of which its
invariants are parts.

Runs: one passing run per component with two concurrent requests and a bound on
the number of calls, and one run per disagreement between the code and what it
says of itself. Theorems: types and every invariant of a passing run; for the feature
engine and the tables, refinement.

## FlagEval, FlagService, FeatureEngine

`FlagEval` is evaluation as operators: `EvaluateVariant`, `matchRule`,
`resolveRuleVariant` and the conversions, on a cached flag and a context. Strings
are atoms; matching ignores case, so an atom stands for a case-folded string,
and a rule's value is the set of the items of its list. `Outcomes` is the
reference definition, from the unordered rules of the table.

`FeatureEngine` has the tables (`db[k]`, a flag with its child rows, which exist
exactly while the flag does) and the map (`flags`). `pc[p]` is where call `p`
stands. Every SQL statement is one action, because the pool serializes them and
nothing else does:

| Action | Code |
|---|---|
| `CreateFlag`, `insertRule` | the INSERT of the flag, then one per rule; an error ends the call with what is stored |
| `UpdateFlag`, `TransitionStatus`, `DeleteFlag`, `CreateVariant`, `DeleteVariant`, `CreateOverride`, `DeleteOverride` | the one statement of the operation |
| `queryFlags`, `loadRules`, `loadVariants`, `loadOverrides` | the queries of `reload`, flags in any order |
| `install` | the swap under the mutex |
| `reloadFails` | an error in any of those queries |
| `NewEngine` | the process dies and starts again |

`past`, `solo` and `last` are history: the values each row has had, whether a call
overlapped another, and how the last call ended.

Run **feature** (2 flags, 2 requests, 3 calls, 2 rules whose priorities are the
reverse of their creation order, 1 user with overrides; requests that write a flag
enable it and leave its status to the code, as `TransitionStatus` gives it every
other) checks

* `FreshAfterSoloCall`: after a call that ran alone and succeeded the map is the
  tables;
* `EvaluationFollowsTables`: where the map agrees with the tables, evaluation
  gives a member of `Outcomes`;
* `DraftNeverExposed`: a flag that has only ever been a draft resolves to
  something else than "false" only for a user pinned to just that;
* `ServesWovenFlags`: `FeatureEngine` implements `FlagService`, whose promise is
  all that overlapping reloads leave: each of the four parts of a served flag
  was stored under that key at some moment, and rules are in priority order.

Three calls are enough for the cases that matter: two that overlap and one before
or after; two flags let a reload stand between them; two rules can be in the
wrong order and can fail half-way.

Run **feature_race** shows that the stronger claim fails: `reload` reads, then
swaps, and two of them may swap in the opposite order (finding 1).

Proved for all constants (`FeatureEngine_proofs`): `TypeCorrect`; `Invariance`, the
strengthening `TypeInv /\ WovenInv`, which says that every map under construction
is woven from `past` as far as it is loaded; from it `Refinement` (`Spec =>
ServesWovenFlags`) and `DraftIsolation` (`Spec => []DraftNeverExposed`).
`WovenInv` is needed because a map is assembled over many steps during which the
tables change: only the history, which grows, covers all of its parts.

`FreshWhenAlone` (`FreshAfterSoloCall`) rests on `SoloInv`: of two calls in progress
neither is alone, so while a call alone reloads nobody writes, and each entry of its
map is the stored flag as far as it is loaded (`EntryOK`); when nothing is left to
load, the maps are equal. `EvaluatesTables` (`EvaluationFollowsTables`) needs only the
types and that a served list of rules is an order of the stored ones: evaluation stops
at the first rule that matches, and a set of positions that is not empty has a least
one, which follows from the well-foundedness of inclusion, without induction.

## AnomalyWorker

The worker's goroutine is `pc`, one location per statement or access; `rows` is what
its open result set has still to deliver. Requests appear as single statements
(`RecordMetric`, `ResolveAnomaly`, `WriteFlag` with its reload in two steps), and
time as `tick`, `ErrorExpires` and `AnomalyAges`. `MaxOpenConns` is the pool size.
`InUse` says how many connections the worker's open result set holds, and every
statement waits for `CanQuery`. `live` says whether the `*Flag` the worker changes
in place is still the one in the map. The type invariant includes that a live
one is an entry of the map, so that the worker never writes through a nil pointer: the
check of what `getFlag` returned is what keeps that.

Run **worker** takes a pool of two: it asks whether the worker is right if it can
get a connection at all, so that its other properties say something.
`NoDuplicateAnomaly` (one open event per window, one more for each failed lookup,
whose error the code drops), `PublishedMeansDisabled`, `AutoDisable` and
`StopReturns` hold with one statement failing or one crash, and one request that
writes the flag concurrently. One flag and one function are enough: rows are
handled one after the other and only their own key matters to them.

Run **worker_one_connection** takes the pool that `database.Connect` configures:
the worker never gets past its first lookup (finding 2). `OneConnectionBlocks`
proves that for every instance: with `MaxOpenConns = 1` no anomaly is ever
recorded.

Fairness: the goroutine runs (`WF` of its steps), the ticker ticks (`WF` of `tick`),
Go's `select` picks among ready branches at random (`SF` of `stopped`), a request
that has begun its reload ends it. No fairness of requests, of time passing or of
faults. Deadlock is not checked: a worker that has stopped stays stopped.

Proved (`AnomalyWorker_proofs`): `TypeCorrect`, `Deduplication`,
`EventAfterDisable`, `OneConnectionBlocks`. `Deduplication` rests on the count the
worker has just seen: between `lookup` and `insert` only `ResolveAnomaly` and
`AnomalyAges` touch the count, and they lower it. Liveness is left to TLC.

## TriggerEngine

`row` is the table, `live` what the bus and the scheduler hold, `entry` what the maps
hold. Each SQL statement is an action, and so is each critical section: `activate` up
to the registration, `record` for the map entry, `deactivate` as a whole.

| Action | Code |
|---|---|
| `Create`, `activate`, `record` | `Create`: INSERT, `Subscribe` or `AddFunc`, entry |
| `Update`, `Get`, `deactivate`, `activate`, `record` | `Update`: UPDATE, SELECT, deactivate, activate |
| `Delete`, `deactivateFirst`, `deleteRow` | `Delete` |
| `fails` | an error of a later statement (the request's context is cancelled when its client leaves) or of `Subscribe` |
| `DeleteFunction` | the cascade from `functions` |
| `Restart` | the process ends, `Start` activates the enabled rows |

Run **triggers** (2 triggers, 2 requests, 5 calls, a cron trigger with two schedules
and one it refuses, an HTTP trigger) checks `EntriesAreLive`, whatever overlaps and
fails, and `RegisteredAsStored` for triggers not in `spoiled`: no two calls about
them overlapped and none failed half-way since the last start. That condition is
the best the code allows: run **trigger_delete** shows what an overlap leaves behind
(finding 3). Five calls allow a Create, two Updates, a Delete and a restart on
one trigger. `Start` is one step: no request is served before it ends.

Proved (`TriggerEngine_proofs`): `TypeCorrect`; `EntriesLive`, from `Owned` (a
registration is in one entry or held by one call, never in two places);
`RegistrationFollowsRow`, from `Orderly`: one call at a time about an unspoiled
trigger, and for each place in that call what holds of the trigger there
(`CallOK`).

## FunctionStore

`rows`, `versions` and `objects` are what survives a crash: the row, the version rows
in the order they were inserted, and the files `<id>.js` and `<id>.wasm`. `pc[p]` is
where request `p` stands; nothing locks anything, so every statement and every
file operation is an action. JavaScript source, which is also its own artifact, is an
atom that compiles or does not (`Valid`); a WASM binary is an atom.

| Action | Code |
|---|---|
| `Create`, `Upload`, `DeployVersion`, `Update`, `Delete` | the operation up to and with its first statement |
| `updateSource` | the UPDATE of `Update`; the outcome of `Compile` decides where it goes on |
| `openObject`, `writeObject` | `PutObject`: `os.Create` truncates, `io.Copy` writes |
| `markReady`, `markError` | `updateStatus`, and the UPDATE of `DeployVersion`, which keeps the runtime |
| `readMax`, `readSource`, `insertVersion` | the statements of `createVersion` |
| `deleteObject`, `deleteRow` | `Delete`; the versions go by cascade |
| `putFails`, `statementFails`, `Crash` | a failed file operation, a failed statement (the request's context is cancelled when its client leaves), the end of the process |

A file that is written through an open descriptor after another call truncated or
unlinked its name behaves as a file does: `fd` says whether the descriptor still
leads to the name, and a shorter content over a longer one leaves a torn file.

`raced` and `failed` are history: functions whose calls overlapped, and functions
with a call in progress when a fault struck. Properties are as strong as the code
allows on what remains:

* `SequentialUse`: without either, row, files and versions fit together in every
  respect;
* `CompilingIsTransient` and `ReadyHasObject`: whatever overlaps, without a fault;
* `VersionsContiguous`: whatever overlaps and fails. Numbers may repeat, since
  the maximum is read in one statement and used in another.

Run **functions** has one function, because no operation on a function reads or
writes what belongs to another; two requests, four calls and one fault, so that
two overlapping calls have others before and after them; two sources that
compile and one that does not; two binaries, so that a torn file can be told from
a whole one. Requests are symmetric.

`SequentialUse` leaves out JavaScript functions that WASM was deployed to. Run
**function_ready** shows why: `DeployVersion` does not look at the language and makes
a function ready that has no runtime (finding 4).

Proved (`FunctionStore_proofs`), for any functions, sources and number of calls:
`TypeCorrect`; `CompilingEnds`; `NoVersionGap`; `ReadyObject`.
* The type invariant carries that a set of version numbers which is not empty has
  a highest one (`HighestExists`). Induction over data is out of reach, and without
  it `Max` would say nothing; an append gives the new highest number.
* `NoVersionGap` needs that the number a call read is zero or still among the
  function's versions (`NumbersInv`). Only a deletion takes versions away, and an
  insertion after one violates the foreign key.
* `ReadyObject` is about functions at rest; in between, a missing file has a cause:
  an upload that is about to create it or a deletion that is about to take the
  row as well (`ObjectInv`).

* `UsedInTurn` (`SequentialUse`) rests on `UseInv`: as long as nothing has overlapped
  or failed about a function, at most one call about it is in progress, and for each
  place in that call, what of row, versions and files is already new and what is
  still as it was before; without a call, all of it fits together.

## Tables

`schema` is the registry (`table_definitions`, `table_columns`), `physical` the
`data_*` tables, `rows` their records, each with its `_flag_ctx` (`tag`). A change of
a definition is one transaction and so one action, and the pool of one connection
makes it atomic. Every record operation, and `AddColumns`, first reads the
definition and then builds its own statement from what it read: `call[p].snap`.

| Action | Code |
|---|---|
| `CreateTable`, `DeleteTable` | the transaction of the operation |
| `DeleteRecord`, `RollbackByFlagCtx`, `PromoteByFlagCtx` | the one statement |
| `InsertRecord`, `InsertRecordFlagged`, `UpdateRecord`, `GetRecord`, `QueryRecords`, `AddColumns` | the first read of `GetTable`, the definition row |
| `loadColumns` | its second read, and the validation by `buildInsertData` or `buildSetClauses` |
| `insert`, `update`, `alter` | the statement or transaction, accepted or refused by the physical table |
| `definition`, `loadColumns`, `select` | the `GetRecord` at the end of an insertion or an update; an insertion without a flag context publishes what it finds |
| `Abandon` | an error or a crash |

A value is its type or null. `colFragment`, `validateValue`, `Stored` (what SQLite's
affinity makes of a value) and `Default` say what the conversions do; a default that is
no literal of its type is declared as none, while the registry keeps it (`"broken"`): a
new table may have such a column, and a table without rows may be given one.

Run **tables** (one table, two calls at a time, five calls, one fault, two ids, one
flag variant, the lists and field maps of `MCTables`) checks

* `RegistryMatchesTable`: both sides of a definition have the same columns;
* `ReadColumnsStayTrue`: what a call has read stays true until the table is dropped;
* `RowsFitSchema`: a record fits the schema its table has now, although SQLite does
  not check types, unless a call wrote it over a drop (`unchecked`);
* `AnnouncedUnlessFlagged`: an insertion was announced exactly if it had no flag context;
* `PositionsDense`: column positions have no gap and no repetition, unless `AddColumns`
  worked from a stale definition (`outdated`); two overlapping calls do repeat one;
* `KeepsDrafts`: `Tables` implements `DraftTables`, a table with published records and
  one draft per flag context. A draft is published or discarded as a whole and in one
  step, nothing else moves a record in or out of one, and only what is published and
  was never in a draft is announced. Calls that read, check and refuse, and every
  UPDATE and ALTER, are steps it does not see. `FlaggedUntilPromoted`, the same said of
  a record's tag, has no check of its own besides; it is proved.

One table is enough, since no operation reads two. Five calls let a table be
created, altered, dropped and created again while one call about it goes on. Two
column names and two types give every pair of lists: same, overlapping, in conflict.

Proved (`Tables_proofs`): `TypeCorrect`; `RegistryTrue`, inductive with the types and
with the fact that a call in progress names a table; `ReadsStayTrue`, from
`StillTrue`: a call that holds columns and has seen no drop finds them in the
registry, which only grows; `FlagContextKept` (`[]FlaggedUntilPromoted`), from `Tags`:
an id is given once, so that a record's context is the one it was born with or has
been promoted;
`Announced`, from `AnnInv`: an id without an event belongs to an insertion that is
still to publish it, to a lost one, or to a flagged one.

* `RecordsFit` (`RowsFitSchema`) needs `CheckedCalls`: the fields a call holds have been
  checked against the columns it has read. `ReadColumnsStayTrue` says that these are
  still columns of the table, and a column the call has not read is filled in by its
  default, which fits: AddColumns takes no column that is required, and SQLite one whose
  default is NULL only while there is no record to fill it in for.
* `PositionsContiguous` (`PositionsDense`) counts: the new columns of an AddColumns are
  numbered from the number of the old ones by how many new ones come before them in
  its list, and such ranks take every value below the number of new columns once.
* `Drafted` (`Spec => KeepsDrafts`) maps every action to one of `DraftTables` or to none,
  from the invariants above: `Tags` for an id that is given once, `AnnInv` for what a
  call is about to announce.

## Invocations

`frame[i]` is invocation `i`: where it stands, its function, its caller (`parent`) and
those above it, the trace it was handed. `row`, `trace` and `metrics` are what it
leaves in the database. `ended` is the set of contexts that are done: that of a
request, and the deadline of a WASM execution, on which the contexts of everything
below depend (`Contexts`).

| Action | Code |
|---|---|
| `Invoke` | a request, or the handler of an event or a cron job, up to `StartTrace` |
| `fn_invoke` | the host function of either runtime; the caller waits |
| `startTrace`, `insertRow` | the INSERTs; an error is dropped |
| `load` | the artifact is read and compiled; the first WASM one registers the host module (`captured`) |
| `hostCall`, `metrics_publish` | the other host functions |
| `finish`, `interrupt`, `timeout` | the function returns; wazero stops it; its time is up |
| `completeTrace`, `updateRow` | the end of `Invoke` |
| `endRequest`, `disconnect` | the request's context ends |
| `DeleteFunction`, `statementFails`, `crash` | the cascade, and faults |

A WASM execution is stopped by its deadline only when it is not inside a host call;
a JavaScript function returns when its timer fires, and what it called goes on behind
it. The timer of a callee does not fire before its caller's: it started later and all
have the same limit.

Run **invocations** (a function of each runtime, one request, three invocations
deep or side by side, one host call, one fault) checks

* `AccountedUnlessCut`: the outcome reaches the row even when the invocation timed
  out, unless something above it did, its client left, or a fault struck. In those
  cases the UPDATE is given a dead context and the row stays pending for good;
* `HostEffectsAreOwn` (`HostCallsAreOwn`, `MetricsAreOwn`): counts and metrics belong to
  the code that made them, although all share one host module;
* `TraceTellsOutcome`: callees complete the trace too, but the request's own outcome
  is last, unless a JavaScript function timed out over its callee;
* `NobodyStuck`: while an invocation goes on, there is one that the server can move
  without help of the function's code: no caller waits for one that has returned, and
  no two for each other;
* `EveryInvocationEnds`: functions that never return are stopped, at any depth.

Three invocations are the least that show a callee of a callee and a callee behind a
timed out caller; requests share nothing but the host module, whose capture one
request with two WASM functions shows.

Fairness: `WF` of the steps the scheduler runs and of the timers. None of what a
function does by itself, of clients or of faults.

Proved (`Invocations_proofs`), for any functions, traces and bounds: the types;
`HostEffectsOwn`, of `MetricsOwn` and of `HostCallsOwn`, which is from `Counted`: a WASM
invocation's row will tell what its own frame counted; and `OutcomesReachRows`
(`AccountedUnlessCut`). The last one is
about the tree of calls, of which the property sees one node, and its invariant `IInv`
is the conjunction of

* `Base`: types, and what an invocation that has not begun leaves untouched;
* `Chain`: those above an invocation are its caller and those above that one, with
  the same root;
* `Kids`: a caller has at most one callee going on, and none while it runs;
* `Waits`: all those above an invocation that goes on are waiting for it, unless a
  JavaScript one of them timed out and returned over it;
* `Done`: the reasons for which a context can be done;
* `Accounts`: the row is pending from its insertion and has the outcome at the end,
  for every invocation that nothing cut.

Each action is first mapped to a step of frames alone (`FrameStep`: one arrives, one
descends, one advances, one returns, or all die), so that the tree is argued about once
and not action by action.

`RequestTellsTrace` (`TraceTellsOutcome`) adds `RootsOK` and `Tells` (`TellInv`): a request
that nothing has disturbed (`Calm`) has its trace once it has begun, and once it has
reported its outcome the trace says so. For then nothing it called goes on, since
`Waits` has all those above an active invocation waiting, and who else could write that
trace would have to have been handed it.

`NoDeadlock` (`NobodyStuck`) is from `MoveInv`: of `Base`, `Chain`, `Kids` and

* `Upward`: callers have smaller indices than what they call;
* `Timers`: time is up for a caller before it is up for its callee;
* `Callees`, `Patience`: who waits has a callee that goes on, and above an invocation
  that goes on everybody waits whose time is not up.

The last invocation that goes on waits for nobody. If it neither runs a statement nor
is stopped, the topmost one above it whose time is not up is the one whose timer may
fire. So the state has no deadlock in any instance; that the steps are also taken,
`EveryInvocationEnds`, is model-checked only.

## Frontends, Packages, MCContent

`Frontends` has the tables `frontends` and `frontend_versions` and the stored files, one
action per statement and per file: `upload`, `putFile`, `insertVersion` are
`CreateVersion`; `listVersions`, `wipeVersion`, `deleteFrontend` are `Delete`;
`removeFiles`, `deleteRow`, `clearActive` are `DeleteVersion`; `checkVersion`,
`activate` are `ActivateVersion` with the check of its handler. `Cut` is an error in one
request or the end of the process. Version ids in a URL are ids somebody was told
(`Known`), under any frontend; other URL segments are not modelled. An archive is the
list of the names its files have in the ZIP, without the directories, and `cleanName`
is what `filepath.Clean` makes of each: `putFile` stores a file under its cleaned name,
over an earlier one of the same name, and counts it in any case, and `invalidPath` ends
the request at a name that leads out, behind the files that are stored by then.

`Packages` has the table, the bundles and the declarations. `RequestPackage` is one
INSERT; `get` and `approve` are `Approve`, which starts a goroutine; that is
`fetchBundle`, `openBundle`, `writeBundle`, `recordAvailable` or `recordError`, and
`storeTypes`; `deleteBundle`, `deleteTypes`, `deleteRow` are `Delete`. A job whose
bundle was unlinked goes on writing it (`"unlinked"`).

The two services share no table and no bucket: `MCContent` runs one or the other.
Run **content** (two of each id, two requests, two jobs, three or four calls, one
fault) checks

* `DirectoriesMatchRows`: a listed version has stored the cleaned names of its archive,
  all of them and nothing else, from the moment it appears until a delete of it starts,
  and files without a version have a cause (`stray`): a refused, failed or overtaken
  call. `file_count` is the number of names in the archive, which is more than the files
  stored when two names clean alike, as in one of the archives checked;
* `ActiveIsOwnVersion`: a frontend serves its own version, and one that exists unless
  an activation overtook its deletion or that deletion was cut off (`loose`);
* `AvailableIsUsable`: an available package has its whole bundle, unless it was
  approved again during its bundling or a deletion was cut off (`muddled`);
* `BundlingEnds`: no package stays in bundling while the process lives and the
  database takes the last word of its job.

Fairness: `WF` per job. It has no lock to wait for, and `httpGet` has a timeout. Four
calls allow two approvals that overlap and a deletion between their steps, and one
more approval; three allow an upload, a deletion and an activation.

Proved (`MCContent_proofs`), for any ids and number of requests and jobs:

* `ContentTypes`; `StoredAsListed` (`DirectoriesMatchRows`) and `ServedIsOwned`
  (`ActiveIsOwnVersion`), from `FrontendsInv`. It says that an id somebody was told
  belongs to an upload that is over (`Settled`); that an upload has stored and counted
  the first names of its archive and has the others still before it (`UpTo`), and a deletion has emptied the directories it is
  through with; and that an activation between its check and its UPDATE names a version
  that is there or that a deletion marked (`loose`), or a frontend that is gone;
* `AvailableHasBundle` (`AvailableIsUsable`) and `BundlingHasGoroutine`, from
  `PackageSound`: a package that is not muddled has at most one job, while that job runs
  the status is "bundling", and the bundle is whole before it is recorded as available;
  a package in bundling that no fault has hit has a job.

`BundlingHasGoroutine` is the safety half of `BundlingEnds`: what ends a bundling is
there. That it gets there is model-checked only.

## Access

Users, groups, memberships and signed tokens (`iam`), and the one-time setup
(`admin`). A service call is one statement, except `Login` (`Login`, `loadGroups`) and
`CompleteSetup` (`Consume` under the mutex, `registerAdmin` or `registerFails`,
`issueAdmin`). `RequireRole` looks at the token only. `current` remembers of a token
whether anything about its user changed since its login began.

Run **access** (two users, one group, three roles, two requests, two starts, two logins,
three edits) checks

* `ClaimsTrueUntilChanged`: role and groups of a token are those of its user, although
  they were read in two statements, until an administrator changes either;
* `OneAdminPerToken`: overlapping setups with one token make one administrator;
* `SetupWayIn`: without an administrator there is an open setup or one being
  completed, unless since the start it expired, its registration failed, or an
  administrator was deleted or demoted (`shut`), which nothing prevents. Besides, the
  public `/auth/register` (`Register`) takes any role, that of administrator included;
  the property is about the way that setup offers.

Two logins and three edits let every edit fall between the reads of a login and before
or after it. Two starts show what a restart keeps and forgets.

Proved (`Access_proofs`) for any users, groups, requests and bounds: `TypeCorrect`,
whose invariant includes that memberships join rows that exist; `SetupOnce`, from `OneInv`:
a token makes nobody until it is consumed, and only the request that consumed it may;
`WayIn`; `ClaimsTrue`, from `ClaimsInv`, which says the same of a login between its
two reads: what it read is still so while `current` holds.

## Findings

1. `feature_race`: overlapping reloads leave a stale map (`engine.go:278`).
2. `worker_one_connection`: the worker waits for its own connection and takes the
   database with it (`worker.go:82`).
3. `trigger_delete`: a deleted trigger goes on firing (`trigger/engine.go:127`).
4. `function_ready`: WASM deployed to a JavaScript function that does not compile
   makes it ready, and it cannot run (`function/store.go:244`).

What the models show besides, and no run claims otherwise:

* `get_trace_id` answers with the trace of the first WASM invocation since the start
  (`hostfuncs.go:210`): the host module captures it once.
* `metrics.publish` of a JavaScript function inserts an empty function id
  (`store.go:824`), which the foreign key refuses: it always returns false.
* A query limit above the cap of 1000 falls back to 100 (`records.go:257`).
* `CreateVersion` stores files before its row, so that a deletion of the frontend in
  between orphans them; `DeleteVersion` takes the frontend from the URL and the row by
  its id alone.
* The routes under the comment "devs request; admins approve" (`server.go:168`) all
  ask for the role admin.

## What is checked only, and what is left out

Every invariant of a passing run is proved, for all values of the constants, and so
are the two refinements. TLC's alone are the liveness properties `AutoDisable`,
`StopReturns`, `BundlingEnds` and `EveryInvocationEnds`, which depend on fairness, and
the counterexamples of the findings. The proofs assume only the named
ASSUMEs of the modules: `RulesAssumption`, `EngineAssumption`, `WorkerAssumption`,
`NullAssumption`, `TriggerAssumption`, `StoreAssumption`, `TablesAssumption`,
`InvocationsAssumption`, `ContentAssumption`, `AccessAssumption`, which say what the constants are and hold
in every run.

Not modelled:

* the gateway: one map, each access one critical section; the evaluation behind it is
  `FlagEval`;
* message delivery (the NATS server's) and the cron scheduler itself;
* spans, custom metric queries and the other monitoring reads: nothing reads back what
  they write, or they write nothing;
* buckets that functions use for themselves: no operation of the server depends on
  what is in them;
* filters, order and limits of table queries, passwords and signatures, names and
  descriptions: data that no property tells apart;
* the function compiler and scaffolds (text to text), the command line, the SDK and
  the admin console (clients of the API), configuration and logging.

Every bound is a constant of a cfg: `MaxCalls` (for the two services of `MCContent`,
`FrontendCalls` and `PackageCalls`), `MaxErrors`, `MaxWrites`, `MaxFaults`,
`MaxRequests`, `MaxInvs`, `MaxHostCalls`, `MaxStarts`, `MaxLogins`, `MaxEdits`, and the
sizes of the sets of keys, ids, requests and handles.
