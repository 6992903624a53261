---------------------------- MODULE AnomalyWorker ----------------------------
(***************************************************************************)
(* internal/worker: the goroutine that every 30 s looks for flags with too *)
(* many error events and for failing or slow functions, records an anomaly *)
(* for each and disables the flags.  It shares the connection pool, the    *)
(* flag table and the flag map with the requests of the API.               *)
(*                                                                         *)
(* A db.Query keeps its connection until its rows are exhausted; Exec and  *)
(* QueryRow need a free one for the time of the call only.  So the pool    *)
(* appears here as the one connection the worker's open result set may     *)
(* hold, and everybody else's statements are single steps that wait for    *)
(* a free connection.                                                      *)
(***************************************************************************)
EXTENDS Integers

CONSTANTS
    Keys,           \* flag keys
    Fns,            \* function ids
    MaxOpenConns,   \* size of the pool; database.Connect sets 1
    ErrorThreshold, \* error events a flag may have in 5 minutes; 10 in the code
    MaxErrors,      \* bound on the error events counted
    MaxWrites,      \* bound on the API's writes to the flag table
    MaxFaults,      \* bound on failed statements and crashes
    NULL            \* no row is being handled

ASSUME WorkerAssumption ==
    /\ MaxOpenConns \in Nat \ {0}
    /\ ErrorThreshold \in Nat
    /\ {MaxErrors, MaxWrites, MaxFaults} \subseteq Nat

\* An anomaly is told from others by type and ref_id.
FlagAnomalies == {"flag_error_rate"} \X Keys
RateAnomalies == {"function_error_rate"} \X Fns
SpikeAnomalies == {"function_latency_spike"} \X Fns
Anomalies == FlagAnomalies \cup RateAnomalies \cup SpikeAnomalies

VARIABLES
    errors,  \* errors[k]: error events of k in the last 5 minutes
    signals, \* functions that fail too often or are too slow, as anomalies
    row,     \* row[k]: feature_flags.enabled, or "none"
    served,  \* served[k]: Enabled of the engine's cached *Flag, or "none"
    open,    \* open[a]: anomaly_events of a, unresolved, not older than 30 min
    pc,      \* where the worker stands
    rows,    \* rows its open result set has still to deliver
    cur,     \* the row it is handling
    live,    \* its *Flag is still the one in the engine's map
    snap,    \* the map its reload is building
    touched, \* history: the API wrote row[cur] since the worker's UPDATE
    api,     \* a request that writes flags: "idle", "reload" or "install"
    apiSnap, \* the map its reload is building
    writes,  \* writes the API has made
    stop,    \* Stop was called
    faults,  \* faults so far
    lookupFaults \* those that hit the deduplication query

world   == <<errors, signals>>
flagVars == <<row, served>>
apiVars == <<api, apiSnap, writes>>
vars == <<errors, signals, row, served, open, pc, rows, cur, live, snap,
          touched, api, apiSnap, writes, stop, faults, lookupFaults>>

ASSUME NullAssumption == NULL \notin Anomalies

Enabledness == {"on", "off", "none"}

\* A local map that is not in use.
NoMap == [k \in Keys |-> "none"]

Unconnected == {"select", "flagQuery", "fnQuery", "latQuery", "done"}
Connected == {"flagRow", "fnRow", "latRow", "lookup", "insert", "getFlag",
              "mutate", "update", "reload", "install", "publish"}

Init ==
    /\ errors = [k \in Keys |-> 0]
    /\ signals = {}
    /\ row \in [Keys -> Enabledness]
    /\ served = row
    /\ open = [a \in Anomalies |-> 0]
    /\ pc = "select"
    /\ rows = {}
    /\ cur = NULL
    /\ live = FALSE
    /\ snap = NoMap
    /\ touched = FALSE
    /\ api = "idle"
    /\ apiSnap = NoMap
    /\ writes = 0
    /\ stop = FALSE
    /\ faults = 0
    /\ lookupFaults = 0

-----------------------------------------------------------------------------
(* The pool, and what can fail.                                            *)

\* Mutant of InUse: a result set is closed by the deferred Close alone, so that
\* of the error rates stays open during the latency check.
InUse_DeferredClose ==
    CASE pc \in Connected /\ cur \in SpikeAnomalies -> 2
      [] pc \in Connected /\ cur \notin SpikeAnomalies -> 1
      [] pc \in Unconnected -> 0

\* Connections the worker's open result set keeps out of the pool.
InUse == IF pc \in Connected THEN 1 ELSE 0

CanQuery == InUse < MaxOpenConns

Fault ==
    /\ faults < MaxFaults
    /\ faults' = faults + 1

NoFault == UNCHANGED <<faults, lookupFaults>>

Goto(l) == pc' = l

Worker(l) == pc = l /\ UNCHANGED <<world, apiVars, stop>>

-----------------------------------------------------------------------------
(* The select loop of run.                                                 *)

\* The ticker fired and select took that branch.
tick ==
    /\ Worker("select")
    /\ Goto("flagQuery")
    /\ UNCHANGED <<flagVars, open, rows, cur, live, snap, touched>>
    /\ NoFault

\* The stop channel is closed and select took that branch.
stopped ==
    /\ Worker("select")
    /\ stop
    /\ Goto("done")
    /\ UNCHANGED <<flagVars, open, rows, cur, live, snap, touched>>
    /\ NoFault

\* db.Query at l: opens result set R and goes on to loop, or fails, goes to else.
Query(l, R, loop, else) ==
    /\ Worker(l)
    /\ CanQuery
    /\ \/ rows' = R /\ Goto(loop) /\ NoFault
       \/ UNCHANGED rows /\ Goto(else) /\ Fault /\ UNCHANGED lookupFaults
    /\ UNCHANGED <<flagVars, open, cur, live, snap, touched>>

\* rows.Next at l: one more row to handle, or the end, which frees the connection.
\* The variables of the loop body are new.
NextRow(l, next) ==
    /\ Worker(l)
    /\ \/ \E a \in rows : rows' = rows \ {a} /\ cur' = a /\ Goto("lookup")
       \/ rows = {} /\ rows' = {} /\ cur' = NULL /\ Goto(next)
    /\ live' = FALSE
    /\ touched' = FALSE
    /\ UNCHANGED <<flagVars, open, snap>>
    /\ NoFault

Noisy == {a \in FlagAnomalies : errors[a[2]] > ErrorThreshold}

\* checkFlagAnomalies returns at once when its query fails; so does the latency
\* half of checkFunctionAnomalies, but a failed error-rate query does not end it.
checkFlagAnomalies == Query("flagQuery", Noisy, "flagRow", "fnQuery")
flagRow == NextRow("flagRow", "fnQuery")
checkErrorRates == Query("fnQuery", signals \cap RateAnomalies, "fnRow", "latQuery")
fnRow == NextRow("fnRow", "latQuery")
checkLatencies == Query("latQuery", signals \cap SpikeAnomalies, "latRow", "select")
latRow == NextRow("latRow", "select")

-----------------------------------------------------------------------------
(* recordAnomaly, called with the result set of the caller still open.     *)

\* Where the caller goes on.
Caller == CASE cur \in FlagAnomalies  -> "getFlag"
            [] cur \in RateAnomalies  -> "fnRow"
            [] cur \in SpikeAnomalies -> "latRow"

\* Mutant of lookup: the count is not looked at.
lookup_NoDedup ==
    /\ Worker("lookup")
    /\ CanQuery
    /\ Goto("insert")
    /\ UNCHANGED <<flagVars, open, rows, cur, live, snap, touched>>
    /\ NoFault

\* Mutant of lookup: an anomaly known already ends the handling of the row.
lookup_SkipsRow ==
    /\ Worker("lookup")
    /\ CanQuery
    /\ Goto(IF open[cur] = 0 THEN "insert"
            ELSE IF Caller = "getFlag" THEN "flagRow" ELSE Caller)
    /\ UNCHANGED <<flagVars, open, rows, cur, live, snap, touched>>
    /\ NoFault

\* The count of open anomalies like this one; an error is ignored and counts 0.
lookup ==
    /\ Worker("lookup")
    /\ CanQuery
    /\ \/ Goto(IF open[cur] > 0 THEN Caller ELSE "insert") /\ NoFault
       \/ Goto("insert") /\ Fault /\ lookupFaults' = lookupFaults + 1
    /\ UNCHANGED <<flagVars, open, rows, cur, live, snap, touched>>

\* The INSERT; its error is ignored too.
insert ==
    /\ Worker("insert")
    /\ CanQuery
    /\ Goto(Caller)
    /\ \/ open' = [open EXCEPT ![cur] = @ + 1] /\ NoFault
       \/ UNCHANGED open /\ Fault /\ UNCHANGED lookupFaults
    /\ UNCHANGED <<flagVars, rows, cur, live, snap, touched>>

-----------------------------------------------------------------------------
(* The auto-disable of checkFlagAnomalies.                                 *)

\* Mutant of getFlag: a flag that is not in the map is not told from a flag.
getFlag_NoNilCheck ==
    /\ Worker("getFlag")
    /\ live' = (served[cur[2]] # "off")
    /\ Goto(IF served[cur[2]] # "off" THEN "mutate" ELSE "flagRow")
    /\ UNCHANGED <<flagVars, open, rows, cur, snap, touched>>
    /\ NoFault

\* GetFlag returns the pointer in the map; a disabled or unknown flag is skipped.
getFlag ==
    /\ Worker("getFlag")
    /\ live' = (served[cur[2]] = "on")
    /\ Goto(IF served[cur[2]] = "on" THEN "mutate" ELSE "flagRow")
    /\ UNCHANGED <<flagVars, open, rows, cur, snap, touched>>
    /\ NoFault

\* f.Enabled = false, with no lock: evaluation sees it at once if the object is
\* still the one in the map.
mutate ==
    /\ Worker("mutate")
    /\ served' = IF live THEN [served EXCEPT ![cur[2]] = "off"] ELSE served
    /\ Goto("update")
    /\ UNCHANGED <<row, open, rows, cur, live, snap, touched>>
    /\ NoFault

\* Mutant of update: the worker publishes although UpdateFlag returned an error.
update_IgnoresError ==
    /\ Worker("update")
    /\ CanQuery
    /\ \/ /\ row' = [row EXCEPT ![cur[2]] = IF @ = "none" THEN "none" ELSE "off"]
          /\ touched' = FALSE
          /\ Goto("reload")
          /\ NoFault
       \/ /\ Goto("publish")
          /\ Fault
          /\ UNCHANGED <<row, touched, lookupFaults>>
    /\ UNCHANGED <<served, open, rows, cur, live, snap>>

\* The UPDATE of UpdateFlag; no row is no error.
update ==
    /\ Worker("update")
    /\ CanQuery
    /\ \/ /\ row' = [row EXCEPT ![cur[2]] = IF @ = "none" THEN "none" ELSE "off"]
          /\ touched' = FALSE
          /\ Goto("reload")
          /\ NoFault
       \/ /\ Goto("flagRow")
          /\ Fault
          /\ UNCHANGED <<row, touched, lookupFaults>>
    /\ UNCHANGED <<served, open, rows, cur, live, snap>>

\* The reload of UpdateFlag: read the table (FeatureEngine has the detail), ...
reload ==
    /\ Worker("reload")
    /\ CanQuery
    /\ \/ snap' = row /\ Goto("install") /\ NoFault
       \/ UNCHANGED snap /\ Goto("flagRow") /\ Fault /\ UNCHANGED lookupFaults
    /\ UNCHANGED <<flagVars, open, rows, cur, live, touched>>

\* ... and swap the map.
install ==
    /\ Worker("install")
    /\ served' = snap
    /\ snap' = NoMap
    /\ live' = FALSE
    /\ Goto("publish")
    /\ UNCHANGED <<row, open, rows, cur, touched>>
    /\ NoFault

\* The flagbase.flag.disabled event for cur goes out, or its error is logged.
publish ==
    /\ Worker("publish")
    /\ Goto("flagRow")
    /\ UNCHANGED <<flagVars, open, rows, cur, live, snap, touched>>
    /\ NoFault

-----------------------------------------------------------------------------
(* The rest of the server, and time.                                       *)

Outside == UNCHANGED <<pc, rows, cur, snap>>

\* POST /metrics, also for keys of no flag.
RecordMetric(k) ==
    /\ CanQuery
    /\ errors[k] < MaxErrors
    /\ errors' = [errors EXCEPT ![k] = @ + 1]
    /\ UNCHANGED <<signals, flagVars, open, live, touched, apiVars, stop>>
    /\ Outside /\ NoFault

\* An error event gets older than 5 minutes.
ErrorExpires(k) ==
    /\ errors[k] > 0
    /\ errors' = [errors EXCEPT ![k] = @ - 1]
    /\ UNCHANGED <<signals, flagVars, open, live, touched, apiVars, stop>>
    /\ Outside /\ NoFault

\* Invocations finish or leave the 10-minute window.
Invocations ==
    /\ CanQuery
    /\ signals' \in SUBSET (RateAnomalies \cup SpikeAnomalies)
    /\ signals' # signals
    /\ UNCHANGED <<errors, flagVars, open, live, touched, apiVars, stop>>
    /\ Outside /\ NoFault

\* POST /anomalies/{id}/resolve: resolves an event that is unresolved.
ResolveAnomaly(a) ==
    /\ CanQuery
    /\ open[a] > 0
    /\ open' = [open EXCEPT ![a] = @ - 1]
    /\ UNCHANGED <<world, flagVars, live, touched, apiVars, stop>>
    /\ Outside /\ NoFault

\* An anomaly gets older than the 30-minute window.
AnomalyAges(a) ==
    /\ open[a] > 0
    /\ open' = [open EXCEPT ![a] = @ - 1]
    /\ UNCHANGED <<world, flagVars, live, touched, apiVars, stop>>
    /\ Outside /\ NoFault

\* CreateFlag, UpdateFlag and DeleteFlag of the API: the statement, then reload.
WriteFlag(k, e) ==
    /\ CanQuery
    /\ api = "idle"
    /\ writes < MaxWrites
    /\ writes' = writes + 1
    /\ row' = [row EXCEPT ![k] = e]
    /\ api' = "reload"
    /\ touched' = (touched \/ cur \in {a \in FlagAnomalies : a[2] = k})
    /\ UNCHANGED <<world, served, open, live, apiSnap, stop>>
    /\ Outside /\ NoFault

apiReload ==
    /\ CanQuery
    /\ api = "reload"
    /\ apiSnap' = row
    /\ api' = "install"
    /\ UNCHANGED <<world, flagVars, open, live, touched, writes, stop>>
    /\ Outside /\ NoFault

apiInstall ==
    /\ api = "install"
    /\ served' = apiSnap
    /\ apiSnap' = NoMap
    /\ live' = FALSE
    /\ api' = "idle"
    /\ UNCHANGED <<world, row, open, touched, writes, stop>>
    /\ Outside /\ NoFault

\* Worker.Stop closes the channel, then waits for done.
Stop ==
    /\ ~stop
    /\ stop' = TRUE
    /\ UNCHANGED <<world, flagVars, open, live, touched, apiVars>>
    /\ Outside /\ NoFault

\* The process dies and is started again: the map is loaded, the worker is new.
Restart ==
    /\ Fault
    /\ served' = row
    /\ pc' = "select"
    /\ rows' = {}
    /\ cur' = NULL
    /\ live' = FALSE
    /\ snap' = NoMap
    /\ touched' = FALSE
    /\ api' = "idle"
    /\ apiSnap' = NoMap
    /\ stop' = FALSE
    /\ UNCHANGED <<world, row, open, writes, lookupFaults>>

-----------------------------------------------------------------------------
check ==
    \/ checkFlagAnomalies \/ flagRow
    \/ checkErrorRates \/ fnRow
    \/ checkLatencies \/ latRow
    \/ lookup \/ insert
    \/ getFlag \/ mutate \/ update \/ reload \/ install \/ publish

Request ==
    \/ \E k \in Keys : RecordMetric(k) \/ ErrorExpires(k)
    \/ Invocations
    \/ \E a \in Anomalies : ResolveAnomaly(a) \/ AnomalyAges(a)
    \/ \E k \in Keys, e \in Enabledness : WriteFlag(k, e)
    \/ apiReload \/ apiInstall

Next == tick \/ stopped \/ check \/ Request \/ Stop \/ Restart

\* The goroutine is scheduled and the ticker ticks.  A select that finds stop
\* closed time and again takes that branch at last: Go chooses among the ready
\* branches at random.  A request that began its reload finishes it.
Fairness ==
    /\ WF_vars(tick)
    /\ WF_vars(check)
    /\ SF_vars(stopped)
    /\ WF_vars(apiReload \/ apiInstall)

Spec == Init /\ [][Next]_vars /\ Fairness

-----------------------------------------------------------------------------
(* Properties.                                                             *)

\* The variables have their types, and the *Flag the worker is about to change
\* is one of the map, of the flag whose row it handles, never nil: error events
\* may be recorded for keys of no flag, and flags are deleted while the worker
\* is between its query and GetFlag.
TypeOK ==
    /\ errors \in [Keys -> 0..MaxErrors]
    /\ signals \subseteq RateAnomalies \cup SpikeAnomalies
    /\ row \in [Keys -> Enabledness]
    /\ served \in [Keys -> Enabledness]
    /\ open \in [Anomalies -> Nat]
    /\ pc \in Connected \cup Unconnected
    /\ rows \subseteq Anomalies
    /\ cur \in Anomalies \cup {NULL}
    /\ live \in BOOLEAN
    /\ live => cur \in FlagAnomalies /\ served[cur[2]] # "none"
    /\ snap \in [Keys -> Enabledness]
    /\ touched \in BOOLEAN
    /\ api \in {"idle", "reload", "install"}
    /\ apiSnap \in [Keys -> Enabledness]
    /\ writes \in 0..MaxWrites
    /\ stop \in BOOLEAN
    /\ faults \in 0..MaxFaults
    /\ lookupFaults \in 0..faults

\* "if no unresolved event of the same type and ref_id was recorded in the last
\* 30 minutes": at most one is open, plus one for each failed lookup.
NoDuplicateAnomaly == \A a \in Anomalies : open[a] <= 1 + lookupFaults

\* A flag.disabled event goes out only when the flag is disabled in the table,
\* unless a request wrote the flag after the worker did.
PublishedMeansDisabled == pc = "publish" /\ ~touched => row[cur[2]] # "on"

\* "Any flag that accumulates more than 10 `error` events within a 5-minute
\* window is automatically disabled": evaluation stops serving it as enabled,
\* unless the errors go away or the server stops first.
AutoDisable ==
    \A k \in Keys :
       errors[k] > ErrorThreshold /\ served[k] = "on"
          ~> errors[k] <= ErrorThreshold \/ served[k] # "on" \/ stop

\* Stop "waits for it to finish": the worker does finish (or the process dies).
StopReturns == stop ~> pc = "done" \/ ~stop
=============================================================================
