------------------------ MODULE AnomalyWorker_proofs ------------------------
(***************************************************************************)
(* Proofs about AnomalyWorker: types, deduplication, the order of disable  *)
(* and event, and what the pool of one connection does to the worker.      *)
(***************************************************************************)
EXTENDS AnomalyWorker, TLAPS

\* The three kinds of anomaly are told apart by their first component.
LEMMA Kinds ==
    /\ FlagAnomalies \cap RateAnomalies = {}
    /\ FlagAnomalies \cap SpikeAnomalies = {}
    /\ RateAnomalies \cap SpikeAnomalies = {}
    /\ \A a \in FlagAnomalies : a[2] \in Keys
  BY DEF FlagAnomalies, RateAnomalies, SpikeAnomalies

\* Where recordAnomaly returns to, by the kind of the current row.
LEMMA Callers ==
    /\ cur \in FlagAnomalies => Caller = "getFlag"
    /\ cur \in RateAnomalies => Caller = "fnRow"
    /\ cur \in SpikeAnomalies => Caller = "latRow"
  BY Kinds DEF Caller

\* The lines of the flag loop after recordAnomaly, the locations in a loop body.
Disabling == {"getFlag", "mutate", "update", "reload", "install", "publish"}
Handling == {"lookup", "insert"} \cup Disabling

\* The row being handled, and those to come, are of the loop that reads them.
RowsOfTheLoop ==
    /\ pc = "flagRow" => rows \subseteq FlagAnomalies
    /\ pc = "fnRow" => rows \subseteq RateAnomalies
    /\ pc = "latRow" => rows \subseteq SpikeAnomalies
    /\ pc \in Handling => \/ cur \in FlagAnomalies /\ rows \subseteq FlagAnomalies
                          \/ cur \in RateAnomalies /\ rows \subseteq RateAnomalies
                          \/ cur \in SpikeAnomalies /\ rows \subseteq SpikeAnomalies
    /\ pc \in Disabling => cur \in FlagAnomalies

TypeInv == TypeOK /\ RowsOfTheLoop

USE DEF TypeInv, TypeOK, RowsOfTheLoop, Handling, Disabling, Connected, Unconnected,
        Worker, Goto, NoFault, Fault, world, flagVars, apiVars, Anomalies

\* Types hold initially.
LEMMA TypeInvInit == Init => TypeInv
<1> SUFFICES ASSUME Init PROVE TypeInv
  OBVIOUS
<1>1. /\ errors \in [Keys -> 0..MaxErrors]
      /\ 0 \in 0..MaxWrites /\ 0 \in 0..MaxFaults /\ 0 \in 0..0
      /\ open \in [Anomalies -> Nat]
  BY WorkerAssumption DEF Init
<1>2. NoMap \in [Keys -> Enabledness]
  BY DEF NoMap, Enabledness
<1> QED BY <1>1, <1>2 DEF Init

\* Every step of the worker preserves the types.
LEMMA TypeInvCheck == TypeInv /\ check => TypeInv'
<1> SUFFICES ASSUME TypeInv, check PROVE TypeInv'
  OBVIOUS
<1> USE WorkerAssumption, Kinds, Callers
<1>1. CASE checkFlagAnomalies
  <2>1. Noisy \subseteq FlagAnomalies
    BY DEF Noisy
  <2> QED BY <1>1, <2>1 DEF checkFlagAnomalies, Query
<1>2. CASE checkErrorRates
  BY <1>2 DEF checkErrorRates, Query
<1>3. CASE checkLatencies
  BY <1>3 DEF checkLatencies, Query
<1>4. CASE flagRow
  BY <1>4 DEF flagRow, NextRow
<1>5. CASE fnRow
  BY <1>5 DEF fnRow, NextRow
<1>6. CASE latRow
  BY <1>6 DEF latRow, NextRow
<1>7. CASE lookup
  <2>1. Caller \in {"getFlag", "fnRow", "latRow"}
    BY <1>7 DEF lookup
  <2>2. lookupFaults' \in 0..faults'
    BY <1>7 DEF lookup
  <2>3. pc' \in {Caller, "insert"}
    BY <1>7 DEF lookup
  <2>4. UNCHANGED <<rows, cur>>
    BY <1>7 DEF lookup
  <2>5. RowsOfTheLoop'
    BY <1>7, <2>1, <2>3, <2>4 DEF lookup
  <2> QED BY <1>7, <2>1, <2>2, <2>3, <2>5 DEF lookup
<1>8. CASE insert
  <2>1. open' \in [Anomalies -> Nat]
    BY <1>8 DEF insert
  <2> QED BY <1>8, <2>1 DEF insert
<1>9. CASE getFlag
  BY <1>9 DEF getFlag
<1>10. CASE mutate
  BY <1>10 DEF mutate, Enabledness
<1>11. CASE update
  <2>1. row' \in [Keys -> Enabledness]
    BY <1>11 DEF update, Enabledness
  <2>2. RowsOfTheLoop'
    <3>1. cur \in FlagAnomalies /\ rows \subseteq FlagAnomalies
      BY <1>11 DEF update
    <3>2. pc' \in {"reload", "flagRow"} /\ UNCHANGED <<rows, cur>>
      BY <1>11 DEF update
    <3> QED BY <3>1, <3>2
  <2>3. faults' \in 0..MaxFaults /\ lookupFaults' \in 0..faults'
    <3>1. /\ faults' = faults \/ (faults < MaxFaults /\ faults' = faults + 1)
          /\ UNCHANGED lookupFaults
      BY <1>11, Zenon DEF update
    <3> QED BY <3>1
  <2> QED BY <1>11, <2>1, <2>2, <2>3 DEF update
<1>12. CASE reload
  BY <1>12 DEF reload
<1>13. CASE install
  BY <1>13 DEF install, NoMap, Enabledness
<1>14. CASE publish
  BY <1>14 DEF publish
<1> QED BY <1>1, <1>2, <1>3, <1>4, <1>5, <1>6, <1>7, <1>8, <1>9, <1>10, <1>11,
           <1>12, <1>13, <1>14 DEF check

\* So does every step of the rest of the server.
LEMMA TypeInvRequest == TypeInv /\ Request => TypeInv'
<1> SUFFICES ASSUME TypeInv, Request PROVE TypeInv'
  OBVIOUS
<1> USE WorkerAssumption DEF Outside
<1>1. ASSUME NEW k \in Keys, RecordMetric(k) \/ ErrorExpires(k) PROVE TypeInv'
  <2>1. errors' \in [Keys -> 0..MaxErrors]
    BY <1>1 DEF RecordMetric, ErrorExpires
  <2> QED BY <1>1, <2>1 DEF RecordMetric, ErrorExpires
<1>2. CASE Invocations
  BY <1>2 DEF Invocations
<1>3. ASSUME NEW a \in Anomalies, ResolveAnomaly(a) \/ AnomalyAges(a) PROVE TypeInv'
  <2>1. open' \in [Anomalies -> Nat]
    BY <1>3 DEF ResolveAnomaly, AnomalyAges
  <2> QED BY <1>3, <2>1 DEF ResolveAnomaly, AnomalyAges
<1>4. ASSUME NEW k \in Keys, NEW e \in Enabledness, WriteFlag(k, e) PROVE TypeInv'
  BY <1>4 DEF WriteFlag
<1>5. CASE apiReload
  BY <1>5 DEF apiReload
<1>6. CASE apiInstall
  BY <1>6 DEF apiInstall, NoMap, Enabledness
<1> QED BY <1>1, <1>2, <1>3, <1>4, <1>5, <1>6 DEF Request

\* And so does every step.
LEMMA TypeInvNext == TypeInv /\ [Next]_vars => TypeInv'
<1> SUFFICES ASSUME TypeInv, [Next]_vars PROVE TypeInv'
  OBVIOUS
<1>1. CASE tick \/ stopped
  BY <1>1 DEF tick, stopped
<1>2. CASE check
  BY <1>2, TypeInvCheck
<1>3. CASE Request
  BY <1>3, TypeInvRequest
<1>4. CASE Stop
  BY <1>4 DEF Stop, Outside
<1>5. CASE Restart
  <2>1. NoMap \in [Keys -> Enabledness]
    BY DEF NoMap, Enabledness
  <2>2. faults' \in 0..MaxFaults /\ lookupFaults' \in 0..faults'
    BY <1>5, WorkerAssumption DEF Restart
  <2> QED BY <1>5, <2>1, <2>2 DEF Restart
<1>6. CASE UNCHANGED vars
  BY <1>6 DEF vars
<1> QED BY <1>1, <1>2, <1>3, <1>4, <1>5, <1>6 DEF Next

\* The worker's state, and what it shares with the API, always have their types.
THEOREM TypeCorrect == Spec => []TypeOK
<1>1. TypeInv => TypeOK
  OBVIOUS
<1> QED BY <1>1, TypeInvInit, TypeInvNext, PTL DEF Spec

-----------------------------------------------------------------------------
(* Deduplication: the INSERT runs only after a count of zero or a failed   *)
(* lookup, and only the worker inserts.                                    *)

Dedup ==
    /\ NoDuplicateAnomaly
    /\ pc = "insert" => open[cur] <= lookupFaults

\* Every step preserves it: the count can only have dropped since the lookup.
LEMMA DedupNext == TypeInv /\ Dedup /\ [Next]_vars => Dedup'
<1> SUFFICES ASSUME TypeInv, Dedup, [Next]_vars PROVE Dedup'
  OBVIOUS
<1> USE DEF Dedup, NoDuplicateAnomaly
<1>1. CASE lookup
  <2>1. UNCHANGED <<open, cur>> /\ cur \in Anomalies
    BY <1>1 DEF lookup
  <2>2. \/ pc' = Caller /\ lookupFaults' = lookupFaults
        \/ pc' = "insert" /\ lookupFaults' = lookupFaults /\ ~(open[cur] > 0)
        \/ pc' = "insert" /\ lookupFaults' = lookupFaults + 1
    BY <1>1 DEF lookup
  <2>3. Caller # "insert"
    BY <1>1, Callers DEF lookup
  <2> QED BY <2>1, <2>2, <2>3
<1>2. CASE insert
  <2>1. Caller # "insert" /\ pc' = Caller
    BY <1>2, Callers DEF insert
  <2>2. /\ open' = [open EXCEPT ![cur] = @ + 1] \/ open' = open
        /\ open[cur] <= lookupFaults /\ cur \in Anomalies
        /\ lookupFaults' = lookupFaults
    BY <1>2 DEF insert
  <2> QED BY <2>1, <2>2
<1>3. ASSUME NEW a \in Anomalies, ResolveAnomaly(a) \/ AnomalyAges(a) PROVE Dedup'
  <2>1. /\ open' = [open EXCEPT ![a] = @ - 1]
        /\ UNCHANGED <<pc, cur, lookupFaults>>
    BY <1>3 DEF ResolveAnomaly, AnomalyAges, Outside
  <2>2. pc = "insert" => cur \in Anomalies
    OBVIOUS
  <2> QED BY <2>1, <2>2
<1>4. ASSUME ~lookup, ~insert,
             ~\E a \in Anomalies : ResolveAnomaly(a) \/ AnomalyAges(a)
      PROVE  UNCHANGED <<open, lookupFaults>> /\ (pc' = "insert" => UNCHANGED <<pc, cur>>)
  BY <1>4 DEF Next, vars, tick, stopped, check, checkFlagAnomalies, checkErrorRates,
     checkLatencies, Query, flagRow, fnRow, latRow, NextRow, getFlag, mutate, update,
     reload, install, publish, Request, RecordMetric, ErrorExpires, Invocations,
     WriteFlag, apiReload, apiInstall, Stop, Restart, Outside
<1> QED BY <1>1, <1>2, <1>3, <1>4

\* At most one recent unresolved anomaly per type and ref_id, plus one for each
\* deduplication query that failed, whatever requests and restarts intervene.
THEOREM Deduplication == Spec => []NoDuplicateAnomaly
<1>1. Init => Dedup
  BY DEF Init, Dedup, NoDuplicateAnomaly
<1>2. Dedup => NoDuplicateAnomaly
  BY DEF Dedup
<1> QED BY <1>1, <1>2, TypeInvInit, TypeInvNext, DedupNext, PTL DEF Spec

-----------------------------------------------------------------------------
(* The event: from the UPDATE on, the row is disabled unless the API wrote  *)
(* it, and publish is reached by way of the UPDATE alone.                  *)

Disabled ==
    pc \in {"reload", "install", "publish"} /\ ~touched => row[cur[2]] # "on"

\* Every step preserves it.
LEMMA DisabledNext == TypeInv /\ Disabled /\ [Next]_vars => Disabled'
<1> SUFFICES ASSUME TypeInv, Disabled, [Next]_vars PROVE Disabled'
  OBVIOUS
<1> USE DEF Disabled
<1>1. CASE update
  <2>1. cur[2] \in Keys
    BY <1>1, Kinds DEF update
  <2>2. \/ row' = [row EXCEPT ![cur[2]] = IF @ = "none" THEN "none" ELSE "off"]
        \/ pc' = "flagRow"
    BY <1>1 DEF update
  <2>3. cur' = cur
    BY <1>1 DEF update
  <2> QED BY <2>1, <2>2, <2>3
<1>2. ASSUME NEW k \in Keys, NEW e \in Enabledness, WriteFlag(k, e) PROVE Disabled'
  <2>1. /\ row' = [row EXCEPT ![k] = e] /\ UNCHANGED <<pc, cur>>
        /\ touched' = (touched \/ cur \in {a \in FlagAnomalies : a[2] = k})
    BY <1>2 DEF WriteFlag, Outside
  <2>2. CASE k = cur[2] /\ pc \in {"reload", "install", "publish"}
    <3>1. cur \in {a \in FlagAnomalies : a[2] = k}
      BY <2>2
    <3> QED BY <2>1, <3>1
  <2>3. CASE k # cur[2]
    BY <2>1, <2>3
  <2> QED BY <2>1, <2>2, <2>3
<1>3. CASE lookup \/ insert
  BY <1>3, Callers DEF lookup, insert
<1>4. ASSUME ~update, ~\E k \in Keys, e \in Enabledness : WriteFlag(k, e),
             ~(lookup \/ insert)
      PROVE  Disabled'
  BY <1>4 DEF Next, vars, tick, stopped, check, checkFlagAnomalies, checkErrorRates,
     checkLatencies, Query, flagRow, fnRow, latRow, NextRow, getFlag, mutate,
     reload, install, publish, Request, RecordMetric, ErrorExpires, Invocations,
     ResolveAnomaly, AnomalyAges, apiReload, apiInstall, Stop, Restart, Outside
<1> QED BY <1>1, <1>2, <1>3, <1>4

\* A flag.disabled event goes out only for a flag that is not enabled in the
\* table, unless a request wrote the flag after the worker's UPDATE.
THEOREM EventAfterDisable == Spec => []PublishedMeansDisabled
<1>1. Init => Disabled
  BY DEF Init, Disabled
<1>2. Disabled => PublishedMeansDisabled
  BY DEF Disabled, PublishedMeansDisabled
<1> QED BY <1>1, <1>2, TypeInvInit, TypeInvNext, DisabledNext, PTL DEF Spec

-----------------------------------------------------------------------------
(* The pool of one connection.                                             *)

\* The worker is in select, between the checks, or stuck in its first lookup.
NothingRecorded ==
    /\ pc \in Unconnected \cup {"flagRow", "fnRow", "latRow", "lookup"}
    /\ \A a \in Anomalies : open[a] = 0

\* Every step preserves it if the worker's result set takes the only connection.
LEMMA StuckNext ==
    ASSUME MaxOpenConns = 1, TypeInv, NothingRecorded, [Next]_vars
    PROVE  NothingRecorded'
<1> USE DEF NothingRecorded
<1>1. ~lookup
  BY DEF lookup, CanQuery, InUse
<1>2. ~insert /\ ~getFlag /\ ~mutate /\ ~update /\ ~reload /\ ~install /\ ~publish
  BY DEF insert, getFlag, mutate, update, reload, install, publish
<1>3. ASSUME NEW a \in Anomalies PROVE ~ResolveAnomaly(a) /\ ~AnomalyAges(a)
  BY DEF ResolveAnomaly, AnomalyAges
<1> QED
  BY <1>1, <1>2, <1>3 DEF Next, vars, tick, stopped, check, checkFlagAnomalies,
     checkErrorRates, checkLatencies, Query, flagRow, fnRow, latRow, NextRow, Request,
     RecordMetric, ErrorExpires, Invocations, WriteFlag, apiReload, apiInstall, Stop,
     Restart, Outside

\* With the pool database.Connect configures, the worker never records an
\* anomaly and never disables a flag: it gets no further than the lookup.
THEOREM OneConnectionBlocks ==
    ASSUME MaxOpenConns = 1
    PROVE  Spec => []NothingRecorded
<1>1. Init => NothingRecorded
  BY DEF Init, NothingRecorded
<1>2. TypeInv /\ NothingRecorded /\ [Next]_vars => NothingRecorded'
  BY StuckNext
<1> QED BY <1>1, <1>2, TypeInvInit, TypeInvNext, PTL DEF Spec
=============================================================================
