------------------------------- MODULE Packages -------------------------------
(***************************************************************************)
(* The package registry: one row of `packages` per npm package asked for,  *)
(* and in the bucket "packages" its bundle (id.js) and, when they could be *)
(* fetched, its type declarations (id.d.ts).  Approve answers at once and  *)
(* leaves the bundling to a goroutine, which is no request: it survives    *)
(* the package, and nothing keeps two of them apart.                       *)
(*                                                                         *)
(* A bundle's text is abstracted to whether all of it is in the file, which*)
(* PutObject first truncates and then writes.  The fetches may answer or   *)
(* fail; each is cut by the 30 seconds of httpGet.                         *)
(***************************************************************************)
EXTENDS Naturals, FiniteSets

CONSTANTS
    Ids,                   \* what newID may return, each value once
    Names,                 \* name@version pairs
    Procs,                 \* concurrent requests
    Jobs,                  \* goroutines of Approve
    MaxCalls,              \* bound on the requests after the Requests
    MaxFaults              \* bound on failing steps and restarts

VARIABLES
    packages,   \* table packages: id |-> name@version and status
    bundles,    \* id |-> what the file id.js holds
    types,      \* ids with a file id.d.ts
    req,        \* the request each process serves
    jobs,       \* the goroutines of Approve: the step each takes next
    calls,      \* requests begun
    faults,     \* faults so far
    given,      \* history: ids given out
    muddled,    \* history: ids with overlapping jobs, or a cut-off Delete
    lost        \* history: ids whose job's last word was lost

vars == <<packages, bundles, types, req, jobs, calls, faults,
          given, muddled, lost>>
history == <<given, muddled, lost>>

Statuses == {"pending", "bundling", "available", "error"}
Idle == [at |-> "idle"]
Request == {Idle} \cup [at : {"get", "approve", "bundle", "dts", "row"}, id : Ids]
Job == {Idle} \cup [at : {"fetch", "open", "write", "unlinked", "fail", "record",
                          "types"}, id : Ids]

Init ==
    /\ packages = [i \in {} |-> Idle]
    /\ bundles = [i \in Ids |-> "absent"]
    /\ types = {}
    /\ req = [p \in Procs |-> Idle]
    /\ jobs = [j \in Jobs |-> Idle]
    /\ calls = 0 /\ faults = 0
    /\ given = {} /\ muddled = {} /\ lost = {}

At(p, step) == req[p].at = step
Go(p, r) == req' = [req EXCEPT ![p] = r]
Doing(j, step) == jobs[j].at = step
Goes(j, step) == jobs' = [jobs EXCEPT ![j].at = step]
Finished(j) == jobs' = [jobs EXCEPT ![j] = Idle]

\* Mutant of SetStatus: INSERT OR REPLACE instead of UPDATE.
SetStatus_Upsert(i, s) ==
    packages' = [k \in DOMAIN packages \cup {i} |->
                   IF k = i THEN [status |-> s] ELSE packages[k]]

\* UPDATE packages SET status = s WHERE id = i: no row, no change.
SetStatus(i, s) ==
    packages' = [k \in DOMAIN packages |->
                   IF k = i THEN [packages[k] EXCEPT !.status = s]
                            ELSE packages[k]]

-----------------------------------------------------------------------------
(* Requests.                                                               *)

\* One INSERT, refused when the pair is in the registry already.
RequestPackage(i, n) ==
    /\ i \notin given
    /\ \A k \in DOMAIN packages : packages[k].name # n
    /\ given' = given \cup {i}
    /\ packages' = [k \in DOMAIN packages \cup {i} |->
                      IF k = i THEN [name |-> n, status |-> "pending"]
                               ELSE packages[k]]
    /\ UNCHANGED <<bundles, types, req, jobs, calls, faults, muddled, lost>>

Begin(p, step) ==
    /\ At(p, "idle")
    /\ calls < MaxCalls
    /\ calls' = calls + 1
    /\ \E i \in given : Go(p, [at |-> step, id |-> i])
    /\ UNCHANGED <<packages, bundles, types, jobs, faults, history>>

\* Approve reads the package whatever its status, and refuses a missing one.
get(p) ==
    /\ At(p, "get")
    /\ Go(p, IF req[p].id \in DOMAIN packages
             THEN [req[p] EXCEPT !.at = "approve"] ELSE Idle)
    /\ UNCHANGED <<packages, bundles, types, jobs, calls, faults, history>>

\* A job of the package that has not said its last word about the status.
Bundling(i) == {j \in Jobs : ~Doing(j, "idle") /\ jobs[j].id = i
                                              /\ ~Doing(j, "types")}

\* The status goes to bundling and the goroutine starts, even when a Delete
\* has taken the row since.
approve(p) ==
    /\ At(p, "approve")
    /\ LET i == req[p].id
       IN /\ SetStatus(i, "bundling")
          /\ \E j \in Jobs : /\ Doing(j, "idle")
                             /\ jobs' = [jobs EXCEPT ![j] =
                                           [at |-> "fetch", id |-> i]]
          /\ muddled' = IF Bundling(i) # {} THEN muddled \cup {i} ELSE muddled
    /\ Go(p, Idle)
    /\ UNCHANGED <<bundles, types, calls, faults, given, lost>>

\* Delete: the bundle, the declarations, the row.  A job that has the bundle
\* open goes on writing the file that was unlinked.
deleteBundle(p) ==
    /\ At(p, "bundle")
    /\ bundles' = [bundles EXCEPT ![req[p].id] = "absent"]
    /\ jobs' = [j \in Jobs |-> IF Doing(j, "write") /\ jobs[j].id = req[p].id
                               THEN [jobs[j] EXCEPT !.at = "unlinked"]
                               ELSE jobs[j]]
    /\ Go(p, [req[p] EXCEPT !.at = "dts"])
    /\ UNCHANGED <<packages, types, calls, faults, history>>

deleteTypes(p) ==
    /\ At(p, "dts")
    /\ types' = types \ {req[p].id}
    /\ Go(p, [req[p] EXCEPT !.at = "row"])
    /\ UNCHANGED <<packages, bundles, jobs, calls, faults, history>>

deleteRow(p) ==
    /\ At(p, "row")
    /\ packages' = [k \in DOMAIN packages \ {req[p].id} |-> packages[k]]
    /\ Go(p, Idle)
    /\ UNCHANGED <<bundles, types, jobs, calls, faults, history>>

-----------------------------------------------------------------------------
(* The goroutine.                                                          *)

fetchBundle(j) ==
    /\ Doing(j, "fetch")
    /\ \/ Goes(j, "open")
       \/ Goes(j, "fail")
    /\ UNCHANGED <<packages, bundles, types, req, calls, faults, history>>

\* Mutant of openBundle: the result is recorded while the bundle is written.
openBundle_Unwritten(j) ==
    /\ Doing(j, "open")
    /\ bundles' = [bundles EXCEPT ![jobs[j].id] = "part"]
    /\ Goes(j, "record")
    /\ UNCHANGED <<packages, types, req, calls, faults, history>>

openBundle(j) ==
    /\ Doing(j, "open")
    /\ bundles' = [bundles EXCEPT ![jobs[j].id] = "part"]
    /\ Goes(j, "write")
    /\ UNCHANGED <<packages, types, req, calls, faults, history>>

writeBundle(j) ==
    /\ \/ /\ Doing(j, "write")
          /\ bundles' = [bundles EXCEPT ![jobs[j].id] = "whole"]
       \/ /\ Doing(j, "unlinked")
          /\ UNCHANGED bundles
    /\ Goes(j, "record")
    /\ UNCHANGED <<packages, types, req, calls, faults, history>>

\* Mutant of recordError: a failed fetch ends the goroutine and says nothing.
recordError_Silent(j) ==
    /\ Doing(j, "fail")
    /\ Finished(j)
    /\ UNCHANGED <<packages, bundles, types, req, calls, faults, history>>

recordError(j) ==
    /\ Doing(j, "fail")
    /\ SetStatus(jobs[j].id, "error")
    /\ Finished(j)
    /\ UNCHANGED <<bundles, types, req, calls, faults, history>>

recordAvailable(j) ==
    /\ Doing(j, "record")
    /\ SetStatus(jobs[j].id, "available")
    /\ Goes(j, "types")
    /\ UNCHANGED <<bundles, types, req, calls, faults, history>>

\* Best effort: found and stored, or not.
storeTypes(j) ==
    /\ Doing(j, "types")
    /\ types' \in {types, types \cup {jobs[j].id}}
    /\ Finished(j)
    /\ UNCHANGED <<packages, bundles, req, calls, faults, history>>

JobStep(j) ==
    \/ fetchBundle(j) \/ openBundle(j) \/ writeBundle(j)
    \/ recordError(j) \/ recordAvailable(j) \/ storeTypes(j)

-----------------------------------------------------------------------------
(* Faults.                                                                 *)

Fault == faults < MaxFaults /\ faults' = faults + 1

\* PutObject returns an error: the job records it.
putFails(j) ==
    /\ Fault
    /\ jobs[j].at \in {"open", "write", "unlinked"}
    /\ Goes(j, "fail")
    /\ UNCHANGED <<packages, bundles, types, req, calls, history>>

\* The job's UPDATE fails; its error is dropped.
updateFails(j) ==
    /\ Fault
    /\ \/ Doing(j, "fail") /\ Finished(j)
       \/ Doing(j, "record") /\ Goes(j, "types")
    /\ lost' = lost \cup {jobs[j].id}
    /\ UNCHANGED <<packages, bundles, types, req, calls, given, muddled>>

\* A statement of a request fails, which then returns the error.
Deleting == {p \in Procs : At(p, "dts") \/ At(p, "row")}
statementFails(p) ==
    /\ Fault
    /\ ~At(p, "idle")
    /\ muddled' = IF p \in Deleting THEN muddled \cup {req[p].id} ELSE muddled
    /\ Go(p, Idle)
    /\ UNCHANGED <<packages, bundles, types, jobs, calls, given, lost>>

\* The process stops: requests and goroutines end where they are.
Restart ==
    /\ Fault
    /\ muddled' = muddled \cup {req[p].id : p \in Deleting}
    /\ lost' = lost \cup {jobs[j].id : j \in {k \in Jobs : ~Doing(k, "idle")}}
    /\ req' = [p \in Procs |-> Idle]
    /\ jobs' = [j \in Jobs |-> Idle]
    /\ UNCHANGED <<packages, bundles, types, calls, given>>

Step(p) == \/ get(p) \/ approve(p)
           \/ deleteBundle(p) \/ deleteTypes(p) \/ deleteRow(p)

Next ==
    \/ \E i \in Ids, n \in Names : RequestPackage(i, n)
    \/ \E p \in Procs : \/ Begin(p, "get") \/ Begin(p, "bundle")
                        \/ Step(p) \/ statementFails(p)
    \/ \E j \in Jobs : JobStep(j) \/ putFails(j) \/ updateFails(j)
    \/ Restart

\* A goroutine is never starved by the runtime, and httpGet has a timeout.
Fairness == \A j \in Jobs : WF_vars(JobStep(j))

Spec == Init /\ [][Next]_vars /\ Fairness

-----------------------------------------------------------------------------
(* Properties.                                                             *)

PackagesTypeOK ==
    /\ \E D \in SUBSET given :
         packages \in [D -> [name : Names, status : Statuses]]
    /\ bundles \in [Ids -> {"absent", "part", "whole"}]
    /\ types \subseteq given
    /\ req \in [Procs -> Request]
    /\ jobs \in [Jobs -> Job]
    /\ calls \in Nat /\ faults \in Nat
    /\ given \subseteq Ids /\ muddled \subseteq given /\ lost \subseteq given

\* What a function can require: buildPackagePreamble lists the available
\* packages and skips those without a bundle.
Usable == {i \in DOMAIN packages : /\ packages[i].status = "available"
                                   /\ bundles[i] = "whole"}

\* A package the registry calls available can be required by functions,
\* unless a Delete of it is under way or was cut off, or it was approved
\* again before the bundling of the first approval had recorded its result.
AvailableIsUsable ==
    \A i \in DOMAIN packages :
      packages[i].status = "available" =>
        i \in Usable \cup muddled \cup {req[p].id : p \in Deleting}

\* A package does not stay in bundling: its job records a result, or a Delete
\* takes it, however approvals and deletes overlap, unless the process
\* stopped under the job or the database refused the job's last statement.
BundlingEnds ==
    \A i \in Ids :
      (i \in DOMAIN packages /\ packages[i].status = "bundling")
        ~> (i \in DOMAIN packages \ lost => packages[i].status # "bundling")
=============================================================================
