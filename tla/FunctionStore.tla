---------------------------- MODULE FunctionStore ----------------------------
(***************************************************************************)
(* internal/function.Store: the functions and function_versions rows, and  *)
(* the artifacts the local adapter of internal/storage keeps as files.     *)
(*                                                                         *)
(* A call is a series of statements and file operations with no lock and   *)
(* no transaction around them: each is one step, between two of them other *)
(* calls on the same function may run, each may fail, and the process may  *)
(* die.  Compiling only reads the call's own argument.  Running a function *)
(* is the business of module Invocations.                                  *)
(***************************************************************************)
EXTENDS Naturals, Sequences, FiniteSetsExt

CONSTANTS
    Fns,       \* ids newID may return
    Procs,     \* requests that may be in the store at once
    Sources,   \* JavaScript sources a request may carry
    Valid,     \* those that goja.Compile accepts
    Artifacts, \* WASM binaries a request may carry
    MaxCalls,  \* bound on the number of calls
    MaxFaults, \* bound on failed statements, failed file operations, crashes
    NULL       \* no row, no file, no call

\* What a file holds when it was just truncated, or written by two calls.
Broken == {"empty", "torn"}

Languages == {"javascript", "go"}
Runtimes == {"js", "wasm", ""}
Exts == {".js", ".wasm"}

\* Mutant of artifactExt: the extension of JavaScript for every runtime.
artifactExt_Js(rt) == ".js"

artifactExt(rt) == IF rt = "wasm" THEN ".wasm" ELSE ".js"

\* The source column is empty for WASM, or where a failed SELECT left it so.
SourceText == Sources \cup {""}

Content == Sources \cup Artifacts \cup Broken \cup {NULL}

Function == [language : Languages, source : SourceText,
             runtime : Runtimes, status : {"compiling", "ready", "error"}]

FunctionVersion == [version : Nat \ {0}, source : SourceText]

Operations == {"Create", "Upload", "DeployVersion", "Update", "Delete"}

ASSUME StoreAssumption ==
    /\ Valid \subseteq Sources
    /\ {MaxCalls, MaxFaults} \subseteq Nat
    /\ "" \notin Sources
    /\ NULL \notin Fns
    /\ (Sources \cup Artifacts) \cap (Broken \cup {NULL}) = {}
    /\ NULL \notin Function \cup Languages \cup Operations \cup Broken

VARIABLES
    rows,     \* rows[f]: the functions row of f, or NULL
    made,     \* made[f]: the language f was created in, or NULL
    versions, \* versions[f]: its function_versions rows, as inserted
    objects,  \* objects[f][x]: content of the file f with extension x, or NULL
    pc,       \* pc[p]: where call p stands
    op,       \* op[p]: its operation
    fn,       \* fn[p]: the function it is about
    arg,      \* arg[p]: the source or artifact it carries
    ext,      \* ext[p]: extension of the object it writes or deletes
    fd,       \* fd[p]: p's open file is still the one the name leads to
    max,      \* max[p]: the highest version number it read
    snap,     \* snap[p]: the source it read for the version
    calls,    \* calls begun
    faults,   \* faults so far
    raced,    \* history: functions on which two calls overlapped
    failed    \* history: functions a fault has hit

locals == <<op, fn, arg, ext, fd, max, snap>>
stored == <<rows, made, versions, objects>>
counts == <<calls, faults, raced, failed>>
vars == <<rows, made, versions, objects, pc, op, fn, arg, ext, fd, max, snap,
          calls, faults, raced, failed>>

Locations == {"idle", "updateSource", "openObject", "writeObject", "markReady",
              "markError", "readMax", "readSource", "insertVersion",
              "deleteObject", "deleteRow"}

Init ==
    /\ rows = [f \in Fns |-> NULL]
    /\ made = [f \in Fns |-> NULL]
    /\ versions = [f \in Fns |-> <<>>]
    /\ objects = [f \in Fns |-> [x \in Exts |-> NULL]]
    /\ pc = [p \in Procs |-> "idle"]
    /\ op = [p \in Procs |-> NULL]
    /\ fn = [p \in Procs |-> NULL]
    /\ arg = [p \in Procs |-> NULL]
    /\ ext = [p \in Procs |-> ".js"]
    /\ fd = [p \in Procs |-> FALSE]
    /\ max = [p \in Procs |-> 0]
    /\ snap = [p \in Procs |-> ""]
    /\ calls = 0
    /\ faults = 0
    /\ raced = {}
    /\ failed = {}

-----------------------------------------------------------------------------
Goto(p, l) == pc' = [pc EXCEPT ![p] = l]

Busy(f) == \E p \in Procs : pc[p] # "idle" /\ fn[p] = f

\* Call p begins operation o on f with a, and stands at l; x is its object's.
Begin(p, o, f, a, x, l) ==
    /\ pc[p] = "idle"
    /\ calls < MaxCalls
    /\ calls' = calls + 1
    /\ raced' = IF Busy(f) THEN raced \cup {f} ELSE raced
    /\ op' = [op EXCEPT ![p] = o]
    /\ fn' = [fn EXCEPT ![p] = f]
    /\ arg' = [arg EXCEPT ![p] = a]
    /\ ext' = [ext EXCEPT ![p] = x]
    /\ Goto(p, l)
    /\ UNCHANGED <<fd, max, snap, faults, failed>>

\* Call p returns, with or without an error; its local variables are gone.
Return(p) ==
    /\ Goto(p, "idle")
    /\ op' = [op EXCEPT ![p] = NULL]
    /\ fn' = [fn EXCEPT ![p] = NULL]
    /\ arg' = [arg EXCEPT ![p] = NULL]
    /\ ext' = [ext EXCEPT ![p] = ".js"]
    /\ fd' = [fd EXCEPT ![p] = FALSE]
    /\ max' = [max EXCEPT ![p] = 0]
    /\ snap' = [snap EXCEPT ![p] = ""]

\* An UPDATE of f's row finds it or changes nothing; nobody looks which.
UpdateRow(f, r) ==
    /\ rows' = IF rows[f] = NULL THEN rows ELSE [rows EXCEPT ![f] = r]
    /\ UNCHANGED <<made, versions, objects>>

\* Where a call on JavaScript source a goes once the source is stored.
AfterCompile(a) == IF a \in Valid THEN "openObject" ELSE "markError"

-----------------------------------------------------------------------------
(* The first steps of the operations.                                      *)

\* The id is new; the row is inserted as compiling, then compiled.
Create(p, f, s) ==
    /\ made[f] = NULL
    /\ Begin(p, "Create", f, s, ".js", AfterCompile(s))
    /\ rows' = [rows EXCEPT ![f] = [language |-> "javascript", source |-> s,
                                    runtime |-> "", status |-> "compiling"]]
    /\ made' = [made EXCEPT ![f] = "javascript"]
    /\ UNCHANGED <<versions, objects>>

\* Mutant of Upload: the artifact is not stored.
Upload_NoObject(p, f, a) ==
    /\ made[f] = NULL
    /\ Begin(p, "Upload", f, a, ".wasm", "markReady")
    /\ rows' = [rows EXCEPT ![f] = [language |-> "go", source |-> "",
                                    runtime |-> "wasm", status |-> "ready"]]
    /\ made' = [made EXCEPT ![f] = "go"]
    /\ UNCHANGED <<versions, objects>>

\* The row is inserted as ready before its artifact is there.
Upload(p, f, a) ==
    /\ made[f] = NULL
    /\ Begin(p, "Upload", f, a, ".wasm", "openObject")
    /\ rows' = [rows EXCEPT ![f] = [language |-> "go", source |-> "",
                                    runtime |-> "wasm", status |-> "ready"]]
    /\ made' = [made EXCEPT ![f] = "go"]
    /\ UNCHANGED <<versions, objects>>

\* Get finds the function; nobody asks for its language.
DeployVersion(p, f, a) ==
    /\ rows[f] # NULL
    /\ Begin(p, "DeployVersion", f, a, ".wasm", "openObject")
    /\ UNCHANGED stored

Update(p, f, s) ==
    /\ rows[f] # NULL
    /\ rows[f].language = "javascript"
    /\ Begin(p, "Update", f, s, ".js", "updateSource")
    /\ UNCHANGED stored

\* The runtime that Get read decides which object is deleted.
Delete(p, f) ==
    /\ rows[f] # NULL
    /\ Begin(p, "Delete", f, NULL, artifactExt(rows[f].runtime), "deleteObject")
    /\ UNCHANGED stored

-----------------------------------------------------------------------------
(* The steps after it.                                                     *)

\* Mutant of updateSource: a compile error returns before the status is set.
updateSource_NoMark(p) ==
    /\ pc[p] = "updateSource"
    /\ UpdateRow(fn[p], [rows[fn[p]] EXCEPT !.source = arg[p], !.status = "compiling"])
    /\ IF arg[p] \in Valid THEN Goto(p, "openObject") /\ UNCHANGED locals
       ELSE Return(p)
    /\ UNCHANGED counts

\* Update stores the source it is about to compile.
updateSource(p) ==
    /\ pc[p] = "updateSource"
    /\ UpdateRow(fn[p], [rows[fn[p]] EXCEPT !.source = arg[p], !.status = "compiling"])
    /\ Goto(p, AfterCompile(arg[p]))
    /\ UNCHANGED <<locals, counts>>

\* PutObject truncates or creates the file ...
openObject(p) ==
    /\ pc[p] = "openObject"
    /\ objects' = [objects EXCEPT ![fn[p]][ext[p]] = "empty"]
    /\ fd' = [fd EXCEPT ![p] = TRUE]
    /\ Goto(p, "writeObject")
    /\ UNCHANGED <<rows, made, versions, op, fn, arg, ext, max, snap, counts>>

\* ... then writes it.  Over what another call wrote since, a shorter content
\* leaves the other's tail; through an unlinked name it is lost.
writeObject(p) ==
    /\ pc[p] = "writeObject"
    /\ LET old == objects[fn[p]][ext[p]] IN
       IF fd[p]
       THEN \E c \in {arg[p]} \cup (IF old \in {"empty", arg[p]} THEN {} ELSE {"torn"}) :
               objects' = [objects EXCEPT ![fn[p]][ext[p]] = c]
       ELSE UNCHANGED objects
    /\ Goto(p, "markReady")
    /\ UNCHANGED <<rows, made, versions, locals, counts>>

\* Only Create records no version.
AfterReady(p) ==
    IF op[p] = "Create" THEN Return(p) ELSE Goto(p, "readMax") /\ UNCHANGED locals

\* updateStatus; DeployVersion's own UPDATE leaves the runtime as it is.
markReady(p) ==
    /\ pc[p] = "markReady"
    /\ UpdateRow(fn[p], [rows[fn[p]] EXCEPT
          !.status = "ready",
          !.runtime = CASE op[p] = "DeployVersion" -> @
                        [] op[p] = "Upload"        -> "wasm"
                        [] OTHER                   -> "js"])
    /\ AfterReady(p)
    /\ UNCHANGED counts

\* updateStatus of a call that cannot compile or store: no runtime any more.
markError(p) ==
    /\ pc[p] = "markError"
    /\ UpdateRow(fn[p], [rows[fn[p]] EXCEPT !.status = "error", !.runtime = ""])
    /\ Return(p)
    /\ UNCHANGED counts

Numbers(f) == {versions[f][i].version : i \in DOMAIN versions[f]}

\* Mutant of readMax: the number of versions instead of the highest number.
readMax_Count(p) ==
    /\ pc[p] = "readMax"
    /\ max' = [max EXCEPT ![p] = Len(versions[fn[p]])]
    /\ Goto(p, "readSource")
    /\ UNCHANGED <<stored, op, fn, arg, ext, fd, snap, counts>>

\* createVersion: three statements.
readMax(p) ==
    /\ pc[p] = "readMax"
    /\ max' = [max EXCEPT ![p] = IF Numbers(fn[p]) = {} THEN 0 ELSE Max(Numbers(fn[p]))]
    /\ Goto(p, "readSource")
    /\ UNCHANGED <<stored, op, fn, arg, ext, fd, snap, counts>>

readSource(p) ==
    /\ pc[p] = "readSource"
    /\ snap' = [snap EXCEPT ![p] = IF rows[fn[p]] = NULL THEN "" ELSE rows[fn[p]].source]
    /\ Goto(p, "insertVersion")
    /\ UNCHANGED <<stored, op, fn, arg, ext, fd, max, counts>>

\* A version of a function deleted meanwhile violates the foreign key.
insertVersion(p) ==
    /\ pc[p] = "insertVersion"
    /\ versions' = IF rows[fn[p]] = NULL THEN versions
                   ELSE [versions EXCEPT ![fn[p]] =
                           Append(@, [version |-> max[p] + 1, source |-> snap[p]])]
    /\ Return(p)
    /\ UNCHANGED <<rows, made, objects, counts>>

\* Whoever has the file open goes on with a file that has no name.
deleteObject(p) ==
    /\ pc[p] = "deleteObject"
    /\ objects' = [objects EXCEPT ![fn[p]][ext[p]] = NULL]
    /\ fd' = [q \in Procs |-> fd[q] /\ <<fn[q], ext[q]>> # <<fn[p], ext[p]>>]
    /\ Goto(p, "deleteRow")
    /\ UNCHANGED <<rows, made, versions, op, fn, arg, ext, max, snap, counts>>

\* Mutant of deleteRow: the versions stay.
deleteRow_NoCascade(p) ==
    /\ pc[p] = "deleteRow"
    /\ rows' = [rows EXCEPT ![fn[p]] = NULL]
    /\ Return(p)
    /\ UNCHANGED <<made, objects, versions, counts>>

\* ON DELETE CASCADE takes the versions along.
deleteRow(p) ==
    /\ pc[p] = "deleteRow"
    /\ rows' = [rows EXCEPT ![fn[p]] = NULL]
    /\ versions' = [versions EXCEPT ![fn[p]] = <<>>]
    /\ Return(p)
    /\ UNCHANGED <<made, objects, counts>>

-----------------------------------------------------------------------------
(* Faults.                                                                 *)

Fault(F) ==
    /\ faults < MaxFaults
    /\ faults' = faults + 1
    /\ failed' = failed \cup F
    /\ UNCHANGED <<calls, raced>>

\* PutObject fails, before or while it writes: DeployVersion returns the
\* error, the others record it.
putFails(p) ==
    /\ \/ /\ pc[p] = "openObject"
          /\ UNCHANGED objects
       \/ /\ pc[p] = "writeObject"
          /\ objects' = IF fd[p] THEN [objects EXCEPT ![fn[p]][ext[p]] = "torn"] ELSE objects
    /\ IF op[p] = "DeployVersion" THEN Return(p)
       ELSE Goto(p, "markError") /\ UNCHANGED locals
    /\ Fault({fn[p]})
    /\ UNCHANGED <<rows, made, versions>>

\* A statement fails, a deletion of a file too: some calls return the error,
\* most drop it and go on with the zero value.
statementFails(p) ==
    /\ \/ /\ pc[p] \in {"updateSource", "markError", "insertVersion", "deleteRow"}
          /\ Return(p)
       \/ /\ pc[p] = "markReady"
          /\ AfterReady(p)
       \/ /\ pc[p] = "readMax"
          /\ Goto(p, "readSource")
          /\ UNCHANGED locals
       \/ /\ pc[p] = "readSource"
          /\ Goto(p, "insertVersion")
          /\ UNCHANGED locals
       \/ /\ pc[p] = "deleteObject"
          /\ Goto(p, "deleteRow")
          /\ UNCHANGED locals
    /\ Fault({fn[p]})
    /\ UNCHANGED stored

\* The process dies: rows and files stay as they are, nothing resumes.
Crash ==
    /\ \E p \in Procs : pc[p] # "idle"
    /\ pc' = [p \in Procs |-> "idle"]
    /\ op' = [p \in Procs |-> NULL]
    /\ fn' = [p \in Procs |-> NULL]
    /\ arg' = [p \in Procs |-> NULL]
    /\ ext' = [p \in Procs |-> ".js"]
    /\ fd' = [p \in Procs |-> FALSE]
    /\ max' = [p \in Procs |-> 0]
    /\ snap' = [p \in Procs |-> ""]
    /\ Fault({f \in Fns : Busy(f)})
    /\ UNCHANGED stored

-----------------------------------------------------------------------------
Request(p) ==
    \E f \in Fns :
       \/ \E s \in Sources : Create(p, f, s) \/ Update(p, f, s)
       \/ \E a \in Artifacts : Upload(p, f, a) \/ DeployVersion(p, f, a)
       \/ Delete(p, f)

Continue(p) ==
    \/ updateSource(p)
    \/ openObject(p)
    \/ writeObject(p)
    \/ markReady(p)
    \/ markError(p)
    \/ readMax(p)
    \/ readSource(p)
    \/ insertVersion(p)
    \/ deleteObject(p)
    \/ deleteRow(p)

Next ==
    \/ \E p \in Procs : Request(p) \/ Continue(p) \/ putFails(p) \/ statementFails(p)
    \/ Crash

Spec == Init /\ [][Next]_vars

-----------------------------------------------------------------------------
StoredOK ==
    /\ rows \in [Fns -> Function \cup {NULL}]
    /\ made \in [Fns -> Languages \cup {NULL}]
    /\ versions \in [Fns -> Seq(FunctionVersion)]
    /\ objects \in [Fns -> [Exts -> Content]]
    /\ \A f \in Fns : rows[f] = NULL => versions[f] = <<>>

LocalsOK ==
    /\ pc \in [Procs -> Locations]
    /\ op \in [Procs -> Operations \cup {NULL}]
    /\ fn \in [Procs -> Fns \cup {NULL}]
    /\ arg \in [Procs -> Sources \cup Artifacts \cup {NULL}]
    /\ ext \in [Procs -> Exts]
    /\ fd \in [Procs -> BOOLEAN]
    /\ max \in [Procs -> Nat]
    /\ snap \in [Procs -> SourceText]

CountsOK ==
    /\ {calls, faults} \subseteq Nat
    /\ raced \subseteq Fns
    /\ failed \subseteq Fns

\* Every variable has its type, and only functions that exist have versions.
TypeOK == StoredOK /\ LocalsOK /\ CountsOK

\* Invoke finds what it needs to run f: a runtime it knows and, for WASM,
\* a whole artifact.
Runnable(f) ==
    CASE rows[f].runtime = "js"   -> rows[f].source \in Valid
      [] rows[f].runtime = "wasm" -> objects[f][".wasm"] \in Artifacts
      [] OTHER                    -> FALSE

\* Calls on f came one after the other, none hit by a fault, none running now.
Sequential(f) == ~Busy(f) /\ f \notin raced \cup failed

\* Used by one caller at a time, a function's row, files and versions fit
\* together: ready means that it runs and that the newest version is what
\* runs, an error that its source does not compile, and a deleted function
\* leaves no artifact of its own, unless WASM was deployed to JavaScript.
SequentialUse ==
    \A f \in Fns : Sequential(f) /\ made[f] # NULL =>
       LET v == versions[f] IN
       /\ \A i \in DOMAIN v : v[i].version = i
       /\ rows[f] = NULL =>
             objects[f][IF made[f] = "go" THEN ".wasm" ELSE ".js"] = NULL
       /\ rows[f] # NULL /\ (made[f] = "go" \/ objects[f][".wasm"] = NULL) =>
             /\ rows[f].status = (IF made[f] = "go" \/ rows[f].source \in Valid
                                  THEN "ready" ELSE "error")
             /\ rows[f].status = "ready" => Runnable(f)
             /\ rows[f].status = "ready" /\ v # <<>> => v[Len(v)].source = rows[f].source

\* A function is left compiling only by a fault: however calls overlap, one
\* that is compiling has a call about to say how that went.
CompilingIsTransient ==
    \A f \in Fns : rows[f] # NULL /\ rows[f].status = "compiling" /\ f \notin failed =>
       \E p \in Procs :
          fn[p] = f /\ pc[p] \in {"openObject", "writeObject", "markReady", "markError"}

\* However uploads, deployments and deletions overlap, a WASM function at rest
\* that no fault has hit has a file to run.
ReadyHasObject ==
    \A f \in Fns : ~Busy(f) /\ f \notin failed /\ rows[f] # NULL /\ made[f] = "go" =>
       objects[f][".wasm"] # NULL

\* Version numbers of a function have no gaps, whatever calls overlap or fail.
\* (They may repeat: the next number is read and used in different statements.)
VersionsContiguous ==
    \A f \in Fns : \A n \in Numbers(f) : \A m \in 1..n : m \in Numbers(f)

\* "Invoke executes a ready function": a function at rest, used by one caller
\* at a time and hit by no fault, runs if it is ready.
ReadyRuns ==
    \A f \in Fns : Sequential(f) /\ rows[f] # NULL /\ rows[f].status = "ready" => Runnable(f)
=============================================================================
