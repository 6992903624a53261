------------------------ MODULE FunctionStore_proofs ------------------------
(***************************************************************************)
(* Proofs about FunctionStore: its type invariant, that version numbers    *)
(* have no gaps, that compiling never lasts, that a ready function has a   *)
(* file and that calls made one at a time leave a function whose row,      *)
(* files and versions fit together, for every number of functions,         *)
(* requests, calls and faults.                                             *)
(***************************************************************************)
EXTENDS FunctionStore, TLAPS

\* What a call in progress knows of its own locals.
ActiveOK ==
    \A p \in Procs :
       /\ pc[p] # "idle" => fn[p] \in Fns /\ op[p] \in Operations
       /\ pc[p] = "updateSource" => arg[p] \in Sources
       /\ pc[p] \in {"openObject", "writeObject"} => arg[p] \in Sources \cup Artifacts

\* Some version of a function that has versions has the highest number.
HighestExists ==
    \A f \in Fns : versions[f] # <<>> =>
       \E i \in DOMAIN versions[f] : \A j \in DOMAIN versions[f] :
          versions[f][j].version <= versions[f][i].version

\* Functions and calls in progress are about ids that were given out.
MadeOK ==
    /\ \A f \in Fns : rows[f] # NULL => made[f] # NULL
    /\ \A p \in Procs : pc[p] # "idle" => made[fn[p]] # NULL

\* A number read as the highest is one of the numbers, or there was none.
ReadMaxOK ==
    \A p \in Procs :
       IF pc[p] \in {"readSource", "insertVersion"}
       THEN \A f \in Fns : fn[p] = f /\ rows[f] # NULL => max[p] = 0 \/ max[p] \in Numbers(f)
       ELSE max[p] = 0

\* A WASM function without a file is being uploaded or deleted, or was hit by
\* a fault; an upload writes the .wasm file.
ObjectOK ==
    /\ \A f \in Fns : made[f] = "go" /\ rows[f] # NULL /\ f \notin failed
                      /\ objects[f][".wasm"] = NULL =>
          \E p \in Procs : fn[p] = f /\ (pc[p] = "deleteRow"
                                         \/ (pc[p] = "openObject" /\ op[p] = "Upload"))
    /\ \A p \in Procs : op[p] = "Upload" => ext[p] = ".wasm"

-----------------------------------------------------------------------------
(* Facts about the operators.                                              *)

\* The highest of a function's numbers is one of them.
LEMMA HighestNumber ==
    ASSUME StoredOK, HighestExists, NEW f \in Fns, Numbers(f) # {}
    PROVE  Max(Numbers(f)) \in Numbers(f) /\ Numbers(f) \subseteq Nat
<1>1. versions[f] \in Seq(FunctionVersion)
  BY DEF StoredOK
<1>2. \A i \in DOMAIN versions[f] : versions[f][i].version \in Nat
  <2>1. \A i \in DOMAIN versions[f] : versions[f][i] \in FunctionVersion
    BY <1>1
  <2> QED
    BY <2>1 DEF FunctionVersion
<1>3. versions[f] # <<>>
  BY DEF Numbers
<1>4. \E n \in Numbers(f) : \A m \in Numbers(f) : n >= m
  <2>1. PICK i \in DOMAIN versions[f] : \A j \in DOMAIN versions[f] :
                versions[f][j].version <= versions[f][i].version
    BY <1>3 DEF HighestExists
  <2>2. \A j \in DOMAIN versions[f] : versions[f][i].version >= versions[f][j].version
    BY <2>1, <1>2
  <2> QED
    BY <2>2 DEF Numbers
<1> QED
  BY <1>2, <1>4 DEF Max, Numbers

\* The locals of a call that returns have their types.
LEMMA ReturnType ==
    ASSUME LocalsOK, ActiveOK, NEW p \in Procs, Return(p)
    PROVE  LocalsOK' /\ ActiveOK'
<1>1. "" \in SourceText
  BY DEF SourceText
<1>2. LocalsOK'
  BY <1>1 DEF LocalsOK, Return, Goto, Locations, Exts
<1>3. ActiveOK'
  BY DEF LocalsOK, ActiveOK, Return, Goto
<1> QED
  BY <1>2, <1>3

\* A step of p to another location that leaves its locals alone.
LEMMA GotoType ==
    ASSUME LocalsOK, ActiveOK, NEW p \in Procs, pc[p] # "idle",
           NEW l \in Locations \ {"idle", "updateSource"}, Goto(p, l),
           l \in {"openObject", "writeObject"} => arg[p] \in Sources \cup Artifacts,
           UNCHANGED locals
    PROVE  LocalsOK' /\ ActiveOK'
BY DEF LocalsOK, ActiveOK, Goto, locals

\* A call that begins has locals of the right types.
LEMMA BeginType ==
    ASSUME TypeOK, ActiveOK, NEW p \in Procs, NEW o \in Operations, NEW f \in Fns,
           NEW a \in Sources \cup Artifacts \cup {NULL}, NEW x \in Exts,
           NEW l \in Locations \ {"idle"},
           l = "updateSource" => a \in Sources,
           l \in {"openObject", "writeObject"} => a \in Sources \cup Artifacts,
           Begin(p, o, f, a, x, l)
    PROVE  LocalsOK' /\ ActiveOK' /\ CountsOK'
<1>1. LocalsOK'
  BY DEF TypeOK, LocalsOK, Begin, Goto
<1>2. ActiveOK'
  BY DEF TypeOK, LocalsOK, ActiveOK, Begin, Goto
<1>3. CountsOK'
  BY DEF TypeOK, CountsOK, Begin
<1> QED
  BY <1>1, <1>2, <1>3

\* UPDATE of a row keeps the types of what is stored.
LEMMA UpdateRowType ==
    ASSUME StoredOK, NEW f \in Fns, NEW r, rows[f] # NULL => r \in Function,
           UpdateRow(f, r)
    PROVE  StoredOK'
BY StoreAssumption DEF StoredOK, UpdateRow

-----------------------------------------------------------------------------
(* The type invariant.                                                     *)

TypeInv == TypeOK /\ ActiveOK /\ HighestExists

\* Versions that stay as they are keep their highest number.
LEMMA SameVersions ==
    ASSUME HighestExists, UNCHANGED versions
    PROVE  HighestExists'
BY DEF HighestExists

\* A fault keeps the types of the counters and histories.
LEMMA FaultType ==
    ASSUME CountsOK, NEW F \in SUBSET Fns, Fault(F)
    PROVE  CountsOK'
BY DEF CountsOK, Fault

\* The first step of a call keeps the invariant.
LEMMA RequestType ==
    ASSUME TypeInv, NEW p \in Procs, Request(p)
    PROVE  TypeInv'
<1> USE DEF TypeInv
<1>1. CASE \E f \in Fns, s \in Sources : Create(p, f, s)
  <2>1. PICK f \in Fns, s \in Sources : Create(p, f, s)
    BY <1>1
  <2> DEFINE new == [language |-> "javascript", source |-> s,
                     runtime |-> "", status |-> "compiling"]
  <2>2. new \in Function
    BY DEF Function, Languages, Runtimes, SourceText
  <2>3. AfterCompile(s) \in {"openObject", "markError"}
    BY DEF AfterCompile
  <2>4. Begin(p, "Create", f, s, ".js", AfterCompile(s))
    BY <2>1 DEF Create
  <2>5. LocalsOK' /\ ActiveOK' /\ CountsOK'
    <3> DEFINE l == AfterCompile(s)
    <3>1. l \in Locations \ {"idle"} /\ l # "updateSource"
      BY <2>3 DEF Locations
    <3> HIDE DEF l
    <3> QED
      BY <2>4, <3>1, BeginType DEF Operations, Exts, l
  <2>6. StoredOK'
    <3>1. /\ rows' = [rows EXCEPT ![f] = new]
          /\ made' = [made EXCEPT ![f] = "javascript"]
          /\ UNCHANGED <<versions, objects>>
      BY <2>1 DEF Create
    <3> HIDE DEF new
    <3> QED
      BY <2>2, <3>1, StoreAssumption DEF TypeOK, StoredOK, Languages
  <2> QED
    BY <2>1, <2>5, <2>6, SameVersions DEF TypeOK, Create
<1>2. CASE \E f \in Fns, a \in Artifacts : Upload(p, f, a)
  <2>1. PICK f \in Fns, a \in Artifacts : Upload(p, f, a)
    BY <1>2
  <2> DEFINE new == [language |-> "go", source |-> "",
                     runtime |-> "wasm", status |-> "ready"]
  <2>2. new \in Function
    BY DEF Function, Languages, Runtimes, SourceText
  <2>3. LocalsOK' /\ ActiveOK' /\ CountsOK'
    <3>1. Begin(p, "Upload", f, a, ".wasm", "openObject")
      BY <2>1 DEF Upload
    <3> QED
      BY <3>1, BeginType DEF Operations, Exts, Locations
  <2>4. StoredOK'
    <3>1. /\ rows' = [rows EXCEPT ![f] = new]
          /\ made' = [made EXCEPT ![f] = "go"]
          /\ UNCHANGED <<versions, objects>>
      BY <2>1 DEF Upload
    <3> HIDE DEF new
    <3> QED
      BY <2>2, <3>1, StoreAssumption DEF TypeOK, StoredOK, Languages
  <2> QED
    BY <2>1, <2>3, <2>4, SameVersions DEF TypeOK, Upload
<1>3. CASE \E f \in Fns, a \in Artifacts : DeployVersion(p, f, a)
  <2>1. PICK f \in Fns, a \in Artifacts : DeployVersion(p, f, a)
    BY <1>3
  <2>2. LocalsOK' /\ ActiveOK' /\ CountsOK'
    BY <2>1, BeginType DEF DeployVersion, Operations, Exts, Locations
  <2> QED
    BY <2>1, <2>2, SameVersions DEF TypeOK, StoredOK, DeployVersion, stored
<1>4. CASE \E f \in Fns, s \in Sources : Update(p, f, s)
  <2>1. PICK f \in Fns, s \in Sources : Update(p, f, s)
    BY <1>4
  <2>2. LocalsOK' /\ ActiveOK' /\ CountsOK'
    BY <2>1, BeginType DEF Update, Operations, Exts, Locations
  <2> QED
    BY <2>1, <2>2, SameVersions DEF TypeOK, StoredOK, Update, stored
<1>5. CASE \E f \in Fns : Delete(p, f)
  <2>1. PICK f \in Fns : Delete(p, f)
    BY <1>5
  <2>2. artifactExt(rows[f].runtime) \in Exts
    BY DEF artifactExt, Exts
  <2>3. LocalsOK' /\ ActiveOK' /\ CountsOK'
    BY <2>1, <2>2, BeginType DEF Delete, Operations, Locations
  <2> QED
    BY <2>1, <2>3, SameVersions DEF TypeOK, StoredOK, Delete, stored
<1> QED
  BY <1>1, <1>2, <1>3, <1>4, <1>5 DEF Request

\* Every later step of a call does too.
LEMMA ContinueType ==
    ASSUME TypeInv, NEW p \in Procs, Continue(p)
    PROVE  TypeInv'
<1> USE DEF TypeInv
<1> DEFINE f == fn[p]
<1>1. pc[p] # "idle" /\ f \in Fns /\ ext[p] \in Exts
  BY DEF Continue, ActiveOK, TypeOK, LocalsOK, updateSource, openObject, writeObject,
         markReady, markError, readMax, readSource, insertVersion, deleteObject, deleteRow
<1>2. rows[f] # NULL => rows[f] \in Function
  BY <1>1 DEF TypeOK, StoredOK
<1>3. versions[f] \in Seq(FunctionVersion)
  BY <1>1 DEF TypeOK, StoredOK
<1>4. CASE updateSource(p)
  <2> DEFINE r == [rows[f] EXCEPT !.source = arg[p], !.status = "compiling"]
  <2>1. arg[p] \in Sources
    BY <1>4 DEF updateSource, ActiveOK
  <2>2. rows[f] # NULL => r \in Function
    BY <2>1, <1>2 DEF Function, SourceText
  <2>3. StoredOK'
    <3>1. UpdateRow(f, r)
      BY <1>4 DEF updateSource
    <3> HIDE DEF f, r
    <3> QED
      BY <3>1, <2>2, <1>1, UpdateRowType DEF TypeOK
  <2>4. LocalsOK' /\ ActiveOK'
    <3> DEFINE l == AfterCompile(arg[p])
    <3>1. l \in {"openObject", "markError"}
      BY DEF AfterCompile
    <3>2. Goto(p, l) /\ UNCHANGED locals
      BY <1>4 DEF updateSource
    <3> HIDE DEF l
    <3> QED
      BY <3>1, <3>2, <2>1, <1>1, GotoType DEF TypeOK, Locations
  <2> QED
    BY <1>4, <2>3, <2>4, SameVersions
       DEF TypeOK, CountsOK, updateSource, UpdateRow, counts
<1>5. CASE openObject(p)
  <2>1. StoredOK'
    BY <1>5, <1>1 DEF openObject, TypeOK, StoredOK, Content, Broken
  <2>2. LocalsOK' /\ ActiveOK'
    BY <1>5 DEF openObject, TypeOK, LocalsOK, ActiveOK, Goto, Locations
  <2> QED
    BY <1>5, <2>1, <2>2, SameVersions DEF openObject, TypeOK, CountsOK, counts
<1>6. CASE writeObject(p)
  <2>1. arg[p] \in Sources \cup Artifacts
    BY <1>6 DEF writeObject, ActiveOK
  <2>2. StoredOK'
    <3>1. arg[p] \in Content /\ "torn" \in Content
      BY <2>1 DEF Content, Broken
    <3>2. \/ UNCHANGED objects
          \/ \E c \in Content : objects' = [objects EXCEPT ![f][ext[p]] = c]
      <4>1. CASE ~fd[p]
        BY <1>6, <4>1 DEF writeObject
      <4>2. CASE fd[p]
        <5>1. PICK c \in {arg[p]} \cup {"torn"} : objects' = [objects EXCEPT ![f][ext[p]] = c]
          BY <1>6, <4>2 DEF writeObject
        <5> QED
          BY <5>1, <3>1
      <4> QED
        BY <4>1, <4>2
    <3>3. objects' \in [Fns -> [Exts -> Content]]
      <4>1. objects \in [Fns -> [Exts -> Content]]
        BY DEF TypeOK, StoredOK
      <4>2. CASE \E c \in Content : objects' = [objects EXCEPT ![f][ext[p]] = c]
        <5>1. PICK c \in Content : objects' = [objects EXCEPT ![f][ext[p]] = c]
          BY <4>2
        <5> HIDE DEF f
        <5> QED
          BY <5>1, <4>1, <1>1
      <4> QED
        BY <3>2, <4>1, <4>2
    <3> QED
      BY <3>3, <1>6 DEF writeObject, TypeOK, StoredOK
  <2>3. LocalsOK' /\ ActiveOK'
    BY <1>6, <1>1, GotoType DEF writeObject, TypeOK, Locations
  <2> QED
    BY <1>6, <2>2, <2>3, SameVersions DEF writeObject, TypeOK, CountsOK, counts
<1>7. CASE markReady(p)
  <2> DEFINE r == [rows[f] EXCEPT
          !.status = "ready",
          !.runtime = CASE op[p] = "DeployVersion" -> @
                        [] op[p] = "Upload"        -> "wasm"
                        [] OTHER                   -> "js"]
  <2>1. rows[f] # NULL => r \in Function
    BY <1>2 DEF Function, Runtimes
  <2>2. StoredOK'
    <3>1. UpdateRow(f, r)
      BY <1>7 DEF markReady
    <3> HIDE DEF f, r
    <3> QED
      BY <3>1, <2>1, <1>1, UpdateRowType DEF TypeOK
  <2>3. LocalsOK' /\ ActiveOK'
    <3>1. CASE Return(p)
      BY <3>1, ReturnType DEF TypeOK
    <3>2. CASE Goto(p, "readMax") /\ UNCHANGED locals
      BY <3>2, <1>1, GotoType DEF TypeOK, Locations
    <3> QED
      BY <3>1, <3>2, <1>7 DEF markReady, AfterReady
  <2> QED
    BY <1>7, <2>2, <2>3, SameVersions
       DEF TypeOK, CountsOK, markReady, UpdateRow, counts
<1>8. CASE markError(p)
  <2> DEFINE r == [rows[f] EXCEPT !.status = "error", !.runtime = ""]
  <2>1. rows[f] # NULL => r \in Function
    BY <1>2 DEF Function, Runtimes
  <2>2. StoredOK'
    <3>1. UpdateRow(f, r)
      BY <1>8 DEF markError
    <3> HIDE DEF f, r
    <3> QED
      BY <3>1, <2>1, <1>1, UpdateRowType DEF TypeOK
  <2>3. LocalsOK' /\ ActiveOK'
    BY <1>8, ReturnType DEF TypeOK, markError
  <2> QED
    BY <1>8, <2>2, <2>3, SameVersions
       DEF TypeOK, CountsOK, markError, UpdateRow, counts
<1>9. CASE readMax(p)
  <2> DEFINE m == IF Numbers(f) = {} THEN 0 ELSE Max(Numbers(f))
  <2>1. m \in Nat
    BY <1>1, HighestNumber DEF TypeOK
  <2>2. max' = [max EXCEPT ![p] = m]
    BY <1>9 DEF readMax
  <2>3. LocalsOK' /\ ActiveOK'
    <3> HIDE DEF m
    <3> QED
      BY <1>9, <2>1, <2>2 DEF readMax, TypeOK, LocalsOK, ActiveOK, Goto, Locations
  <2> QED
    BY <1>9, <2>3, SameVersions DEF readMax, TypeOK, StoredOK, CountsOK, stored, counts
<1>10. CASE readSource(p)
  <2> DEFINE s == IF rows[f] = NULL THEN "" ELSE rows[f].source
  <2>1. s \in SourceText
    BY <1>2 DEF Function, SourceText
  <2>2. snap' = [snap EXCEPT ![p] = s]
    BY <1>10 DEF readSource
  <2>3. LocalsOK' /\ ActiveOK'
    <3> HIDE DEF s
    <3>1. LocalsOK'
      BY <1>10, <2>1, <2>2 DEF readSource, TypeOK, LocalsOK, Goto, Locations
    <3>2. ActiveOK'
      BY <1>10 DEF readSource, TypeOK, LocalsOK, ActiveOK, Goto, Locations
    <3> QED
      BY <3>1, <3>2
  <2> QED
    BY <1>10, <2>3, SameVersions DEF readSource, TypeOK, StoredOK, CountsOK, stored, counts
<1>11. CASE insertVersion(p)
  <2>1. LocalsOK' /\ ActiveOK'
    BY <1>11, ReturnType DEF TypeOK, insertVersion
  <2>2. CASE rows[f] = NULL
    BY <1>11, <2>1, <2>2, SameVersions DEF insertVersion, TypeOK, StoredOK, CountsOK, counts
  <2>3. CASE rows[f] # NULL
    <3> DEFINE v == [version |-> max[p] + 1, source |-> snap[p]]
               s == Append(versions[f], v)
    <3>1. v \in FunctionVersion
      <4>1. max[p] + 1 \in Nat \ {0} /\ snap[p] \in SourceText
        BY DEF TypeOK, LocalsOK
      <4> QED
        BY <4>1 DEF FunctionVersion
    <3>2. versions' = [versions EXCEPT ![f] = s]
      BY <1>11, <2>3 DEF insertVersion
    <3>3. s \in Seq(FunctionVersion)
      BY <3>1, <1>3
    <3>4. StoredOK'
      <4> HIDE DEF s
      <4> QED
        BY <1>11, <2>3, <3>2, <3>3 DEF insertVersion, TypeOK, StoredOK
    <3>5. \E i \in DOMAIN s : \A j \in DOMAIN s : s[j].version <= s[i].version
      <4>1. /\ Len(s) = Len(versions[f]) + 1
            /\ DOMAIN s = 1..Len(s)
            /\ DOMAIN versions[f] = 1..Len(versions[f])
            /\ Len(versions[f]) \in Nat
            /\ s[Len(s)] = v
            /\ \A j \in DOMAIN versions[f] : s[j] = versions[f][j]
        BY <1>3, <3>1
      <4>2. v.version \in Nat /\ \A j \in DOMAIN s : s[j].version \in Nat
        <5>1. \A j \in DOMAIN s : s[j] \in FunctionVersion
          BY <3>3
        <5> QED
          BY <3>1, <5>1 DEF FunctionVersion
      <4>3. CASE \A j \in DOMAIN versions[f] : versions[f][j].version <= v.version
        <5> HIDE DEF s, v
        <5>1. \A j \in DOMAIN s : j = Len(s) \/ j \in DOMAIN versions[f]
          BY <4>1
        <5>2. \A j \in DOMAIN s : s[j].version <= s[Len(s)].version
          BY <4>1, <4>2, <4>3, <5>1
        <5> QED
          BY <4>1, <5>2
      <4>4. CASE ~ \A j \in DOMAIN versions[f] : versions[f][j].version <= v.version
        <5>1. PICK i \in DOMAIN versions[f] : \A j \in DOMAIN versions[f] :
                     versions[f][j].version <= versions[f][i].version
          BY <4>4, <1>1 DEF HighestExists
        <5> HIDE DEF s, v
        <5>2. i \in DOMAIN s /\ \A j \in DOMAIN s : j = Len(s) \/ j \in DOMAIN versions[f]
          BY <4>1
        <5>3. \A j \in DOMAIN versions[f] : versions[f][j].version \in Nat
          BY <4>1, <4>2
        <5>4. v.version <= versions[f][i].version
          BY <4>2, <4>4, <5>1, <5>3
        <5>5. \A j \in DOMAIN s : s[j].version <= s[i].version
          BY <4>1, <5>1, <5>2, <5>4
        <5> QED
          BY <5>2, <5>5
      <4> QED
        BY <4>3, <4>4
    <3>6. HighestExists'
      <4> HIDE DEF s
      <4>1. \A g \in Fns : versions'[g] = IF g = f THEN s ELSE versions[g]
        BY <3>2 DEF TypeOK, StoredOK
      <4> QED
        BY <3>5, <4>1 DEF HighestExists
    <3> QED
      BY <1>11, <2>1, <3>4, <3>6 DEF insertVersion, TypeOK, CountsOK, counts
  <2> QED
    BY <2>2, <2>3
<1>12. CASE deleteObject(p)
  <2>1. StoredOK'
    BY <1>12, <1>1 DEF deleteObject, TypeOK, StoredOK, Content
  <2>2. LocalsOK' /\ ActiveOK'
    BY <1>12 DEF deleteObject, TypeOK, LocalsOK, ActiveOK, Goto, Locations
  <2> QED
    BY <1>12, <2>1, <2>2, SameVersions DEF deleteObject, TypeOK, CountsOK, counts
<1>13. CASE deleteRow(p)
  <2>1. StoredOK'
    BY <1>13, <1>1 DEF deleteRow, TypeOK, StoredOK
  <2>2. LocalsOK' /\ ActiveOK'
    BY <1>13, ReturnType DEF TypeOK, deleteRow
  <2>3. HighestExists'
    BY <1>13, <1>1 DEF deleteRow, HighestExists, TypeOK, StoredOK
  <2> QED
    BY <1>13, <2>1, <2>2, <2>3 DEF deleteRow, TypeOK, CountsOK, counts
<1> QED
  BY <1>4, <1>5, <1>6, <1>7, <1>8, <1>9, <1>10, <1>11, <1>12, <1>13 DEF Continue

\* What putFails and statementFails do to the locals of the call they hit.
LEMMA FaultyCall ==
    ASSUME TypeInv, NEW p \in Procs, putFails(p) \/ statementFails(p)
    PROVE  LocalsOK' /\ ActiveOK' /\ CountsOK' /\ fn[p] \in Fns /\ pc[p] # "idle"
<1> USE DEF TypeInv
<1>1. pc[p] # "idle" /\ fn[p] \in Fns
  BY DEF putFails, statementFails, ActiveOK
<1>2. \/ Return(p)
      \/ \E l \in {"markError", "readMax", "readSource", "insertVersion", "deleteRow"} :
            Goto(p, l) /\ UNCHANGED locals
  BY DEF putFails, statementFails, AfterReady
<1>3. LocalsOK' /\ ActiveOK'
  BY <1>1, <1>2, ReturnType, GotoType DEF TypeOK, Locations
<1>4. CountsOK'
  BY <1>1, FaultType DEF TypeOK, putFails, statementFails
<1> QED
  BY <1>1, <1>3, <1>4

\* So does every fault.
LEMMA FaultStepType ==
    ASSUME TypeInv, (\E p \in Procs : putFails(p) \/ statementFails(p)) \/ Crash
    PROVE  TypeInv'
<1> USE DEF TypeInv
<1>1. ASSUME NEW p \in Procs, putFails(p) PROVE TypeInv'
  <2>1. fn[p] \in Fns /\ ext[p] \in Exts
    BY <1>1, FaultyCall DEF TypeOK, LocalsOK
  <2>2. StoredOK'
    <3>1. "torn" \in Content
      BY DEF Content, Broken
    <3>2. UNCHANGED objects \/ objects' = [objects EXCEPT ![fn[p]][ext[p]] = "torn"]
      BY <1>1 DEF putFails
    <3>3. objects \in [Fns -> [Exts -> Content]]
      BY DEF TypeOK, StoredOK
    <3>4. objects' \in [Fns -> [Exts -> Content]]
      <4>1. \A c \in Content : [objects EXCEPT ![fn[p]][ext[p]] = c] \in [Fns -> [Exts -> Content]]
        BY <2>1, <3>3
      <4> QED
        BY <3>1, <3>2, <3>3, <4>1
    <3> QED
      BY <1>1, <3>4 DEF putFails, TypeOK, StoredOK
  <2> QED
    BY <1>1, <2>2, FaultyCall, SameVersions DEF TypeOK, putFails
<1>2. ASSUME NEW p \in Procs, statementFails(p) PROVE TypeInv'
  BY <1>2, FaultyCall, SameVersions DEF TypeOK, StoredOK, statementFails, stored
<1>3. ASSUME Crash PROVE TypeInv'
  <2>1. "" \in SourceText
    BY DEF SourceText
  <2>2. LocalsOK'
    BY <1>3, <2>1 DEF Crash, LocalsOK, Locations, Exts
  <2>3. ActiveOK'
    BY <1>3 DEF Crash, ActiveOK
  <2>4. CountsOK'
    BY <1>3, FaultType DEF TypeOK, Crash
  <2> QED
    BY <1>3, <2>2, <2>3, <2>4, SameVersions DEF TypeOK, StoredOK, Crash, stored
<1> QED
  BY <1>1, <1>2, <1>3

\* The type invariant is inductive.
LEMMA TypeStep ==
    ASSUME TypeInv, [Next]_vars
    PROVE  TypeInv'
<1>1. CASE UNCHANGED vars
  BY <1>1 DEF vars, TypeInv, TypeOK, StoredOK, LocalsOK, CountsOK, ActiveOK, HighestExists
<1>2. CASE Next
  BY <1>2, RequestType, ContinueType, FaultStepType DEF Next
<1> QED
  BY <1>1, <1>2

LEMMA TypeInit ==
    ASSUME Init
    PROVE  TypeInv
<1>1. StoredOK
  <2>1. <<>> \in Seq(FunctionVersion) /\ NULL \in Content
    BY DEF Content
  <2> QED
    BY <2>1 DEF Init, StoredOK
<1>2. LocalsOK
  <2>1. "" \in SourceText
    BY DEF SourceText
  <2> QED
    <3>1. /\ pc \in [Procs -> Locations]
          /\ op \in [Procs -> Operations \cup {NULL}]
          /\ fn \in [Procs -> Fns \cup {NULL}]
          /\ arg \in [Procs -> Sources \cup Artifacts \cup {NULL}]
          /\ ext \in [Procs -> Exts]
      BY DEF Init, Locations, Exts
    <3>2. fd \in [Procs -> BOOLEAN] /\ max \in [Procs -> Nat]
      BY DEF Init
    <3>3. snap \in [Procs -> SourceText]
      BY <2>1 DEF Init
    <3> QED
      BY <3>1, <3>2, <3>3 DEF LocalsOK
<1>3. CountsOK
  <2>1. calls = 0 /\ faults = 0 /\ raced = {} /\ failed = {}
    BY Zenon DEF Init
  <2> QED
    BY <2>1 DEF CountsOK
<1>4. ActiveOK
  BY DEF Init, ActiveOK
<1>5. HighestExists
  BY DEF Init, HighestExists
<1> QED
  BY <1>1, <1>2, <1>3, <1>4, <1>5 DEF TypeInv, TypeOK

\* Every variable has its type, and a function that is gone has no versions.
THEOREM TypeCorrect == Spec => []TypeOK
<1>1. Init => TypeInv
  BY TypeInit
<1>2. TypeInv /\ [Next]_vars => TypeInv'
  BY TypeStep
<1>3. TypeInv => TypeOK
  BY DEF TypeInv
<1> QED
  BY <1>1, <1>2, <1>3, PTL DEF Spec

-----------------------------------------------------------------------------
(* Compiling is transient.                                                 *)

\* Where a call stands that will say how the compilation went.
Compiling == {"openObject", "writeObject", "markReady", "markError"}

\* A step of call p leaves the places of the other calls alone.
LEMMA OthersStay ==
    ASSUME TypeInv, NEW p \in Procs,
           Request(p) \/ Continue(p) \/ putFails(p) \/ statementFails(p)
    PROVE  \A q \in Procs \ {p} : pc'[q] = pc[q] /\ fn'[q] = fn[q] /\ max'[q] = max[q]
<1>1. /\ pc \in [Procs -> Locations]
      /\ fn \in [Procs -> Fns \cup {NULL}]
      /\ max \in [Procs -> Nat]
  BY DEF TypeInv, TypeOK, LocalsOK
<1>2. \E l \in Locations : pc' = [pc EXCEPT ![p] = l]
  <2>1. CASE Request(p)
    BY <2>1 DEF Request, Create, Update, Upload, DeployVersion, Delete, Begin, Goto,
                AfterCompile, Locations
  <2>2. CASE Continue(p)
    BY <2>2 DEF Continue, updateSource, openObject, writeObject, markReady, markError,
                readMax, readSource, insertVersion, deleteObject, deleteRow, AfterReady,
                Return, Goto, AfterCompile, Locations
  <2>3. CASE putFails(p) \/ statementFails(p)
    BY <2>3 DEF putFails, statementFails, AfterReady, Return, Goto, Locations
  <2> QED
    BY <2>1, <2>2, <2>3
<1>3. fn' = fn \/ \E f \in Fns \cup {NULL} : fn' = [fn EXCEPT ![p] = f]
  <2>1. CASE Request(p)
    BY <2>1 DEF Request, Create, Update, Upload, DeployVersion, Delete, Begin
  <2>2. CASE Continue(p)
    BY <2>2 DEF Continue, updateSource, openObject, writeObject, markReady, markError,
                readMax, readSource, insertVersion, deleteObject, deleteRow, AfterReady,
                Return, locals
  <2>3. CASE putFails(p) \/ statementFails(p)
    BY <2>3 DEF putFails, statementFails, AfterReady, Return, locals
  <2> QED
    BY <2>1, <2>2, <2>3
<1>4. max' = max \/ \E n : max' = [max EXCEPT ![p] = n]
  <2>1. CASE Request(p)
    BY <2>1 DEF Request, Create, Update, Upload, DeployVersion, Delete, Begin
  <2>2. CASE Continue(p)
    BY <2>2 DEF Continue, updateSource, openObject, writeObject, markReady, markError,
                readMax, readSource, insertVersion, deleteObject, deleteRow, AfterReady,
                Return, locals
  <2>3. CASE putFails(p) \/ statementFails(p)
    BY <2>3 DEF putFails, statementFails, AfterReady, Return, locals
  <2> QED
    BY <2>1, <2>2, <2>3
<1> QED
  BY <1>1, <1>2, <1>3, <1>4

LEMMA CompilingStep ==
    ASSUME TypeInv, CompilingIsTransient, [Next]_vars
    PROVE  CompilingIsTransient'
<1> SUFFICES ASSUME NEW f \in Fns, rows'[f] # NULL, rows'[f].status = "compiling",
                    f \notin failed'
             PROVE  \E p \in Procs : fn'[p] = f /\ pc'[p] \in Compiling
  BY DEF CompilingIsTransient, Compiling
<1> DEFINE Before == rows[f] # NULL /\ rows[f].status = "compiling" /\ f \notin failed
<1>1. Before => \E q \in Procs : fn[q] = f /\ pc[q] \in Compiling
  BY DEF CompilingIsTransient, Compiling
<1>2. /\ pc \in [Procs -> Locations]
      /\ fn \in [Procs -> Fns \cup {NULL}]
      /\ rows \in [Fns -> Function \cup {NULL}]
  BY DEF TypeInv, TypeOK, LocalsOK, StoredOK
<1>3. CASE UNCHANGED vars
  BY <1>1, <1>3 DEF vars
<1>4. ASSUME NEW p \in Procs, Request(p) PROVE \E q \in Procs : fn'[q] = f /\ pc'[q] \in Compiling
  <2>1. pc[p] = "idle" /\ failed' = failed
    BY <1>4 DEF Request, Create, Update, Upload, DeployVersion, Delete, Begin
  <2>2. CASE \E s \in Sources : Create(p, f, s)
    BY <2>2, <1>2 DEF Create, Begin, Goto, AfterCompile, Compiling
  <2>3. CASE ~ \E s \in Sources : Create(p, f, s)
    <3>1. Before
      <4>1. CASE \E g \in Fns, s \in Sources : Create(p, g, s)
        <5>1. PICK g \in Fns, s \in Sources : Create(p, g, s)
          BY <4>1
        <5>2. g # f
          BY <5>1, <2>3
        <5> QED
          BY <5>1, <5>2, <2>1, <1>2 DEF Create
      <4>2. CASE \E g \in Fns, a \in Artifacts : Upload(p, g, a)
        <5>1. PICK g \in Fns, a \in Artifacts : Upload(p, g, a)
          BY <4>2
        <5>2. CASE g = f
          BY <5>1, <5>2, <1>2 DEF Upload
        <5>3. CASE g # f
          BY <5>1, <5>3, <2>1, <1>2 DEF Upload
        <5> QED
          BY <5>2, <5>3
      <4>3. CASE UNCHANGED rows
        BY <4>3, <2>1
      <4> QED
        BY <1>4, <4>1, <4>2, <4>3 DEF Request, Update, DeployVersion, Delete, stored
    <3>2. PICK q \in Procs : fn[q] = f /\ pc[q] \in Compiling
      BY <3>1, <1>1
    <3> QED
      BY <3>2, <2>1, <1>4, OthersStay DEF Compiling
  <2> QED
    BY <2>2, <2>3
<1>5. ASSUME NEW p \in Procs, Continue(p) PROVE \E q \in Procs : fn'[q] = f /\ pc'[q] \in Compiling
  <2>1. failed' = failed /\ fn[p] \in Fns
    BY <1>5 DEF Continue, updateSource, openObject, writeObject, markReady, markError,
                readMax, readSource, insertVersion, deleteObject, deleteRow, counts,
                TypeInv, ActiveOK
  <2>2. CASE fn[p] = f /\ pc[p] \in {"updateSource", "openObject", "writeObject"}
    <3>1. fn' = fn /\ pc'[p] \in Compiling
      BY <1>5, <2>2, <1>2 DEF Continue, updateSource, openObject, writeObject, markReady,
             markError, readMax, readSource, insertVersion, deleteObject, deleteRow,
             Goto, AfterCompile, Compiling, locals
    <3> QED
      BY <2>2, <3>1
  <2>3. CASE fn[p] = f /\ pc[p] \in {"markReady", "markError", "deleteRow"}
    <3>1. CASE markReady(p)
      <4>1. rows[f] # NULL => rows'[f].status = "ready"
        BY <3>1, <2>3, <1>2 DEF markReady, UpdateRow, Function
      <4> QED
        BY <4>1, <3>1, <2>3 DEF markReady, UpdateRow
    <3>2. CASE markError(p)
      <4>1. rows[f] # NULL => rows'[f].status = "error"
        BY <3>2, <2>3, <1>2 DEF markError, UpdateRow, Function
      <4> QED
        BY <4>1, <3>2, <2>3 DEF markError, UpdateRow
    <3>3. CASE deleteRow(p)
      BY <3>3, <2>3, <1>2 DEF deleteRow
    <3> QED
      BY <3>1, <3>2, <3>3, <1>5, <2>3 DEF Continue, updateSource, openObject, writeObject,
             readMax, readSource, insertVersion, deleteObject
  <2>4. CASE fn[p] # f \/ pc[p] \notin {"updateSource", "openObject", "writeObject",
                                       "markReady", "markError", "deleteRow"}
    <3>1. rows'[f] = rows[f]
      BY <1>5, <2>1, <2>4, <1>2 DEF Continue, updateSource, openObject, writeObject,
             markReady, markError, readMax, readSource, insertVersion, deleteObject,
             deleteRow, UpdateRow, stored
    <3>2. PICK q \in Procs : fn[q] = f /\ pc[q] \in Compiling
      BY <3>1, <2>1, <1>1
    <3>3. q # p
      BY <3>2, <2>4 DEF Compiling
    <3> QED
      BY <3>2, <3>3, <1>5, OthersStay
  <2> QED
    BY <2>2, <2>3, <2>4
<1>6. ASSUME NEW p \in Procs, putFails(p) \/ statementFails(p)
      PROVE  \E q \in Procs : fn'[q] = f /\ pc'[q] \in Compiling
  <2>1. rows' = rows /\ failed' = failed \cup {fn[p]}
    BY <1>6 DEF putFails, statementFails, Fault, stored
  <2>2. PICK q \in Procs : fn[q] = f /\ pc[q] \in Compiling
    BY <2>1, <1>1
  <2>3. q # p
    BY <2>1, <2>2
  <2> QED
    BY <2>2, <2>3, <1>6, OthersStay
<1>7. ASSUME Crash PROVE FALSE
  <2>1. rows' = rows /\ failed' = failed \cup {g \in Fns : Busy(g)}
    BY <1>7 DEF Crash, Fault, stored
  <2>2. Busy(f)
    BY <2>1, <1>1 DEF Busy, Compiling
  <2> QED
    BY <2>1, <2>2
<1> QED
  BY <1>3, <1>4, <1>5, <1>6, <1>7 DEF Next

\* A function that no fault has hit is compiling only while a call is about to
\* store the result: overlapping calls never leave it there.
THEOREM CompilingEnds == Spec => []CompilingIsTransient
<1>1. Init => TypeInv /\ CompilingIsTransient
  <2>1. Init => TypeInv
    BY TypeInit
  <2>2. Init => CompilingIsTransient
    <3>1. Init => rows = [f \in Fns |-> NULL]
      BY Zenon DEF Init
    <3> QED
      BY <3>1 DEF CompilingIsTransient
  <2> QED
    BY <2>1, <2>2
<1>2. TypeInv /\ CompilingIsTransient /\ [Next]_vars => TypeInv' /\ CompilingIsTransient'
  BY TypeStep, CompilingStep
<1> QED
  BY <1>1, <1>2, PTL DEF Spec

-----------------------------------------------------------------------------
(* Version numbers have no gaps.                                           *)

\* An id that was given out stays so, and only a new one gets a row.
LEMMA MadeStep ==
    ASSUME TypeInv, MadeOK, [Next]_vars
    PROVE  /\ MadeOK'
           /\ \A f \in Fns : made[f] # NULL => made'[f] = made[f]
           /\ \A f \in Fns : made[f] # NULL /\ rows'[f] # NULL => rows[f] # NULL
<1>1. /\ rows \in [Fns -> Function \cup {NULL}]
      /\ made \in [Fns -> Languages \cup {NULL}]
      /\ pc \in [Procs -> Locations]
      /\ fn \in [Procs -> Fns \cup {NULL}]
      /\ \A p \in Procs : pc[p] # "idle" => fn[p] \in Fns
  BY DEF TypeInv, TypeOK, StoredOK, LocalsOK, ActiveOK
<1>2. CASE UNCHANGED vars
  BY <1>2 DEF vars, MadeOK
<1>3. ASSUME NEW p \in Procs, Request(p)
      PROVE  /\ MadeOK'
             /\ \A f \in Fns : made[f] # NULL => made'[f] = made[f]
             /\ \A f \in Fns : made[f] # NULL /\ rows'[f] # NULL => rows[f] # NULL
  <2>1. PICK f \in Fns, x \in Languages :
           /\ pc[p] = "idle"
           /\ fn' = [fn EXCEPT ![p] = f]
           /\ \/ UNCHANGED <<rows, made>> /\ rows[f] # NULL
              \/ made[f] = NULL /\ made' = [made EXCEPT ![f] = x]
                 /\ \A g \in Fns \ {f} : rows'[g] = rows[g]
    BY <1>1, <1>3 DEF Request, Create, Update, Upload, DeployVersion, Delete, Begin, stored,
                      Languages
  <2>2. \A g \in Fns : made[g] # NULL => made'[g] = made[g]
    BY <2>1, <1>1
  <2>3. made'[f] # NULL
    BY <2>1, <1>1, StoreAssumption DEF MadeOK
  <2>4. \A g \in Fns : made[g] # NULL /\ rows'[g] # NULL => rows[g] # NULL
    BY <2>1, <1>1
  <2>5. \A g \in Fns : rows'[g] # NULL => made'[g] # NULL
    BY <2>1, <2>3, <1>1 DEF MadeOK
  <2>6. \A q \in Procs : pc'[q] # "idle" => made'[fn'[q]] # NULL
    <3>1. fn'[p] = f
      BY <2>1, <1>1
    <3>2. \A q \in Procs \ {p} : pc'[q] = pc[q] /\ fn'[q] = fn[q]
      BY <1>3, OthersStay
    <3> QED
      BY <3>1, <3>2, <2>2, <2>3, <1>1 DEF MadeOK
  <2> QED
    BY <2>2, <2>4, <2>5, <2>6 DEF MadeOK
<1>4. ASSUME NEW p \in Procs, Continue(p) \/ putFails(p) \/ statementFails(p)
      PROVE  /\ MadeOK'
             /\ \A f \in Fns : made[f] # NULL => made'[f] = made[f]
             /\ \A f \in Fns : made[f] # NULL /\ rows'[f] # NULL => rows[f] # NULL
  <2>1. made' = made /\ pc[p] # "idle"
    BY <1>4 DEF Continue, updateSource, openObject, writeObject, markReady, markError,
                readMax, readSource, insertVersion, deleteObject, deleteRow, UpdateRow,
                putFails, statementFails, stored
  <2>2. \A f \in Fns : rows'[f] # NULL => rows[f] # NULL
    <3>1. CASE UNCHANGED rows
      BY <3>1
    <3>2. CASE deleteRow(p)
      BY <3>2, <1>1 DEF deleteRow
    <3>3. CASE \E r : UpdateRow(fn[p], r)
      BY <3>3, <1>1 DEF UpdateRow
    <3> QED
      BY <1>4, <3>1, <3>2, <3>3
         DEF Continue, updateSource, openObject, writeObject, markReady, markError,
             readMax, readSource, insertVersion, deleteObject, putFails, statementFails,
             stored
  <2>3. pc'[p] = "idle" \/ fn'[p] = fn[p]
    BY <1>4, <1>1 DEF Continue, updateSource, openObject, writeObject, markReady, markError,
           readMax, readSource, insertVersion, deleteObject, deleteRow, AfterReady,
           putFails, statementFails, Return, Goto, locals
  <2>4. \A q \in Procs \ {p} : pc'[q] = pc[q] /\ fn'[q] = fn[q]
    BY <1>4, OthersStay
  <2> QED
    BY <2>1, <2>2, <2>3, <2>4 DEF MadeOK
<1>5. CASE Crash
  BY <1>5 DEF Crash, MadeOK, stored
<1> QED
  BY <1>2, <1>3, <1>4, <1>5 DEF Next

\* The numbers of a function after a step: the same, one more, or none with the row.
LEMMA NumbersAfter ==
    ASSUME TypeInv, NEW f \in Fns, [Next]_vars
    PROVE  \/ Numbers(f)' = Numbers(f)
           \/ rows'[f] = NULL /\ Numbers(f)' = {}
           \/ \E p \in Procs : /\ pc[p] = "insertVersion" /\ fn[p] = f /\ rows[f] # NULL
                               /\ Numbers(f)' = Numbers(f) \cup {max[p] + 1}
<1>1. versions \in [Fns -> Seq(FunctionVersion)] /\ rows \in [Fns -> Function \cup {NULL}]
  BY DEF TypeInv, TypeOK, StoredOK
<1>2. CASE UNCHANGED versions
  BY <1>2 DEF Numbers
<1>3. ASSUME NEW p \in Procs, deleteRow(p)
      PROVE  Numbers(f)' = Numbers(f) \/ (rows'[f] = NULL /\ Numbers(f)' = {})
  <2>1. CASE fn[p] = f
    <3>1. rows'[f] = NULL /\ versions'[f] = <<>>
      BY <1>1, <1>3, <2>1 DEF deleteRow
    <3> QED
      BY <3>1 DEF Numbers
  <2>2. CASE fn[p] # f
    <3>1. versions'[f] = versions[f]
      BY <1>1, <1>3, <2>2 DEF deleteRow
    <3> QED
      BY <3>1 DEF Numbers
  <2> QED
    BY <2>1, <2>2
<1>4. ASSUME NEW p \in Procs, insertVersion(p)
      PROVE  \/ Numbers(f)' = Numbers(f)
             \/ /\ pc[p] = "insertVersion" /\ fn[p] = f /\ rows[f] # NULL
                /\ Numbers(f)' = Numbers(f) \cup {max[p] + 1}
  <2>1. CASE rows[fn[p]] = NULL
    BY <1>4, <2>1 DEF insertVersion, Numbers
  <2>2. CASE fn[p] # f /\ rows[fn[p]] # NULL
    <3>1. versions'[f] = versions[f]
      BY <1>1, <1>4, <2>2 DEF insertVersion
    <3> QED
      BY <3>1 DEF Numbers
  <2>3. CASE fn[p] = f /\ rows[fn[p]] # NULL
    <3> DEFINE v == [version |-> max[p] + 1, source |-> snap[p]]
    <3>1. versions'[f] = Append(versions[f], v)
      BY <1>1, <1>4, <2>3 DEF insertVersion
    <3> HIDE DEF v
    <3>2. /\ DOMAIN versions[f] = 1..Len(versions[f])
          /\ Len(versions[f]) \in Nat
          /\ DOMAIN versions'[f] = 1..(Len(versions[f]) + 1)
          /\ \A i \in DOMAIN versions[f] : versions'[f][i] = versions[f][i]
          /\ versions'[f][Len(versions[f]) + 1] = v
      BY <1>1, <3>1
    <3>3. \A i : i \in DOMAIN versions'[f] <=>
                 i \in DOMAIN versions[f] \/ i = Len(versions[f]) + 1
      BY <3>2
    <3>4. v.version = max[p] + 1
      BY DEF v
    <3>5. Numbers(f)' = Numbers(f) \cup {max[p] + 1}
      BY <3>2, <3>3, <3>4 DEF Numbers
    <3> QED
      BY <3>5, <2>3, <1>4 DEF insertVersion
  <2> QED
    BY <2>1, <2>2, <2>3
<1> QED
  BY <1>2, <1>3, <1>4
     DEF Next, Request, Create, Update, Upload, DeployVersion, Delete, Continue,
         updateSource, openObject, writeObject, markReady, markError, readMax, readSource,
         deleteObject, UpdateRow, putFails, statementFails, Crash, stored, vars

NumbersInv == TypeInv /\ MadeOK /\ ReadMaxOK /\ VersionsContiguous

\* One more than a number read as the highest, or 1, leaves no gap.
LEMMA ContiguousStep ==
    ASSUME NumbersInv, [Next]_vars
    PROVE  VersionsContiguous'
<1> SUFFICES ASSUME NEW f \in Fns, NEW n \in Numbers(f)', NEW m \in 1..n
             PROVE  m \in Numbers(f)'
  BY DEF VersionsContiguous
<1>1. \A k \in Numbers(f) : k \in Nat /\ 1..k \subseteq Numbers(f)
  <2>1. Numbers(f) \subseteq Nat
    BY HighestNumber DEF NumbersInv, TypeInv, TypeOK
  <2> QED
    BY <2>1 DEF NumbersInv, VersionsContiguous
<1>2. CASE Numbers(f)' = Numbers(f)
  BY <1>1, <1>2
<1>3. CASE Numbers(f)' = {}
  BY <1>3
<1>4. ASSUME NEW p \in Procs, pc[p] = "insertVersion", fn[p] = f, rows[f] # NULL,
             Numbers(f)' = Numbers(f) \cup {max[p] + 1}
      PROVE  m \in Numbers(f)'
  <2>1. max[p] = 0 \/ max[p] \in Numbers(f)
    BY <1>4 DEF NumbersInv, ReadMaxOK
  <2>2. max[p] \in Nat /\ 1..max[p] \subseteq Numbers(f)
    BY <2>1, <1>1
  <2>3. CASE n \in Numbers(f)
    BY <2>3, <1>1, <1>4
  <2>4. CASE n = max[p] + 1
    <3>1. m \in 1..max[p] \/ m = max[p] + 1
      BY <2>2, <2>4
    <3> QED
      BY <3>1, <2>2, <1>4
  <2> QED
    BY <2>3, <2>4, <1>4
<1> QED
  BY <1>2, <1>3, <1>4, NumbersAfter DEF NumbersInv

\* What a call read as the highest number stays one of the numbers.
LEMMA ReadMaxStep ==
    ASSUME NumbersInv, [Next]_vars
    PROVE  ReadMaxOK'
<1> DEFINE Reading == {"readSource", "insertVersion"}
           Good(q) == IF pc'[q] \in Reading
                      THEN \A f \in Fns : fn'[q] = f /\ rows'[f] # NULL =>
                              max'[q] = 0 \/ max'[q] \in Numbers(f)'
                      ELSE max'[q] = 0
<1> SUFFICES \A q \in Procs : Good(q)
  BY DEF ReadMaxOK
<1> TAKE q \in Procs
<1>1. /\ pc \in [Procs -> Locations]
      /\ fn \in [Procs -> Fns \cup {NULL}]
      /\ max \in [Procs -> Nat]
      /\ \A p \in Procs : pc[p] # "idle" => fn[p] \in Fns /\ made[fn[p]] # NULL
  BY DEF NumbersInv, TypeInv, TypeOK, LocalsOK, ActiveOK, MadeOK
<1>2. IF pc[q] \in Reading
      THEN \A f \in Fns : fn[q] = f /\ rows[f] # NULL => max[q] = 0 \/ max[q] \in Numbers(f)
      ELSE max[q] = 0
  BY DEF NumbersInv, ReadMaxOK
<1>3. ASSUME pc'[q] = pc[q], fn'[q] = fn[q], max'[q] = max[q] PROVE Good(q)
  <2>1. CASE pc[q] \notin Reading
    BY <1>2, <1>3, <2>1
  <2>2. ASSUME pc[q] \in Reading, NEW f \in Fns, fn[q] = f, rows'[f] # NULL
        PROVE  max[q] = 0 \/ max[q] \in Numbers(f)'
    <3>1. made[f] # NULL
      BY <1>1, <2>2
    <3>2. rows[f] # NULL
      BY <3>1, <2>2, MadeStep DEF NumbersInv
    <3>3. Numbers(f) \subseteq Numbers(f)'
      BY <2>2, NumbersAfter DEF NumbersInv
    <3> QED
      BY <1>2, <2>2, <3>2, <3>3
  <2> QED
    BY <1>3, <2>1, <2>2
<1>4. ASSUME Request(q) PROVE Good(q)
  <2>1. pc[q] = "idle" /\ max' = max /\ pc'[q] \notin Reading
    BY <1>1, <1>4 DEF Request, Create, Update, Upload, DeployVersion, Delete, Begin, Goto,
                      AfterCompile
  <2> QED
    BY <2>1, <1>2
<1>5. CASE Return(q)
  BY <1>1, <1>5 DEF Return, Goto
<1>6. CASE readMax(q)
  <2>1. /\ fn'[q] = fn[q] /\ pc'[q] = "readSource" /\ versions' = versions
        /\ max'[q] = (IF Numbers(fn[q]) = {} THEN 0 ELSE Max(Numbers(fn[q])))
    BY <1>1, <1>6 DEF readMax, Goto, stored
  <2>2. ASSUME NEW f \in Fns, fn[q] = f PROVE max'[q] = 0 \/ max'[q] \in Numbers(f)'
    <3>1. Numbers(f)' = Numbers(f)
      BY <2>1 DEF Numbers
    <3> QED
      BY <2>1, <2>2, <3>1, HighestNumber DEF NumbersInv, TypeInv, TypeOK
  <2> QED
    BY <2>1, <2>2
<1>7. CASE readSource(q)
  <2>1. /\ fn'[q] = fn[q] /\ max' = max
        /\ pc[q] = "readSource" /\ pc'[q] = "insertVersion"
        /\ rows' = rows /\ versions' = versions
    BY <1>1, <1>7 DEF readSource, Goto, stored
  <2>2. \A f \in Fns : Numbers(f)' = Numbers(f)
    BY <2>1 DEF Numbers
  <2> QED
    BY <2>1, <2>2, <1>2
<1>8. CASE Continue(q) /\ ~Return(q) /\ ~readMax(q) /\ ~readSource(q)
  <2>1. max' = max /\ pc[q] \notin Reading /\ pc'[q] \notin Reading
    BY <1>1, <1>8 DEF Continue, updateSource, openObject, writeObject, markReady, markError,
           insertVersion, deleteObject, deleteRow, AfterReady, Goto, AfterCompile, locals
  <2> QED
    BY <2>1, <1>2
<1>9. CASE (putFails(q) \/ statementFails(q)) /\ ~Return(q)
  <2>1. fn' = fn /\ max' = max
    BY <1>9 DEF putFails, statementFails, AfterReady, locals
  <2>2. CASE pc[q] \in {"readMax", "readSource"}
    <3>1. rows' = rows /\ versions' = versions /\ pc'[q] \in Reading
      BY <1>1, <1>9, <2>2 DEF putFails, statementFails, Goto, stored
    <3>2. \A f \in Fns : Numbers(f)' = Numbers(f)
      BY <3>1 DEF Numbers
    <3>3. \A f \in Fns : fn[q] = f /\ rows[f] # NULL => max[q] = 0 \/ max[q] \in Numbers(f)
      BY <2>2, <1>2
    <3> QED
      BY <2>1, <3>1, <3>2, <3>3
  <2>3. CASE pc[q] \notin {"readMax", "readSource"}
    <3>1. pc[q] \notin Reading /\ pc'[q] \notin Reading
      BY <1>1, <1>9, <2>3 DEF putFails, statementFails, AfterReady, Goto
    <3> QED
      BY <2>1, <3>1, <1>2
  <2> QED
    BY <2>2, <2>3
<1>10. CASE Crash
  BY <1>10 DEF Crash
<1>11. CASE UNCHANGED vars
  BY <1>11, <1>3 DEF vars
<1>12. ASSUME NEW p \in Procs, p # q,
              Request(p) \/ Continue(p) \/ putFails(p) \/ statementFails(p)
       PROVE  Good(q)
  BY <1>12, <1>3, OthersStay DEF NumbersInv
<1> HIDE DEF Good
<1> QED
  BY <1>4, <1>5, <1>6, <1>7, <1>8, <1>9, <1>10, <1>11, <1>12 DEF Next

\* However createVersion's statements of different calls interleave or fail,
\* the version numbers of a function have no gaps.
THEOREM NoVersionGap == Spec => []VersionsContiguous
<1>1. Init => NumbersInv
  <2>1. Init => TypeInv
    BY TypeInit
  <2>2. Init => /\ rows = [f \in Fns |-> NULL]
                /\ versions = [f \in Fns |-> <<>>]
                /\ pc = [p \in Procs |-> "idle"]
                /\ max = [p \in Procs |-> 0]
    BY Zenon DEF Init
  <2>3. Init => MadeOK /\ ReadMaxOK
    BY <2>2 DEF MadeOK, ReadMaxOK
  <2>4. Init => VersionsContiguous
    <3>1. Init => \A f \in Fns : Numbers(f) = {}
      BY <2>2 DEF Numbers
    <3> QED
      BY <3>1 DEF VersionsContiguous
  <2> QED
    BY <2>1, <2>3, <2>4 DEF NumbersInv
<1>2. NumbersInv /\ [Next]_vars => NumbersInv'
  BY TypeStep, MadeStep, ReadMaxStep, ContiguousStep DEF NumbersInv
<1>3. NumbersInv => VersionsContiguous
  BY DEF NumbersInv
<1> QED
  BY <1>1, <1>2, <1>3, PTL DEF Spec

-----------------------------------------------------------------------------
(* A ready WASM function has a file.                                       *)

ObjectInv == TypeInv /\ MadeOK /\ ObjectOK

\* Where the file of a WASM function is missing, somebody is at it.
LEMMA MissingStep ==
    ASSUME ObjectInv, [Next]_vars, NEW f \in Fns, made'[f] = "go", rows'[f] # NULL,
           f \notin failed', objects'[f][".wasm"] = NULL
    PROVE  \E p \in Procs : fn'[p] = f /\ (pc'[p] = "deleteRow"
                                          \/ (pc'[p] = "openObject" /\ op'[p] = "Upload"))
<1> DEFINE Before == made[f] = "go" /\ rows[f] # NULL /\ f \notin failed
                     /\ objects[f][".wasm"] = NULL
           At(p) == fn[p] = f /\ (pc[p] = "deleteRow" \/ (pc[p] = "openObject" /\ op[p] = "Upload"))
           After(p) == fn'[p] = f /\ (pc'[p] = "deleteRow"
                                      \/ (pc'[p] = "openObject" /\ op'[p] = "Upload"))
<1>1. /\ pc \in [Procs -> Locations]
      /\ fn \in [Procs -> Fns \cup {NULL}]
      /\ op \in [Procs -> Operations \cup {NULL}]
      /\ ext \in [Procs -> Exts]
      /\ made \in [Fns -> Languages \cup {NULL}]
      /\ rows \in [Fns -> Function \cup {NULL}]
      /\ objects \in [Fns -> [Exts -> Content]]
      /\ \A p \in Procs : pc[p] # "idle" => fn[p] \in Fns
  BY DEF ObjectInv, TypeInv, TypeOK, LocalsOK, StoredOK, ActiveOK
<1>2. Before => \E p \in Procs : At(p)
  BY DEF ObjectInv, ObjectOK
<1>3. ASSUME NEW p \in Procs, NEW q \in Procs, At(q), q # p,
             Request(p) \/ Continue(p) \/ putFails(p) \/ statementFails(p)
      PROVE  After(q)
  <2>1. pc'[q] = pc[q] /\ fn'[q] = fn[q]
    BY <1>3, OthersStay DEF ObjectInv
  <2>2. op'[q] = op[q]
    <3>1. op' = op \/ \E o : op' = [op EXCEPT ![p] = o]
      BY <1>3 DEF Request, Create, Update, Upload, DeployVersion, Delete, Begin, Continue,
           updateSource, openObject, writeObject, markReady, markError, readMax, readSource,
           insertVersion, deleteObject, deleteRow, AfterReady, putFails, statementFails,
           Return, locals
    <3> QED
      BY <3>1, <1>1, <1>3
  <2> QED
    BY <2>1, <2>2, <1>3
<1>4. ASSUME UNCHANGED vars PROVE \E q \in Procs : After(q)
  BY <1>2, <1>4 DEF vars
<1>5. ASSUME NEW p \in Procs, Request(p) PROVE \E q \in Procs : After(q)
  <2>1. pc[p] = "idle" /\ failed' = failed /\ objects' = objects
    BY <1>5 DEF Request, Create, Update, Upload, DeployVersion, Delete, Begin, stored
  <2>2. CASE \E a \in Artifacts : Upload(p, f, a)
    BY <2>2, <1>1 DEF Upload, Begin, Goto
  <2>3. CASE ~ \E a \in Artifacts : Upload(p, f, a)
    <3>1. Before
      <4>1. CASE \E g \in Fns, s \in Sources : Create(p, g, s)
        <5>1. PICK g \in Fns, s \in Sources : Create(p, g, s)
          BY <4>1
        <5>2. g # f
          BY <5>1, <1>1 DEF Create
        <5> QED
          BY <5>1, <5>2, <2>1, <1>1 DEF Create
      <4>2. CASE \E g \in Fns, a \in Artifacts : Upload(p, g, a)
        <5>1. PICK g \in Fns, a \in Artifacts : Upload(p, g, a)
          BY <4>2
        <5>2. g # f
          BY <5>1, <2>3
        <5> QED
          BY <5>1, <5>2, <2>1, <1>1 DEF Upload
      <4>3. CASE UNCHANGED <<rows, made>>
        BY <4>3, <2>1
      <4> QED
        BY <1>5, <4>1, <4>2, <4>3 DEF Request, Update, DeployVersion, Delete, stored
    <3>2. PICK q \in Procs : At(q)
      BY <3>1, <1>2
    <3>3. q # p
      BY <3>2, <2>1
    <3> QED
      BY <3>2, <3>3, <1>3, <1>5
  <2> QED
    BY <2>2, <2>3
<1>6. ASSUME NEW p \in Procs, openObject(p) \/ writeObject(p)
      PROVE  \E q \in Procs : After(q)
  <2>1. pc[p] # "idle" /\ fn[p] \in Fns /\ rows' = rows /\ made' = made /\ failed' = failed
    BY <1>1, <1>6 DEF openObject, writeObject, counts
  <2>2. objects[f][".wasm"] = NULL
    <3>1. CASE openObject(p)
      <4>1. "empty" # NULL
        BY StoreAssumption DEF Broken
      <4>2. objects' = [objects EXCEPT ![fn[p]][ext[p]] = "empty"]
        BY <3>1 DEF openObject
      <4> QED
        BY <4>1, <4>2, <2>1, <1>1 DEF Exts
    <3>2. CASE writeObject(p) /\ fd[p]
      <4>1. arg[p] # NULL /\ "torn" # NULL
        BY <3>2, StoreAssumption DEF writeObject, ObjectInv, TypeInv, ActiveOK, Broken
      <4>2. PICK c \in {arg[p]} \cup {"torn"} : objects' = [objects EXCEPT ![fn[p]][ext[p]] = c]
        BY <3>2 DEF writeObject
      <4>3. c # NULL
        BY <4>1, <4>2
      <4> QED
        BY <4>2, <4>3, <2>1, <1>1 DEF Exts
    <3>3. CASE writeObject(p) /\ ~fd[p]
      BY <3>3 DEF writeObject
    <3> QED
      BY <1>6, <3>1, <3>2, <3>3
  <2>3. PICK q \in Procs : At(q)
    BY <2>1, <2>2, <1>2
  <2>4. q # p
    <3>1. CASE q = p
      <4>1. openObject(p) /\ op[p] = "Upload" /\ fn[p] = f /\ ext[p] = ".wasm"
        BY <1>6, <2>3, <3>1 DEF openObject, writeObject, ObjectInv, ObjectOK
      <4>2. objects'[f][".wasm"] = "empty"
        BY <4>1, <1>1 DEF openObject, Exts
      <4>3. "empty" # NULL
        BY StoreAssumption DEF Broken
      <4> QED
        BY <4>2, <4>3
    <3> QED
      BY <3>1
  <2> QED
    BY <2>3, <2>4, <1>3, <1>6 DEF Continue
<1>7. ASSUME NEW p \in Procs, Continue(p), ~openObject(p), ~writeObject(p)
      PROVE  \E q \in Procs : After(q)
  <2>1. pc[p] # "idle" /\ fn[p] \in Fns /\ made' = made /\ failed' = failed
    BY <1>1, <1>7 DEF Continue, updateSource, markReady, markError, readMax, readSource,
           insertVersion, deleteObject, deleteRow, UpdateRow, counts, stored
  <2>2. rows[f] # NULL
    <3>1. made[f] # NULL
      BY <2>1, StoreAssumption DEF Languages
    <3> QED
      BY <3>1, MadeStep DEF ObjectInv
  <2>3. CASE deleteObject(p) /\ fn[p] = f
    <3>1. fn'[p] = f /\ pc'[p] = "deleteRow"
      BY <2>3, <1>1, <1>7 DEF deleteObject, Goto
    <3> QED
      BY <3>1, <1>7
  <2>4. CASE ~(deleteObject(p) /\ fn[p] = f)
    <3>1. objects[f][".wasm"] = NULL
      BY <1>7, <2>1, <2>4, <1>1
         DEF Continue, updateSource, markReady, markError, readMax, readSource,
             insertVersion, deleteObject, deleteRow, UpdateRow, stored
    <3>2. PICK q \in Procs : At(q)
      BY <2>1, <2>2, <3>1, <1>2
    <3>3. q # p
      <4>1. CASE deleteRow(p)
        BY <4>1, <3>2, <1>1 DEF deleteRow
      <4>2. CASE ~deleteRow(p)
        BY <4>2, <3>2, <1>7 DEF Continue, updateSource, markReady, markError, readMax,
               readSource, insertVersion, deleteObject
      <4> QED
        BY <4>1, <4>2
    <3> QED
      BY <3>2, <3>3, <1>3, <1>7
  <2> QED
    BY <2>3, <2>4
<1>8. ASSUME NEW p \in Procs, putFails(p) \/ statementFails(p)
      PROVE  \E q \in Procs : After(q)
  <2>1. rows' = rows /\ made' = made /\ failed' = failed \cup {fn[p]} /\ fn[p] # f
    BY <1>8 DEF putFails, statementFails, Fault, stored
  <2>2. objects[f][".wasm"] = NULL
    BY <1>8, <1>1, <2>1 DEF putFails, statementFails, stored
  <2>3. PICK q \in Procs : At(q)
    BY <2>1, <2>2, <1>2
  <2> QED
    BY <2>1, <2>3, <1>3, <1>8
<1>9. ASSUME Crash PROVE FALSE
  <2>1. rows' = rows /\ made' = made /\ objects' = objects
        /\ failed' = failed \cup {g \in Fns : Busy(g)}
    BY <1>9 DEF Crash, Fault, stored
  <2>2. Busy(f)
    BY <2>1, <1>2 DEF Busy
  <2> QED
    BY <2>1, <2>2
<1> HIDE DEF After
<1>10. \E q \in Procs : After(q)
  BY <1>4, <1>5, <1>6, <1>7, <1>8, <1>9 DEF Next, Continue
<1> QED
  BY <1>10 DEF After

\* An upload writes the .wasm file.
LEMMA UploadExtStep ==
    ASSUME ObjectInv, [Next]_vars, NEW q \in Procs, op'[q] = "Upload"
    PROVE  ext'[q] = ".wasm"
<1>1. /\ op \in [Procs -> Operations \cup {NULL}]
      /\ ext \in [Procs -> Exts]
  BY DEF ObjectInv, TypeInv, TypeOK, LocalsOK
<1>2. op[q] = "Upload" => ext[q] = ".wasm"
  BY DEF ObjectInv, ObjectOK
<1>3. CASE UNCHANGED vars
  BY <1>2, <1>3 DEF vars
<1>4. ASSUME NEW p \in Procs, Request(p) PROVE ext'[q] = ".wasm"
  <2>1. PICK o \in Operations, x \in Exts :
           /\ op' = [op EXCEPT ![p] = o] /\ ext' = [ext EXCEPT ![p] = x]
           /\ o = "Upload" => x = ".wasm"
    BY <1>4 DEF Request, Create, Update, Upload, DeployVersion, Delete, Begin, Operations,
                Exts, artifactExt
  <2> QED
    BY <2>1, <1>1, <1>2
<1>5. ASSUME NEW p \in Procs, Continue(p) \/ putFails(p) \/ statementFails(p)
      PROVE  ext'[q] = ".wasm"
  <2>1. Return(p) \/ (op' = op /\ ext' = ext)
    BY <1>5 DEF Continue, updateSource, openObject, writeObject, markReady, markError, readMax,
           readSource, insertVersion, deleteObject, deleteRow, AfterReady, putFails,
           statementFails, locals
  <2>2. CASE Return(p)
    <3>1. op' = [op EXCEPT ![p] = NULL] /\ ext' = [ext EXCEPT ![p] = ".js"]
      BY <2>2 DEF Return
    <3>2. p # q
      BY <3>1, <1>1, StoreAssumption DEF Operations
    <3> QED
      BY <3>1, <3>2, <1>1, <1>2
  <2> QED
    BY <2>1, <2>2, <1>2
<1>6. CASE Crash
  BY <1>6, StoreAssumption DEF Crash, Operations
<1> QED
  BY <1>3, <1>4, <1>5, <1>6 DEF Next

\* However uploads, deployments and deletions of a WASM function overlap, it is
\* left without a file only by a fault.
THEOREM ReadyObject == Spec => []ReadyHasObject
<1>1. Init => ObjectInv
  <2>1. Init => TypeInv
    BY TypeInit
  <2>2. Init => /\ rows = [f \in Fns |-> NULL]
                /\ pc = [p \in Procs |-> "idle"]
                /\ op = [p \in Procs |-> NULL]
    BY Zenon DEF Init
  <2>3. Init => MadeOK /\ ObjectOK
    BY <2>2, StoreAssumption DEF MadeOK, ObjectOK, Operations
  <2> QED
    BY <2>1, <2>3 DEF ObjectInv
<1>2. ObjectInv /\ [Next]_vars => ObjectInv'
  <2> SUFFICES ASSUME ObjectInv, [Next]_vars PROVE ObjectInv'
    OBVIOUS
  <2>1. TypeInv' /\ MadeOK'
    BY TypeStep, MadeStep DEF ObjectInv
  <2>2. ObjectOK'
    BY MissingStep, UploadExtStep DEF ObjectOK
  <2> QED
    BY <2>1, <2>2 DEF ObjectInv
<1>3. ObjectInv => ReadyHasObject
  BY DEF ObjectInv, ObjectOK, ReadyHasObject, Busy
<1> QED
  BY <1>1, <1>2, <1>3, PTL DEF Spec

-----------------------------------------------------------------------------
(***************************************************************************)
(* Use by one caller at a time.  A function whose calls never overlapped   *)
(* and that no fault has hit has at most one call in progress; the         *)
(* invariant UseInv says what holds at each stage of that call and, when   *)
(* there is none, of the function at rest.                                 *)
(***************************************************************************)

\* Calls on f never overlapped, and no fault has hit it.
Clean(f) == made[f] # NULL /\ f \notin raced \cup failed

On(p, f) == pc[p] # "idle" /\ fn[p] = f

\* The extension of the artifact that f was created with.
Own(f) == IF made[f] = "go" THEN ".wasm" ELSE ".js"

\* Where a call stands that no fault has hit, by its operation.
Stages(o) ==
    CASE o = "Create" -> {"openObject", "writeObject", "markReady", "markError"}
      [] o = "Update" -> {"updateSource", "openObject", "writeObject", "markReady",
                          "markError", "readMax", "readSource", "insertVersion"}
      [] o = "Delete" -> {"deleteObject", "deleteRow"}
      [] OTHER        -> {"openObject", "writeObject", "markReady", "readMax",
                          "readSource", "insertVersion"}

\* What the language alone says of a row and its versions.
RowOK(f) ==
    /\ \A i \in DOMAIN versions[f] : versions[f][i].version = i
    /\ rows[f] # NULL /\ made[f] = "go" =>
          /\ rows[f].language = "go" /\ rows[f].source = ""
          /\ rows[f].status = "ready" /\ rows[f].runtime = "wasm"
          /\ \A i \in DOMAIN versions[f] : versions[f][i].source = ""
    /\ rows[f] # NULL /\ made[f] # "go" =>
          rows[f].language = "javascript" /\ rows[f].runtime # "wasm"

\* A JavaScript function to which no WASM was deployed.
Script(f) == made[f] # "go" /\ objects[f][".wasm"] = NULL

\* Its status, runtime and newest version fit its source.
Fits(f) ==
    /\ rows[f].status = IF rows[f].source \in Valid THEN "ready" ELSE "error"
    /\ rows[f].source \in Valid =>
          /\ rows[f].runtime = "js"
          /\ versions[f] # <<>> => versions[f][Len(versions[f])].source = rows[f].source

\* What a call on f promises of its own arguments ...
ArgsOK(p) ==
    LET f == fn[p] IN
    /\ pc[p] \in Stages(op[p])
    /\ op[p] \in {"Create", "Update"} =>
          made[f] # "go" /\ ext[p] = ".js" /\ arg[p] \in Sources
    /\ op[p] \in {"Upload", "DeployVersion"} => ext[p] = ".wasm" /\ arg[p] \in Artifacts
    /\ op[p] = "Upload" => made[f] = "go"
    /\ op[p] = "Delete" => ext[p] = Own(f)

\* ... of the file it works on ...
FileOK(p) ==
    LET f == fn[p] IN
    /\ pc[p] = "writeObject" => fd[p] /\ objects[f][ext[p]] = "empty"
    /\ pc[p] = "deleteRow" => objects[f][Own(f)] = NULL
    /\ op[p] = "DeployVersion" /\ pc[p] # "openObject" => objects[f][".wasm"] # NULL
    /\ made[f] = "go" /\ pc[p] \notin {"openObject", "writeObject", "deleteRow"} =>
          objects[f][".wasm"] \in Artifacts

\* ... of the version it is to record ...
RecordOK(p) ==
    LET f == fn[p] IN
    /\ pc[p] \in {"readSource", "insertVersion"} => max[p] = Len(versions[f])
    /\ pc[p] = "insertVersion" => snap[p] = rows[f].source

\* ... and of the source of a JavaScript function.
SourceOK(p) ==
    LET f == fn[p] IN
    Script(f) =>
       /\ op[p] \in {"Create", "Update"} /\ pc[p] \in {"openObject", "writeObject", "markReady"} =>
             rows[f].source \in Valid
       /\ op[p] = "Create" => versions[f] = <<>>
       /\ pc[p] = "markError" => rows[f].source \notin Valid
       /\ pc[p] \in {"readMax", "readSource", "insertVersion"} =>
             /\ rows[f].source \in Valid
             /\ rows[f].status = "ready" /\ rows[f].runtime = "js"
       /\ op[p] = "DeployVersion" \/ pc[p] = "deleteObject" => Fits(f)

CallOK(p) == rows[fn[p]] # NULL /\ ArgsOK(p) /\ FileOK(p) /\ RecordOK(p) /\ SourceOK(p)

\* A function at rest.
RestOK(f) ==
    /\ rows[f] = NULL => objects[f][Own(f)] = NULL
    /\ rows[f] # NULL /\ made[f] = "go" => objects[f][".wasm"] \in Artifacts
    /\ rows[f] # NULL /\ Script(f) => Fits(f)

\* Used by one caller at a time, a function is at rest as it should be, or the
\* one call on it is on its way there.
UseOK(f) ==
    /\ \A p, q \in Procs : On(p, f) /\ On(q, f) => p = q
    /\ RowOK(f)
    /\ \A p \in Procs : On(p, f) => CallOK(p)
    /\ ~Busy(f) => RestOK(f)

UseInv == \A f \in Fns : Clean(f) => UseOK(f)

UseOfInv == TypeInv /\ MadeOK /\ UseInv

\* The stored state of f, and what a call knows, that a step left alone.
SameStored(f) ==
    /\ rows'[f] = rows[f] /\ made'[f] = made[f]
    /\ versions'[f] = versions[f] /\ objects'[f] = objects[f]

SameCall(q) ==
    /\ pc'[q] = pc[q] /\ op'[q] = op[q] /\ fn'[q] = fn[q] /\ arg'[q] = arg[q]
    /\ ext'[q] = ext[q] /\ fd'[q] = fd[q] /\ max'[q] = max[q] /\ snap'[q] = snap[q]

\* A function that a step does not touch.
LEMMA Untouched ==
    ASSUME NEW f, UseOK(f), SameStored(f),
           \A q \in Procs : On(q, f) \/ On(q, f)' => SameCall(q)
    PROVE  UseOK(f)'
<1>1. \A q \in Procs : On(q, f)' <=> On(q, f)
  BY DEF On, SameCall
<1>2. RowOK(f)' /\ (RestOK(f) => RestOK(f)') /\ (Busy(f)' <=> Busy(f))
  <2>1. RowOK(f)'
    BY DEF UseOK, RowOK, SameStored
  <2>2. RestOK(f) => RestOK(f)'
    BY DEF RestOK, Script, Fits, Own, SameStored
  <2>3. Busy(f)' <=> Busy(f)
    BY <1>1 DEF Busy, On
  <2> QED
    BY <2>1, <2>2, <2>3
<1>3. ASSUME NEW q \in Procs, On(q, f)' PROVE CallOK(q)'
  <2>1. On(q, f) /\ SameCall(q) /\ CallOK(q) /\ fn[q] = f
    BY <1>1, <1>3 DEF UseOK, On
  <2>2. ArgsOK(q)'
    BY <2>1 DEF CallOK, ArgsOK, SameCall, SameStored, Own, Stages
  <2>3. FileOK(q)'
    BY <2>1 DEF CallOK, FileOK, SameCall, SameStored, Own
  <2>4. RecordOK(q)'
    BY <2>1 DEF CallOK, RecordOK, SameCall, SameStored
  <2>5. SourceOK(q)'
    BY <2>1 DEF CallOK, SourceOK, SameCall, SameStored, Script, Fits
  <2> QED
    BY <2>1, <2>2, <2>3, <2>4, <2>5 DEF CallOK, SameCall, SameStored
<1> QED
  BY <1>1, <1>2, <1>3 DEF UseOK

\* The function that the step of its only call leaves as it should be.
LEMMA OnlyCall ==
    ASSUME NEW f, NEW p \in Procs,
           \A q \in Procs \ {p} : ~On(q, f)',
           RowOK(f)',
           On(p, f)' => CallOK(p)',
           ~On(p, f)' => RestOK(f)'
    PROVE  UseOK(f)'
BY DEF UseOK, Busy, On

\* A function without versions has none to speak of.
LEMMA NoVersions ==
    ASSUME NEW v, v = <<>>
    PROVE  DOMAIN v = {}
OBVIOUS

\* The highest number of versions numbered in order.
LEMMA NumberedInOrder ==
    ASSUME StoredOK, NEW f \in Fns,
           \A i \in DOMAIN versions[f] : versions[f][i].version = i
    PROVE  (IF Numbers(f) = {} THEN 0 ELSE Max(Numbers(f))) = Len(versions[f])
<1>1. versions[f] \in Seq(FunctionVersion)
  BY DEF StoredOK
<1> DEFINE n == Len(versions[f])
<1>2. n \in Nat /\ DOMAIN versions[f] = 1..n
  BY <1>1
<1>3. Numbers(f) = 1..n
  BY <1>2 DEF Numbers
<1> HIDE DEF n
<1>4. CASE n = 0
  BY <1>3, <1>4 DEF n
<1>5. CASE n # 0
  <2>1. n \in 1..n /\ \A m \in 1..n : n >= m
    BY <1>2, <1>5
  <2>2. \A x \in 1..n : (\A m \in 1..n : x >= m) => x = n
    BY <1>2, <1>5
  <2>3. Max(1..n) = n
    BY <2>1, <2>2 DEF Max
  <2> QED
    BY <1>3, <2>1, <2>3 DEF n
<1> QED
  BY <1>4, <1>5

\* A call that begins on f is the only one, or f is not clean any more.
LEMMA BeginUse ==
    ASSUME UseOfInv, NEW p \in Procs, NEW o, NEW f \in Fns, NEW a, NEW x, NEW l,
           o \in Operations, x \in Exts, l \in Locations \ {"idle"},
           Begin(p, o, f, a, x, l)
    PROVE  /\ pc'[p] = l /\ op'[p] = o /\ fn'[p] = f /\ arg'[p] = a /\ ext'[p] = x
           /\ \A q \in Procs \ {p} : SameCall(q)
           /\ raced \subseteq raced' /\ failed' = failed
           /\ f \notin raced' => ~Busy(f) /\ \A q \in Procs \ {p} : ~On(q, f)'
<1>1. /\ pc \in [Procs -> Locations] /\ op \in [Procs -> Operations \cup {NULL}]
      /\ fn \in [Procs -> Fns \cup {NULL}]
      /\ arg \in [Procs -> Sources \cup Artifacts \cup {NULL}]
      /\ ext \in [Procs -> Exts]
  BY DEF UseOfInv, TypeInv, TypeOK, LocalsOK
<1>2. /\ pc' = [pc EXCEPT ![p] = l] /\ op' = [op EXCEPT ![p] = o]
      /\ fn' = [fn EXCEPT ![p] = f] /\ arg' = [arg EXCEPT ![p] = a]
      /\ ext' = [ext EXCEPT ![p] = x]
      /\ UNCHANGED <<fd, max, snap, failed>>
      /\ raced' = IF Busy(f) THEN raced \cup {f} ELSE raced
  BY DEF Begin, Goto
<1>3. /\ pc'[p] = l /\ op'[p] = o /\ fn'[p] = f /\ arg'[p] = a /\ ext'[p] = x
  BY <1>1, <1>2
<1>4. ASSUME NEW q \in Procs \ {p} PROVE SameCall(q)
  BY <1>1, <1>2 DEF SameCall
<1>5. ASSUME f \notin raced' PROVE ~Busy(f) /\ \A q \in Procs \ {p} : ~On(q, f)'
  <2>1. ~Busy(f)
    BY <1>2, <1>5
  <2> QED
    BY <2>1, <1>4 DEF Busy, On, SameCall
<1> QED
  BY <1>2, <1>3, <1>4, <1>5

\* The first step of a call on f, or of one on another function.
LEMMA RequestUse ==
    ASSUME UseOfInv, NEW p \in Procs, Request(p), NEW f \in Fns, Clean(f)'
    PROVE  UseOK(f)'
<1>1. /\ rows \in [Fns -> Function \cup {NULL}]
      /\ made \in [Fns -> Languages \cup {NULL}]
      /\ objects \in [Fns -> [Exts -> Content]]
      /\ pc[p] = "idle"
  BY DEF UseOfInv, TypeInv, TypeOK, StoredOK, Request, Create, Update, Upload, DeployVersion,
         Delete, Begin
<1>2. ASSUME SameStored(f), \A q \in Procs \ {p} : SameCall(q), ~On(p, f)',
             raced \subseteq raced', failed' = failed
      PROVE  UseOK(f)'
  <2>1. Clean(f) /\ UseOK(f)
    BY <1>2 DEF Clean, SameStored, UseOfInv, UseInv
  <2>2. ~On(p, f)
    BY <1>1 DEF On
  <2> QED
    BY <1>2, <2>1, <2>2, Untouched
\* A call on a function that exists already finds it at rest.
<1>3. ASSUME UNCHANGED stored, rows[f] # NULL, ~Busy(f), raced \subseteq raced',
             failed' = failed
      PROVE  /\ SameStored(f) /\ rows[f] \in Function /\ RowOK(f)' /\ RestOK(f)
             /\ RowOK(f)
  <2>1. SameStored(f) /\ rows[f] \in Function
    BY <1>1, <1>3 DEF SameStored, stored
  <2>2. Clean(f)
    BY <1>3, <2>1 DEF Clean, SameStored
  <2>3. UseOK(f)
    BY <2>2 DEF UseOfInv, UseInv
  <2>4. RowOK(f)'
    BY <2>1, <2>3 DEF UseOK, RowOK, SameStored
  <2> QED
    BY <1>3, <2>1, <2>3, <2>4 DEF UseOK
<1>4. ASSUME NEW g \in Fns, NEW s \in Sources, Create(p, g, s) PROVE UseOK(f)'
  <2> DEFINE l == AfterCompile(s)
             r == [language |-> "javascript", source |-> s, runtime |-> "",
                   status |-> "compiling"]
  <2>1. l \in {"openObject", "markError"} /\ (l = "openObject" <=> s \in Valid)
    BY DEF AfterCompile
  <2>2. /\ made[g] = NULL
        /\ Begin(p, "Create", g, s, ".js", l)
        /\ rows' = [rows EXCEPT ![g] = r]
        /\ made' = [made EXCEPT ![g] = "javascript"]
        /\ UNCHANGED <<versions, objects>>
    BY <1>4 DEF Create
  <2>3. l \in Locations \ {"idle"} /\ "Create" \in Operations /\ ".js" \in Exts
    BY <2>1 DEF Locations, Operations, Exts
  <2> HIDE DEF l
  <2>4. /\ pc'[p] = l /\ op'[p] = "Create" /\ fn'[p] = g /\ arg'[p] = s /\ ext'[p] = ".js"
        /\ \A q \in Procs \ {p} : SameCall(q)
        /\ raced \subseteq raced' /\ failed' = failed
        /\ g \notin raced' => ~Busy(g) /\ \A q \in Procs \ {p} : ~On(q, g)'
    BY <2>2, <2>3, BeginUse
  <2>5. CASE g # f
    BY <2>2, <2>4, <2>5, <1>1, <1>2 DEF SameStored, On
  <2>6. CASE g = f
    <3>1. \A q \in Procs \ {p} : ~On(q, f)'
      BY <2>4, <2>6 DEF Clean
    <3>2. /\ rows'[f] = r /\ rows'[f].source = s /\ rows'[f].language = "javascript"
          /\ rows'[f].runtime = "" /\ made'[f] = "javascript"
      BY <2>2, <2>6, <1>1
    <3>3. versions'[f] = <<>>
      <4>1. rows[f] = NULL
        BY <2>2, <2>6 DEF UseOfInv, MadeOK
      <4>2. versions[f] = <<>>
        BY <4>1 DEF UseOfInv, TypeInv, TypeOK, StoredOK
      <4> QED
        BY <2>2, <2>6, <4>2
    <3>4. r # NULL
      <4>1. r \in Function
        BY DEF Function, Languages, Runtimes, SourceText
      <4> QED
        BY <4>1, StoreAssumption
    <3>5. RowOK(f)'
      <4>1. DOMAIN versions'[f] = {}
        BY <3>3, NoVersions, Zenon
      <4> QED
        BY <3>2, <4>1 DEF RowOK
    <3>6. CallOK(p)'
      <4>1. ArgsOK(p)'
        BY <2>1, <2>4, <2>6, <3>2 DEF ArgsOK, Stages
      <4>2. FileOK(p)'
        BY <2>1, <2>4, <2>6, <3>2 DEF FileOK
      <4>3. RecordOK(p)'
        BY <2>1, <2>4 DEF RecordOK
      <4>4. SourceOK(p)'
        BY <2>1, <2>4, <2>6, <3>2, <3>3 DEF SourceOK
      <4> QED
        BY <2>4, <2>6, <3>2, <3>4, <4>1, <4>2, <4>3, <4>4 DEF CallOK
    <3>7. On(p, f)'
      BY <2>1, <2>4, <2>6 DEF On
    <3> QED
      BY <3>1, <3>5, <3>6, <3>7, OnlyCall
  <2> QED
    BY <2>5, <2>6
<1>5. ASSUME NEW g \in Fns, NEW a \in Artifacts, Upload(p, g, a) PROVE UseOK(f)'
  <2> DEFINE r == [language |-> "go", source |-> "", runtime |-> "wasm", status |-> "ready"]
  <2>1. /\ made[g] = NULL
        /\ Begin(p, "Upload", g, a, ".wasm", "openObject")
        /\ rows' = [rows EXCEPT ![g] = r]
        /\ made' = [made EXCEPT ![g] = "go"]
        /\ UNCHANGED <<versions, objects>>
    BY <1>5 DEF Upload
  <2>2. "openObject" \in Locations \ {"idle"} /\ "Upload" \in Operations /\ ".wasm" \in Exts
    BY DEF Locations, Operations, Exts
  <2>3. /\ pc'[p] = "openObject" /\ op'[p] = "Upload" /\ fn'[p] = g /\ arg'[p] = a
        /\ ext'[p] = ".wasm"
        /\ \A q \in Procs \ {p} : SameCall(q)
        /\ raced \subseteq raced' /\ failed' = failed
        /\ g \notin raced' => ~Busy(g) /\ \A q \in Procs \ {p} : ~On(q, g)'
    BY <2>1, <2>2, BeginUse
  <2>4. CASE g # f
    BY <2>1, <2>3, <2>4, <1>1, <1>2 DEF SameStored, On
  <2>5. CASE g = f
    <3>1. \A q \in Procs \ {p} : ~On(q, f)'
      BY <2>3, <2>5 DEF Clean
    <3>2. /\ rows'[f] = r /\ rows'[f].source = "" /\ rows'[f].language = "go"
          /\ rows'[f].runtime = "wasm" /\ rows'[f].status = "ready" /\ made'[f] = "go"
      BY <2>1, <2>5, <1>1
    <3>3. versions'[f] = <<>>
      <4>1. rows[f] = NULL
        BY <2>1, <2>5 DEF UseOfInv, MadeOK
      <4>2. versions[f] = <<>>
        BY <4>1 DEF UseOfInv, TypeInv, TypeOK, StoredOK
      <4> QED
        BY <2>1, <2>5, <4>2
    <3>4. r # NULL
      <4>1. r \in Function
        BY DEF Function, Languages, Runtimes, SourceText
      <4> QED
        BY <4>1, StoreAssumption
    <3>5. RowOK(f)'
      <4>1. DOMAIN versions'[f] = {}
        BY <3>3, NoVersions, Zenon
      <4> QED
        BY <3>2, <4>1 DEF RowOK
    <3>6. CallOK(p)'
      <4>1. ArgsOK(p)'
        BY <2>3, <2>5, <3>2 DEF ArgsOK, Stages
      <4>2. FileOK(p)'
        BY <2>3, <2>5, <3>2 DEF FileOK
      <4>3. RecordOK(p)'
        BY <2>3 DEF RecordOK
      <4>4. SourceOK(p)'
        BY <2>3, <2>5, <3>2 DEF SourceOK, Script
      <4> QED
        BY <2>3, <2>5, <3>2, <3>4, <4>1, <4>2, <4>3, <4>4 DEF CallOK
    <3>7. On(p, f)'
      BY <2>3, <2>5 DEF On
    <3> QED
      BY <3>1, <3>5, <3>6, <3>7, OnlyCall
  <2> QED
    BY <2>4, <2>5
\* The operations on a function that exists: only the call is new.
<1>6. ASSUME NEW g \in Fns, NEW o \in Operations, NEW a, NEW x \in Exts,
             NEW l \in Locations \ {"idle"},
             Begin(p, o, g, a, x, l), UNCHANGED stored, rows[g] # NULL,
             g = f /\ SameStored(f) /\ RowOK(f) /\ RestOK(f)
                   /\ pc'[p] = l /\ op'[p] = o /\ fn'[p] = g /\ arg'[p] = a /\ ext'[p] = x
                => ArgsOK(p)' /\ FileOK(p)' /\ RecordOK(p)' /\ SourceOK(p)'
      PROVE  UseOK(f)'
  <2>1. /\ pc'[p] = l /\ op'[p] = o /\ fn'[p] = g /\ arg'[p] = a /\ ext'[p] = x
        /\ \A q \in Procs \ {p} : SameCall(q)
        /\ raced \subseteq raced' /\ failed' = failed
        /\ g \notin raced' => ~Busy(g) /\ \A q \in Procs \ {p} : ~On(q, g)'
    BY <1>6, BeginUse
  <2>2. CASE g # f
    BY <2>1, <2>2, <1>2, <1>6 DEF SameStored, On, stored
  <2>3. CASE g = f
    <3>1. ~Busy(f) /\ \A q \in Procs \ {p} : ~On(q, f)'
      BY <2>1, <2>3 DEF Clean
    <3>2. SameStored(f) /\ RowOK(f)' /\ RowOK(f) /\ RestOK(f)
      BY <2>1, <2>3, <3>1, <1>3, <1>6
    <3>3. CallOK(p)'
      BY <2>1, <2>3, <3>2, <1>6 DEF CallOK, SameStored
    <3>4. On(p, f)'
      BY <2>1, <2>3 DEF On
    <3> QED
      BY <3>1, <3>2, <3>3, <3>4, OnlyCall
  <2> QED
    BY <2>2, <2>3
<1>7. ASSUME NEW g \in Fns, NEW a \in Artifacts, DeployVersion(p, g, a) PROVE UseOK(f)'
  <2>1. /\ rows[g] # NULL /\ UNCHANGED stored
        /\ Begin(p, "DeployVersion", g, a, ".wasm", "openObject")
    BY <1>7 DEF DeployVersion
  <2>2. ASSUME g = f, SameStored(f), RowOK(f), RestOK(f), pc'[p] = "openObject",
               op'[p] = "DeployVersion", fn'[p] = g, arg'[p] = a, ext'[p] = ".wasm"
        PROVE  ArgsOK(p)' /\ FileOK(p)' /\ RecordOK(p)' /\ SourceOK(p)'
    <3>1. ArgsOK(p)' /\ FileOK(p)' /\ RecordOK(p)'
      BY <2>2 DEF ArgsOK, Stages, FileOK, RecordOK
    <3>2. SourceOK(p)'
      BY <2>1, <2>2 DEF SourceOK, Script, Fits, RestOK, SameStored
    <3> QED
      BY <3>1, <3>2
  <2>3. "openObject" \in Locations \ {"idle"} /\ "DeployVersion" \in Operations
        /\ ".wasm" \in Exts
    BY DEF Locations, Operations, Exts
  <2> QED
    BY <2>1, <2>2, <2>3, <1>6
<1>8. ASSUME NEW g \in Fns, NEW s \in Sources, Update(p, g, s) PROVE UseOK(f)'
  <2>1. /\ rows[g] # NULL /\ rows[g].language = "javascript" /\ UNCHANGED stored
        /\ Begin(p, "Update", g, s, ".js", "updateSource")
    BY <1>8 DEF Update
  <2>2. ASSUME g = f, SameStored(f), RowOK(f), RestOK(f), pc'[p] = "updateSource",
               op'[p] = "Update", fn'[p] = g, arg'[p] = s, ext'[p] = ".js"
        PROVE  ArgsOK(p)' /\ FileOK(p)' /\ RecordOK(p)' /\ SourceOK(p)'
    <3>1. made'[f] # "go"
      BY <2>1, <2>2 DEF RowOK, SameStored
    <3>2. ArgsOK(p)' /\ FileOK(p)' /\ RecordOK(p)'
      BY <2>2, <3>1 DEF ArgsOK, Stages, FileOK, RecordOK
    <3>3. SourceOK(p)'
      BY <2>2 DEF SourceOK
    <3> QED
      BY <3>2, <3>3
  <2>3. "updateSource" \in Locations \ {"idle"} /\ "Update" \in Operations /\ ".js" \in Exts
    BY DEF Locations, Operations, Exts
  <2> QED
    BY <2>1, <2>2, <2>3, <1>6
<1>9. ASSUME NEW g \in Fns, Delete(p, g) PROVE UseOK(f)'
  <2> DEFINE x == artifactExt(rows[g].runtime)
  <2>1. /\ rows[g] # NULL /\ UNCHANGED stored
        /\ Begin(p, "Delete", g, NULL, x, "deleteObject")
    BY <1>9 DEF Delete
  <2>2. "deleteObject" \in Locations \ {"idle"} /\ "Delete" \in Operations /\ x \in Exts
    BY DEF Locations, Operations, Exts, artifactExt
  <2>3. g = f /\ RowOK(f) => x = Own(f)
    BY <2>1 DEF RowOK, Own, artifactExt
  <2> HIDE DEF x
  <2>4. ASSUME g = f, SameStored(f), RowOK(f), RestOK(f), pc'[p] = "deleteObject",
               op'[p] = "Delete", fn'[p] = g, arg'[p] = NULL, ext'[p] = x
        PROVE  ArgsOK(p)' /\ FileOK(p)' /\ RecordOK(p)' /\ SourceOK(p)'
    <3>1. ArgsOK(p)'
      BY <2>3, <2>4 DEF ArgsOK, Stages, Own, SameStored
    <3>2. FileOK(p)' /\ RecordOK(p)'
      BY <2>1, <2>4 DEF FileOK, RecordOK, RestOK, SameStored
    <3>3. SourceOK(p)'
      BY <2>1, <2>4 DEF SourceOK, Script, Fits, RestOK, SameStored
    <3> QED
      BY <3>1, <3>2, <3>3
  <2> QED
    BY <2>1, <2>2, <2>4, <1>6
<1> QED
  BY <1>4, <1>5, <1>7, <1>8, <1>9 DEF Request

\* The call that is on f, before a step of it, and what the step has to leave.
Held(p, f) ==
    /\ fn[p] = f /\ pc[p] # "idle" /\ rows[f] \in Function
    /\ CallOK(p) /\ RowOK(f)

Left(p, f) ==
    /\ RowOK(f)'
    /\ pc'[p] # "idle" => fn'[p] = f /\ CallOK(p)'
    /\ pc'[p] = "idle" => RestOK(f)'

LEMMA updateSourceUse ==
    ASSUME TypeInv, NEW p \in Procs, NEW f \in Fns, Held(p, f), updateSource(p)
    PROVE  Left(p, f)
<1> DEFINE l == AfterCompile(arg[p])
<1>1. /\ pc[p] = "updateSource" /\ fn[p] = f /\ rows[f] \in Function /\ rows[f] # NULL
      /\ CallOK(p) /\ RowOK(f)
  BY DEF updateSource, Held, CallOK
<1>2. /\ rows' = [rows EXCEPT ![f] = [rows[f] EXCEPT !.source = arg[p], !.status = "compiling"]]
      /\ pc' = [pc EXCEPT ![p] = l]
      /\ UNCHANGED <<made, versions, objects, op, fn, arg, ext, fd, max, snap>>
  BY <1>1 DEF updateSource, UpdateRow, Goto, locals
<1>3. op[p] = "Update" /\ made[f] # "go" /\ ext[p] = ".js" /\ arg[p] \in Sources
  BY <1>1 DEF CallOK, ArgsOK, Stages
<1>4. l \in {"openObject", "markError"} /\ (l = "openObject" <=> arg[p] \in Valid)
  BY DEF AfterCompile
<1> HIDE DEF l
<1>5. /\ rows'[f].source = arg[p] /\ rows'[f].language = rows[f].language
      /\ rows'[f].runtime = rows[f].runtime /\ rows'[f] # NULL /\ pc'[p] = l
  <2> DEFINE r == [rows[f] EXCEPT !.source = arg[p], !.status = "compiling"]
  <2>1. /\ r \in Function /\ r.source = arg[p] /\ r.language = rows[f].language
        /\ r.runtime = rows[f].runtime
    BY <1>1, <1>3 DEF Function, SourceText
  <2>2. rows'[f] = r /\ pc'[p] = l
    <3> HIDE DEF r
    <3>1. rows' = [rows EXCEPT ![f] = r]
      BY <1>2 DEF r
    <3> QED
      BY <3>1, <1>2 DEF TypeInv, TypeOK, StoredOK, LocalsOK
  <2> HIDE DEF r
  <2> QED
    BY <2>1, <2>2, StoreAssumption
<1>6. RowOK(f)'
  BY <1>1, <1>2, <1>3, <1>5 DEF RowOK
<1>7. ArgsOK(p)' /\ FileOK(p)' /\ RecordOK(p)'
  BY <1>1, <1>2, <1>3, <1>4, <1>5 DEF ArgsOK, Stages, FileOK, RecordOK
<1>8. SourceOK(p)'
  BY <1>1, <1>2, <1>3, <1>4, <1>5 DEF SourceOK
<1> QED
  BY <1>1, <1>2, <1>4, <1>5, <1>6, <1>7, <1>8 DEF Left, CallOK

LEMMA openObjectUse ==
    ASSUME TypeInv, NEW p \in Procs, NEW f \in Fns, Held(p, f), openObject(p)
    PROVE  Left(p, f)
<1>1. /\ pc[p] = "openObject" /\ fn[p] = f /\ rows[f] # NULL
      /\ CallOK(p) /\ RowOK(f) /\ ext[p] \in Exts
  BY DEF openObject, Held, CallOK, TypeInv, TypeOK, LocalsOK
<1>2. /\ objects' = [objects EXCEPT ![f][ext[p]] = "empty"]
      /\ fd' = [fd EXCEPT ![p] = TRUE] /\ pc' = [pc EXCEPT ![p] = "writeObject"]
      /\ UNCHANGED <<rows, made, versions, op, fn, arg, ext, max, snap>>
  BY <1>1 DEF openObject, Goto
<1>3. /\ objects'[f][ext[p]] = "empty" /\ fd'[p] /\ pc'[p] = "writeObject"
      /\ \A x \in Exts \ {ext[p]} : objects'[f][x] = objects[f][x]
      /\ "empty" # NULL
  BY <1>1, <1>2, StoreAssumption DEF TypeInv, TypeOK, StoredOK, LocalsOK, Broken
<1>4. RowOK(f)'
  BY <1>1, <1>2 DEF RowOK
<1>5. ArgsOK(p)'
  BY <1>1, <1>2, <1>3 DEF CallOK, ArgsOK, Stages, Own
<1>6. FileOK(p)'
  BY <1>1, <1>2, <1>3 DEF CallOK, ArgsOK, FileOK
<1>7. RecordOK(p)'
  BY <1>3 DEF RecordOK
<1>8. SourceOK(p)'
  <2>1. SUFFICES ASSUME Script(f)' PROVE SourceOK(p)'
    BY <1>1, <1>2 DEF SourceOK
  <2>2. op[p] \notin {"Upload", "DeployVersion"}
    BY <1>1, <1>2, <1>3, <2>1 DEF CallOK, ArgsOK, Script
  <2>3. Script(f)
    BY <1>1, <1>2, <1>3, <2>1, <2>2 DEF CallOK, ArgsOK, Stages, Script, Exts
  <2> QED
    BY <1>1, <1>2, <1>3, <2>2, <2>3 DEF CallOK, SourceOK
<1> QED
  BY <1>1, <1>2, <1>3, <1>4, <1>5, <1>6, <1>7, <1>8 DEF Left, CallOK

LEMMA writeObjectUse ==
    ASSUME TypeInv, NEW p \in Procs, NEW f \in Fns, Held(p, f), writeObject(p)
    PROVE  Left(p, f)
<1>1. /\ pc[p] = "writeObject" /\ fn[p] = f /\ rows[f] # NULL
      /\ CallOK(p) /\ RowOK(f) /\ ext[p] \in Exts
  BY DEF writeObject, Held, CallOK, TypeInv, TypeOK, LocalsOK
<1>2. fd[p] /\ objects[f][ext[p]] = "empty"
  BY <1>1 DEF CallOK, FileOK
<1>3. /\ objects' = [objects EXCEPT ![f][ext[p]] = arg[p]]
      /\ pc' = [pc EXCEPT ![p] = "markReady"]
      /\ UNCHANGED <<rows, made, versions, op, fn, arg, ext, fd, max, snap>>
  <2>1. PICK c \in {arg[p]} \cup (IF "empty" \in {"empty", arg[p]} THEN {} ELSE {"torn"}) :
           objects' = [objects EXCEPT ![f][ext[p]] = c]
    BY <1>1, <1>2 DEF writeObject
  <2>2. c = arg[p]
    BY <2>1
  <2> QED
    BY <1>1, <2>1, <2>2 DEF writeObject, Goto, locals
<1>4. /\ objects'[f][ext[p]] = arg[p] /\ pc'[p] = "markReady"
      /\ \A x \in Exts \ {ext[p]} : objects'[f][x] = objects[f][x]
  BY <1>1, <1>3 DEF TypeInv, TypeOK, StoredOK, LocalsOK
<1>5. RowOK(f)'
  BY <1>1, <1>3 DEF RowOK
<1>6. ArgsOK(p)'
  BY <1>1, <1>3, <1>4 DEF CallOK, ArgsOK, Stages, Own
<1>7. FileOK(p)'
  <2>1. made[f] = "go" => op[p] \in {"Upload", "DeployVersion"}
    BY <1>1 DEF CallOK, ArgsOK, Stages, TypeInv, ActiveOK, Operations
  <2>2. op[p] \in {"Upload", "DeployVersion"} =>
           ext[p] = ".wasm" /\ arg[p] \in Artifacts /\ arg[p] # NULL
    BY <1>1, StoreAssumption DEF CallOK, ArgsOK
  <2> QED
    BY <1>1, <1>3, <1>4, <2>1, <2>2 DEF FileOK
<1>8. RecordOK(p)'
  BY <1>4 DEF RecordOK
<1>9. SourceOK(p)'
  <2>1. SUFFICES ASSUME Script(f)' PROVE SourceOK(p)'
    BY <1>1, <1>3 DEF SourceOK
  <2>2. op[p] \notin {"Upload", "DeployVersion"}
    BY <1>1, <1>3, <1>4, <2>1, StoreAssumption DEF CallOK, ArgsOK, Script
  <2>3. Script(f)
    <3>1. op[p] \in {"Create", "Update"}
      BY <1>1, <2>2 DEF CallOK, ArgsOK, Stages, TypeInv, ActiveOK, Operations
    <3>2. ext[p] = ".js" /\ made[f] # "go"
      BY <1>1, <3>1 DEF CallOK, ArgsOK
    <3> QED
      BY <1>3, <1>4, <2>1, <3>2 DEF Script, Exts
  <2> QED
    BY <1>1, <1>3, <1>4, <2>2, <2>3 DEF CallOK, SourceOK
<1> QED
  BY <1>1, <1>3, <1>4, <1>5, <1>6, <1>7, <1>8, <1>9 DEF Left, CallOK

LEMMA markReadyUse ==
    ASSUME TypeInv, NEW p \in Procs, NEW f \in Fns, Held(p, f), markReady(p)
    PROVE  Left(p, f)
<1> DEFINE rt == CASE op[p] = "DeployVersion" -> rows[f].runtime
                   [] op[p] = "Upload"        -> "wasm"
                   [] OTHER                   -> "js"
           r == [rows[f] EXCEPT !.status = "ready", !.runtime = rt]
<1>1. /\ pc[p] = "markReady" /\ fn[p] = f /\ rows[f] \in Function /\ rows[f] # NULL
      /\ CallOK(p) /\ RowOK(f)
  BY DEF markReady, Held, CallOK
<1>2. /\ rows' = [rows EXCEPT ![f] = r]
      /\ UNCHANGED <<made, versions, objects>>
  <2>1. r = [rows[f] EXCEPT !.status = "ready",
                !.runtime = CASE op[p] = "DeployVersion" -> @
                              [] op[p] = "Upload"        -> "wasm"
                              [] OTHER                   -> "js"]
    OBVIOUS
  <2> HIDE DEF r
  <2> QED
    BY <1>1, <2>1 DEF markReady, UpdateRow
<1>3. /\ op[p] = "Upload" => rt = "wasm" /\ made[f] = "go"
      /\ op[p] = "DeployVersion" => rt = rows[f].runtime
      /\ op[p] \in {"Create", "Update"} => rt = "js" /\ made[f] # "go"
      /\ op[p] \in {"Upload", "DeployVersion", "Create", "Update"}
      /\ rt \in Runtimes
  <2>1. op[p] \in {"Upload", "DeployVersion", "Create", "Update"}
    BY <1>1 DEF CallOK, ArgsOK, Stages, TypeInv, ActiveOK, Operations
  <2> QED
    BY <1>1, <2>1 DEF CallOK, ArgsOK, Runtimes, Function
<1> HIDE DEF rt
<1>4. /\ rows'[f].source = rows[f].source /\ rows'[f].language = rows[f].language
      /\ rows'[f].runtime = rt /\ rows'[f].status = "ready" /\ rows'[f] # NULL
  <2>1. /\ r \in Function /\ r.source = rows[f].source /\ r.language = rows[f].language
        /\ r.runtime = rt /\ r.status = "ready"
    BY <1>1, <1>3 DEF Function
  <2> HIDE DEF r
  <2>2. rows'[f] = r
    BY <1>2 DEF TypeInv, TypeOK, StoredOK
  <2> QED
    BY <2>1, <2>2, StoreAssumption
<1> HIDE DEF r
<1>5. RowOK(f)'
  BY <1>1, <1>2, <1>3, <1>4 DEF RowOK
<1>6. Script(f) => op[p] # "DeployVersion"
  BY <1>1 DEF CallOK, FileOK, Script
<1>7. Script(f) /\ op[p] \in {"Create", "Update"} => rows[f].source \in Valid
  BY <1>1 DEF CallOK, SourceOK
<1>8. CASE op[p] = "Create"
  <2>1. pc' = [pc EXCEPT ![p] = "idle"]
    BY <1>8 DEF markReady, AfterReady, Return, Goto
  <2>2. pc'[p] = "idle"
    BY <2>1 DEF TypeInv, TypeOK, LocalsOK
  <2>3. Script(f) => versions[f] = <<>>
    BY <1>1, <1>8 DEF CallOK, SourceOK
  <2>4. RestOK(f)'
    BY <1>2, <1>3, <1>4, <1>7, <1>8, <2>3 DEF RestOK, Script, Fits
  <2> QED
    BY <1>5, <2>2, <2>4 DEF Left
<1>9. CASE op[p] # "Create"
  <2>1. /\ pc' = [pc EXCEPT ![p] = "readMax"]
        /\ UNCHANGED <<op, fn, arg, ext, fd, max, snap>>
    BY <1>9 DEF markReady, AfterReady, Goto, locals
  <2>2. pc'[p] = "readMax"
    BY <2>1 DEF TypeInv, TypeOK, LocalsOK
  <2>3. ArgsOK(p)'
    BY <1>1, <1>2, <1>3, <1>9, <2>1, <2>2 DEF CallOK, ArgsOK, Stages, Own
  <2>4. FileOK(p)'
    BY <1>1, <1>2, <2>1, <2>2 DEF CallOK, FileOK
  <2>5. RecordOK(p)'
    BY <2>2 DEF RecordOK
  <2>6. SourceOK(p)'
    BY <1>1, <1>2, <1>3, <1>4, <1>6, <1>7, <1>9, <2>1, <2>2 DEF SourceOK, Script
  <2> QED
    BY <1>1, <1>4, <1>5, <2>1, <2>2, <2>3, <2>4, <2>5, <2>6 DEF Left, CallOK
<1> QED
  BY <1>8, <1>9

LEMMA markErrorUse ==
    ASSUME TypeInv, NEW p \in Procs, NEW f \in Fns, Held(p, f), markError(p)
    PROVE  Left(p, f)
<1> DEFINE r == [rows[f] EXCEPT !.status = "error", !.runtime = ""]
<1>1. /\ pc[p] = "markError" /\ fn[p] = f /\ rows[f] \in Function /\ rows[f] # NULL
      /\ CallOK(p) /\ RowOK(f)
  BY DEF markError, Held, CallOK
<1>2. /\ rows' = [rows EXCEPT ![f] = r] /\ pc' = [pc EXCEPT ![p] = "idle"]
      /\ UNCHANGED <<made, versions, objects>>
  BY <1>1 DEF markError, UpdateRow, Return, Goto
<1>3. op[p] \in {"Create", "Update"} /\ made[f] # "go"
  BY <1>1 DEF CallOK, ArgsOK, Stages, TypeInv, ActiveOK, Operations
<1>4. /\ rows'[f].source = rows[f].source /\ rows'[f].language = rows[f].language
      /\ rows'[f].runtime = "" /\ rows'[f].status = "error" /\ rows'[f] # NULL
      /\ pc'[p] = "idle"
  <2>1. /\ r \in Function /\ r.source = rows[f].source /\ r.language = rows[f].language
        /\ r.runtime = "" /\ r.status = "error"
    BY <1>1 DEF Function, Runtimes
  <2> HIDE DEF r
  <2>2. rows'[f] = r /\ pc'[p] = "idle"
    BY <1>2 DEF TypeInv, TypeOK, StoredOK, LocalsOK
  <2> QED
    BY <2>1, <2>2, StoreAssumption
<1> HIDE DEF r
<1>5. Script(f) => rows[f].source \notin Valid
  BY <1>1 DEF CallOK, SourceOK
<1>6. RowOK(f)'
  BY <1>1, <1>2, <1>3, <1>4 DEF RowOK
<1>7. RestOK(f)'
  BY <1>2, <1>3, <1>4, <1>5 DEF RestOK, Script, Fits
<1> QED
  BY <1>4, <1>6, <1>7 DEF Left

LEMMA readMaxUse ==
    ASSUME TypeInv, NEW p \in Procs, NEW f \in Fns, Held(p, f), readMax(p)
    PROVE  Left(p, f)
<1>1. /\ pc[p] = "readMax" /\ fn[p] = f /\ CallOK(p) /\ RowOK(f)
  BY DEF readMax, Held
<1>2. /\ max' = [max EXCEPT ![p] = IF Numbers(f) = {} THEN 0 ELSE Max(Numbers(f))]
      /\ pc' = [pc EXCEPT ![p] = "readSource"]
      /\ UNCHANGED <<rows, made, versions, objects, op, fn, arg, ext, fd, snap>>
  BY <1>1 DEF readMax, Goto, stored
<1>3. max'[p] = Len(versions[f]) /\ pc'[p] = "readSource"
  <2>1. (IF Numbers(f) = {} THEN 0 ELSE Max(Numbers(f))) = Len(versions[f])
    BY <1>1, NumberedInOrder DEF RowOK, TypeInv, TypeOK
  <2> QED
    BY <1>2, <2>1 DEF TypeInv, TypeOK, LocalsOK
<1>4. RowOK(f)'
  BY <1>1, <1>2 DEF RowOK
<1>5. ArgsOK(p)' /\ FileOK(p)' /\ RecordOK(p)'
  BY <1>1, <1>2, <1>3 DEF CallOK, ArgsOK, Stages, Own, FileOK, RecordOK
<1>6. SourceOK(p)'
  BY <1>1, <1>2, <1>3 DEF CallOK, SourceOK, Script, Fits
<1> QED
  BY <1>1, <1>2, <1>4, <1>5, <1>6 DEF Left, CallOK

LEMMA readSourceUse ==
    ASSUME TypeInv, NEW p \in Procs, NEW f \in Fns, Held(p, f), readSource(p)
    PROVE  Left(p, f)
<1>1. /\ pc[p] = "readSource" /\ fn[p] = f /\ rows[f] # NULL /\ CallOK(p) /\ RowOK(f)
  BY DEF readSource, Held, CallOK
<1>2. /\ snap' = [snap EXCEPT ![p] = rows[f].source]
      /\ pc' = [pc EXCEPT ![p] = "insertVersion"]
      /\ UNCHANGED <<rows, made, versions, objects, op, fn, arg, ext, fd, max>>
  BY <1>1 DEF readSource, Goto, stored
<1>3. snap'[p] = rows[f].source /\ pc'[p] = "insertVersion"
  BY <1>2 DEF TypeInv, TypeOK, LocalsOK
<1>4. RowOK(f)'
  BY <1>1, <1>2 DEF RowOK
<1>5. ArgsOK(p)' /\ FileOK(p)' /\ RecordOK(p)'
  BY <1>1, <1>2, <1>3 DEF CallOK, ArgsOK, Stages, Own, FileOK, RecordOK
<1>6. SourceOK(p)'
  BY <1>1, <1>2, <1>3 DEF CallOK, SourceOK, Script, Fits
<1> QED
  BY <1>1, <1>2, <1>4, <1>5, <1>6 DEF Left, CallOK

LEMMA insertVersionUse ==
    ASSUME TypeInv, NEW p \in Procs, NEW f \in Fns, Held(p, f), insertVersion(p)
    PROVE  Left(p, f)
<1> DEFINE v == [version |-> max[p] + 1, source |-> snap[p]]
           s == Append(versions[f], v)
<1>1. /\ pc[p] = "insertVersion" /\ fn[p] = f /\ rows[f] # NULL /\ CallOK(p) /\ RowOK(f)
      /\ versions[f] \in Seq(FunctionVersion)
  BY DEF insertVersion, Held, CallOK, TypeInv, TypeOK, StoredOK
<1>2. /\ versions' = [versions EXCEPT ![f] = s]
      /\ pc' = [pc EXCEPT ![p] = "idle"]
      /\ UNCHANGED <<rows, made, objects>>
  BY <1>1 DEF insertVersion, Return, Goto
<1>3. max[p] = Len(versions[f]) /\ snap[p] = rows[f].source
  BY <1>1 DEF CallOK, RecordOK
<1>4. /\ DOMAIN s = 1..Len(s) /\ Len(s) = Len(versions[f]) + 1
      /\ s[Len(s)].version = Len(s) /\ s[Len(s)].source = rows[f].source
      /\ \A i \in DOMAIN s : i = Len(s) \/ (i \in DOMAIN versions[f] /\ s[i] = versions[f][i])
  <2>1. v \in FunctionVersion
    <3>1. max[p] + 1 \in Nat \ {0} /\ snap[p] \in SourceText
      BY DEF TypeInv, TypeOK, LocalsOK
    <3> QED
      BY <3>1 DEF FunctionVersion
  <2>2. v.version = max[p] + 1 /\ v.source = snap[p]
    OBVIOUS
  <2> HIDE DEF v
  <2>3. /\ DOMAIN s = 1..Len(s) /\ Len(s) = Len(versions[f]) + 1 /\ s[Len(s)] = v
        /\ \A i \in DOMAIN s : i = Len(s) \/ (i \in DOMAIN versions[f] /\ s[i] = versions[f][i])
    BY <1>1, <2>1
  <2> HIDE DEF s
  <2> QED
    BY <1>3, <2>2, <2>3
<1> HIDE DEF s
<1>5. versions'[f] = s /\ pc'[p] = "idle"
  BY <1>2 DEF TypeInv, TypeOK, StoredOK, LocalsOK
<1>6. RowOK(f)'
  <2>1. \A i \in DOMAIN s : s[i].version = i
    BY <1>1, <1>4 DEF RowOK
  <2>2. ASSUME made[f] = "go" PROVE \A i \in DOMAIN s : s[i].source = ""
    <3>1. rows[f].source = "" /\ \A i \in DOMAIN versions[f] : versions[f][i].source = ""
      BY <1>1, <2>2 DEF RowOK
    <3> QED
      BY <1>4, <3>1
  <2> QED
    BY <1>1, <1>2, <1>5, <2>1, <2>2 DEF RowOK
<1>7. RestOK(f)'
  <2>1. made[f] = "go" => objects[f][".wasm"] \in Artifacts
    BY <1>1 DEF CallOK, FileOK
  <2>2. Script(f) => /\ rows[f].source \in Valid
                     /\ rows[f].status = "ready" /\ rows[f].runtime = "js"
    BY <1>1 DEF CallOK, SourceOK
  <2>3. Script(f)' => Fits(f)'
    BY <1>2, <1>4, <1>5, <2>2 DEF Script, Fits
  <2> QED
    BY <1>1, <1>2, <2>1, <2>3 DEF RestOK
<1> QED
  BY <1>5, <1>6, <1>7 DEF Left

LEMMA deleteObjectUse ==
    ASSUME TypeInv, NEW p \in Procs, NEW f \in Fns, Held(p, f), deleteObject(p)
    PROVE  Left(p, f)
<1>1. /\ pc[p] = "deleteObject" /\ fn[p] = f /\ rows[f] # NULL /\ CallOK(p) /\ RowOK(f)
      /\ ext[p] \in Exts
  BY DEF deleteObject, Held, CallOK, TypeInv, TypeOK, LocalsOK
<1>2. /\ objects' = [objects EXCEPT ![f][ext[p]] = NULL]
      /\ pc' = [pc EXCEPT ![p] = "deleteRow"]
      /\ UNCHANGED <<rows, made, versions, op, fn, arg, ext, max, snap>>
  BY <1>1 DEF deleteObject, Goto
<1>3. op[p] = "Delete" /\ ext[p] = Own(f)
  <2>1. op[p] = "Delete"
    BY <1>1 DEF CallOK, ArgsOK, Stages
  <2> QED
    BY <1>1, <2>1 DEF CallOK, ArgsOK
<1>4. objects'[f][ext[p]] = NULL /\ pc'[p] = "deleteRow"
  BY <1>1, <1>2 DEF TypeInv, TypeOK, StoredOK, LocalsOK
<1>5. RowOK(f)'
  BY <1>1, <1>2 DEF RowOK
<1>6. ArgsOK(p)' /\ FileOK(p)' /\ RecordOK(p)' /\ SourceOK(p)'
  BY <1>1, <1>2, <1>3, <1>4 DEF ArgsOK, Stages, FileOK, RecordOK, SourceOK, Own
<1> QED
  BY <1>1, <1>2, <1>5, <1>6 DEF Left, CallOK

LEMMA deleteRowUse ==
    ASSUME TypeInv, NEW p \in Procs, NEW f \in Fns, Held(p, f), deleteRow(p)
    PROVE  Left(p, f)
<1>1. /\ pc[p] = "deleteRow" /\ fn[p] = f /\ CallOK(p) /\ RowOK(f)
  BY DEF deleteRow, Held
<1>2. /\ rows' = [rows EXCEPT ![f] = NULL] /\ versions' = [versions EXCEPT ![f] = <<>>]
      /\ pc' = [pc EXCEPT ![p] = "idle"] /\ UNCHANGED <<made, objects>>
  BY <1>1 DEF deleteRow, Return, Goto
<1>3. rows'[f] = NULL /\ pc'[p] = "idle" /\ versions'[f] = <<>>
  BY <1>2 DEF TypeInv, TypeOK, StoredOK, LocalsOK
<1>4. DOMAIN versions'[f] = {}
  BY <1>3, NoVersions, Zenon
<1>5. rows'[f] = NULL /\ pc'[p] = "idle"
  BY <1>3
<1>6. RowOK(f)'
  BY <1>4, <1>5 DEF RowOK
<1>7. RestOK(f)'
  BY <1>1, <1>2, <1>5 DEF RestOK, CallOK, FileOK, Own
<1> QED
  BY <1>5, <1>6, <1>7 DEF Left

\* A later step of a call leaves the other calls, and other functions, alone.
LEMMA ContinueOthers ==
    ASSUME TypeInv, NEW p \in Procs, Continue(p)
    PROVE  /\ pc[p] # "idle" /\ fn[p] \in Fns
           /\ raced' = raced /\ failed' = failed
           /\ \A f \in Fns \ {fn[p]} : SameStored(f)
           /\ made' = made
           /\ \A q \in Procs \ {p} : fn[q] # fn[p] => SameCall(q)
           /\ pc'[p] = "idle" \/ fn'[p] = fn[p]
<1>1. pc[p] # "idle" /\ fn[p] \in Fns
  BY DEF Continue, updateSource, openObject, writeObject, markReady, markError, readMax,
         readSource, insertVersion, deleteObject, deleteRow, TypeInv, ActiveOK
<1>2. raced' = raced /\ failed' = failed /\ made' = made
  BY DEF Continue, updateSource, openObject, writeObject, markReady, markError, readMax,
         readSource, insertVersion, deleteObject, deleteRow, UpdateRow, counts, stored
<1>3. \A f \in Fns \ {fn[p]} : rows'[f] = rows[f]
  BY <1>1 DEF Continue, updateSource, openObject, writeObject, markReady, markError, readMax,
         readSource, insertVersion, deleteObject, deleteRow, UpdateRow, stored,
         TypeInv, TypeOK, StoredOK
<1>4. \A f \in Fns \ {fn[p]} : versions'[f] = versions[f]
  <2>1. \/ versions' = versions
        \/ \E s : versions' = [versions EXCEPT ![fn[p]] = s]
    BY DEF Continue, updateSource, openObject, writeObject, markReady, markError, readMax,
           readSource, insertVersion, deleteObject, deleteRow, UpdateRow, stored
  <2> QED
    BY <2>1 DEF TypeInv, TypeOK, StoredOK
<1>5. \A f \in Fns \ {fn[p]} : objects'[f] = objects[f]
  <2>1. objects' = objects \/ \E x, c : objects' = [objects EXCEPT ![fn[p]][x] = c]
    BY DEF Continue, updateSource, openObject, writeObject, markReady, markError, readMax,
           readSource, insertVersion, deleteObject, deleteRow, UpdateRow, stored
  <2> QED
    BY <2>1 DEF TypeInv, TypeOK, StoredOK
<1>6. ASSUME NEW q \in Procs \ {p}, fn[q] # fn[p] PROVE SameCall(q)
  <2>1. pc'[q] = pc[q] /\ fn'[q] = fn[q] /\ max'[q] = max[q]
    BY OthersStay
  <2>2. Return(p) \/ UNCHANGED <<op, arg, ext>>
    BY DEF Continue, updateSource, openObject, writeObject, markReady, markError, readMax,
           readSource, insertVersion, deleteObject, deleteRow, AfterReady, locals
  <2>3. op'[q] = op[q] /\ arg'[q] = arg[q] /\ ext'[q] = ext[q]
    BY <1>6, <2>2 DEF Return, TypeInv, TypeOK, LocalsOK
  <2>4. fd'[q] = fd[q]
    <3>1. CASE deleteObject(p)
      BY <1>6, <3>1 DEF deleteObject, TypeInv, TypeOK, LocalsOK
    <3>2. CASE ~deleteObject(p)
      <4>1. fd' = fd \/ \E b : fd' = [fd EXCEPT ![p] = b]
        BY <3>2 DEF Continue, updateSource, openObject, writeObject, markReady, markError,
               readMax, readSource, insertVersion, deleteRow, AfterReady, Return, locals
      <4> QED
        BY <1>6, <4>1 DEF TypeInv, TypeOK, LocalsOK
    <3> QED
      BY <3>1, <3>2
  <2>5. snap'[q] = snap[q]
    <3>1. snap' = snap \/ \E s : snap' = [snap EXCEPT ![p] = s]
      BY DEF Continue, updateSource, openObject, writeObject, markReady, markError, readMax,
             readSource, insertVersion, deleteObject, deleteRow, AfterReady, Return, locals
    <3> QED
      BY <1>6, <3>1 DEF TypeInv, TypeOK, LocalsOK
  <2> QED
    BY <2>1, <2>3, <2>4, <2>5 DEF SameCall
<1>7. pc'[p] = "idle" \/ fn'[p] = fn[p]
  <2>1. Return(p) \/ fn' = fn
    BY DEF Continue, updateSource, openObject, writeObject, markReady, markError, readMax,
           readSource, insertVersion, deleteObject, deleteRow, AfterReady, locals
  <2> QED
    BY <2>1 DEF Return, Goto, TypeInv, TypeOK, LocalsOK
<1> QED
  BY <1>1, <1>2, <1>3, <1>4, <1>5, <1>6, <1>7 DEF SameStored

LEMMA ContinueUse ==
    ASSUME UseOfInv, NEW p \in Procs, Continue(p), NEW f \in Fns, Clean(f)'
    PROVE  UseOK(f)'
<1>1. /\ pc[p] # "idle" /\ fn[p] \in Fns
      /\ raced' = raced /\ failed' = failed
      /\ \A g \in Fns \ {fn[p]} : SameStored(g)
      /\ made' = made
      /\ \A q \in Procs \ {p} : fn[q] # fn[p] => SameCall(q)
      /\ pc'[p] = "idle" \/ fn'[p] = fn[p]
  BY ContinueOthers DEF UseOfInv
<1>2. UseOK(f)
  <2>1. Clean(f)
    BY <1>1 DEF Clean
  <2> QED
    BY <2>1 DEF UseOfInv, UseInv
<1>3. \A q \in Procs \ {p} : pc'[q] = pc[q] /\ fn'[q] = fn[q]
  BY OthersStay DEF UseOfInv
<1>4. CASE fn[p] # f
  <2>1. \A q \in Procs : On(q, f) \/ On(q, f)' => q # p /\ fn[q] # fn[p]
    BY <1>1, <1>3, <1>4 DEF On
  <2>2. \A q \in Procs : On(q, f) \/ On(q, f)' => SameCall(q)
    BY <1>1, <2>1
  <2> QED
    BY <1>1, <1>2, <1>4, <2>2, Untouched
<1>5. CASE fn[p] = f
  <2>1. On(p, f) /\ CallOK(p) /\ RowOK(f)
    BY <1>1, <1>2, <1>5 DEF On, UseOK
  <2>2. \A q \in Procs \ {p} : ~On(q, f)'
    BY <1>2, <1>3, <2>1 DEF UseOK, On
  <2>3. Held(p, f)
    <3>1. rows[f] \in Function
      BY <1>5, <2>1 DEF CallOK, UseOfInv, TypeInv, TypeOK, StoredOK
    <3> QED
      BY <1>1, <1>5, <2>1, <3>1 DEF Held
  <2>4. TypeInv
    BY DEF UseOfInv
  <2>5. Left(p, f)
    BY <2>3, <2>4, updateSourceUse, openObjectUse, writeObjectUse, markReadyUse, markErrorUse,
       readMaxUse, readSourceUse, insertVersionUse, deleteObjectUse, deleteRowUse
    DEF Continue
  <2>6. RowOK(f)' /\ (On(p, f)' => CallOK(p)') /\ (~On(p, f)' => RestOK(f)')
    BY <2>5 DEF Left, On
  <2> QED
    BY <2>2, <2>6, OnlyCall
<1> QED
  BY <1>4, <1>5

\* A fault disturbs no function but those it marks as failed.
LEMMA FaultUse ==
    ASSUME UseOfInv, (\E p \in Procs : putFails(p) \/ statementFails(p)) \/ Crash,
           NEW f \in Fns, Clean(f)'
    PROVE  UseOK(f)'
<1>1. ASSUME Clean(f) PROVE UseOK(f)
  BY <1>1 DEF UseOfInv, UseInv
<1>2. ASSUME NEW p \in Procs, putFails(p) \/ statementFails(p) PROVE UseOK(f)'
  <2>1. /\ pc[p] # "idle" /\ fn[p] \in Fns
        /\ failed' = failed \cup {fn[p]} /\ raced' = raced
        /\ rows' = rows /\ made' = made /\ versions' = versions
    BY <1>2, FaultyCall DEF UseOfInv, putFails, statementFails, Fault, stored
  <2>2. fn[p] # f /\ Clean(f)
    BY <2>1 DEF Clean
  <2>3. objects'[f] = objects[f]
    <3>1. objects' = objects \/ \E x, c : objects' = [objects EXCEPT ![fn[p]][x] = c]
      BY <1>2 DEF putFails, statementFails, stored
    <3> QED
      BY <2>1, <2>2, <3>1 DEF UseOfInv, TypeInv, TypeOK, StoredOK
  <2>4. Return(p) \/ (UNCHANGED locals /\ \E l \in Locations : Goto(p, l))
    BY <1>2 DEF putFails, statementFails, AfterReady, Locations
  <2>5. \A q \in Procs \ {p} : SameCall(q)
    BY <2>4 DEF Return, Goto, locals, SameCall, UseOfInv, TypeInv, TypeOK, LocalsOK
  <2>6. ~On(p, f) /\ ~On(p, f)'
    <3>1. pc'[p] = "idle" \/ fn'[p] = fn[p]
      BY <2>4 DEF Return, Goto, locals, UseOfInv, TypeInv, TypeOK, LocalsOK
    <3> QED
      BY <2>2, <3>1 DEF On
  <2>7. SameStored(f) /\ \A q \in Procs : On(q, f) \/ On(q, f)' => SameCall(q)
    BY <2>1, <2>3, <2>5, <2>6 DEF SameStored
  <2> QED
    BY <1>1, <2>2, <2>7, Untouched
<1>3. ASSUME Crash PROVE UseOK(f)'
  <2>1. /\ failed' = failed \cup {g \in Fns : Busy(g)} /\ raced' = raced
        /\ UNCHANGED stored /\ pc' = [p \in Procs |-> "idle"]
    BY <1>3 DEF Crash, Fault
  <2>2. ~Busy(f) /\ Clean(f) /\ SameStored(f)
    BY <2>1 DEF Clean, SameStored, stored
  <2>3. \A q \in Procs : ~On(q, f) /\ ~On(q, f)'
    BY <2>1, <2>2 DEF On, Busy
  <2> QED
    BY <1>1, <2>2, <2>3, Untouched
<1> QED
  BY <1>2, <1>3

LEMMA UseNext == UseOfInv /\ [Next]_vars => UseOfInv'
<1> SUFFICES ASSUME UseOfInv, [Next]_vars PROVE UseOfInv'
  OBVIOUS
<1>1. TypeInv' /\ MadeOK'
  BY TypeStep, MadeStep DEF UseOfInv
<1>2. ASSUME NEW f \in Fns, Clean(f)' PROVE UseOK(f)'
  <2>1. CASE UNCHANGED vars
    <3>1. /\ UNCHANGED <<rows, made, versions, objects, pc, op, fn, arg, ext, fd, max, snap,
                         raced, failed>>
      BY <2>1 DEF vars
    <3>2. Clean(f) /\ SameStored(f) /\ \A q \in Procs : SameCall(q)
      BY <1>2, <3>1 DEF Clean, SameStored, SameCall
    <3> QED
      BY <3>2, Untouched DEF UseOfInv, UseInv
  <2>2. CASE Next
    BY <1>2, <2>2, RequestUse, ContinueUse, FaultUse DEF Next
  <2> QED
    BY <2>1, <2>2
<1> QED
  BY <1>1, <1>2 DEF UseOfInv, UseInv

\* A function that is used by one caller at a time and that no fault has hit
\* fits together at rest: its row, its artifact and its versions.
THEOREM UsedInTurn == Spec => []SequentialUse
<1>1. Init => UseOfInv
  <2>1. Init => TypeInv
    BY TypeInit
  <2>2. Init => /\ rows = [f \in Fns |-> NULL] /\ made = [f \in Fns |-> NULL]
                /\ pc = [p \in Procs |-> "idle"]
    BY Zenon DEF Init
  <2>3. Init => MadeOK /\ UseInv
    BY <2>2 DEF MadeOK, UseInv, Clean
  <2> QED
    BY <2>1, <2>3 DEF UseOfInv
<1>2. UseOfInv => SequentialUse
  <2> SUFFICES ASSUME UseOfInv, NEW f \in Fns, Sequential(f), made[f] # NULL
               PROVE  LET v == versions[f] IN
                      /\ \A i \in DOMAIN v : v[i].version = i
                      /\ rows[f] = NULL =>
                            objects[f][IF made[f] = "go" THEN ".wasm" ELSE ".js"] = NULL
                      /\ rows[f] # NULL /\ (made[f] = "go" \/ objects[f][".wasm"] = NULL) =>
                            /\ rows[f].status = (IF made[f] = "go" \/ rows[f].source \in Valid
                                                 THEN "ready" ELSE "error")
                            /\ rows[f].status = "ready" => Runnable(f)
                            /\ rows[f].status = "ready" /\ v # <<>> =>
                                  v[Len(v)].source = rows[f].source
    BY DEF SequentialUse
  <2>1. RowOK(f) /\ RestOK(f)
    BY DEF Sequential, Clean, UseOfInv, UseInv, UseOK
  <2>2. CASE rows[f] = NULL
    BY <2>1, <2>2 DEF RowOK, RestOK, Own
  <2>3. CASE rows[f] # NULL /\ made[f] = "go"
    <3>1. versions[f] # <<>> => versions[f][Len(versions[f])].source = ""
      <4>1. versions[f] \in Seq(FunctionVersion)
        BY DEF UseOfInv, TypeInv, TypeOK, StoredOK
      <4>2. versions[f] # <<>> => Len(versions[f]) \in DOMAIN versions[f]
        BY <4>1
      <4> QED
        BY <2>1, <2>3, <4>2 DEF RowOK
    <3>2. Runnable(f)
      BY <2>1, <2>3 DEF RowOK, RestOK, Runnable
    <3> QED
      BY <2>1, <2>3, <3>1, <3>2 DEF RowOK
  <2>4. CASE rows[f] # NULL /\ made[f] # "go" /\ objects[f][".wasm"] = NULL
    <3>1. Fits(f)
      BY <2>1, <2>4 DEF RestOK, Script
    <3>2. rows[f].status = "ready" => rows[f].source \in Valid /\ Runnable(f)
      BY <3>1 DEF Fits, Runnable
    <3> QED
      BY <2>1, <2>4, <3>1, <3>2 DEF RowOK, Fits
  <2>5. CASE rows[f] # NULL /\ made[f] # "go" /\ objects[f][".wasm"] # NULL
    BY <2>1, <2>5 DEF RowOK
  <2> QED
    BY <2>2, <2>3, <2>4, <2>5
<1>3. UseOfInv /\ [Next]_vars => UseOfInv'
  BY UseNext
<1> QED
  BY <1>1, <1>2, <1>3, PTL DEF Spec
=============================================================================
