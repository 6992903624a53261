--------------------------- MODULE MCContent_proofs ---------------------------
(***************************************************************************)
(* Proofs about Frontends and Packages, for any ids, slugs, file names,    *)
(* requests and goroutines: what the rows of each service say of the files *)
(* it stores, whatever calls overlap and wherever they are cut off.  The   *)
(* two invariants, FrontendsInv and PackagesInv, are about their own       *)
(* service alone; their constants are MCContent's.                         *)
(***************************************************************************)
EXTENDS MCContent, TLAPS

-----------------------------------------------------------------------------
(* Packages: types.                                                        *)

Row == [name : Names, status : P!Statuses]

LEMMA PackagesTable ==
    ASSUME PackagesTypeOK
    PROVE  /\ packages \in [DOMAIN packages -> Row] /\ DOMAIN packages \subseteq given
           /\ given \subseteq Ids
<1>1. PICK D \in SUBSET given : packages \in [D -> Row]
  BY DEF PackagesTypeOK, P!PackagesTypeOK, Row
<1> QED BY <1>1 DEF PackagesTypeOK, P!PackagesTypeOK

LEMMA StatusSet ==
    ASSUME PackagesTypeOK, NEW i, NEW s \in P!Statuses, P!SetStatus(i, s)
    PROVE  /\ DOMAIN packages' = DOMAIN packages
           /\ packages' \in [DOMAIN packages -> Row]
           /\ \A k \in DOMAIN packages :
                packages'[k].status = IF k = i THEN s ELSE packages[k].status
<1>1. packages \in [DOMAIN packages -> Row]
  BY PackagesTable
<1>2. packages' = [k \in DOMAIN packages |->
                     IF k = i THEN [packages[k] EXCEPT !.status = s]
                              ELSE packages[k]]
  BY DEF P!SetStatus
<1>3. \A k \in DOMAIN packages : /\ [packages[k] EXCEPT !.status = s] \in Row
                                 /\ [packages[k] EXCEPT !.status = s].status = s
  BY <1>1 DEF Row
<1>4. \A k \in DOMAIN packages : packages[k] \in Row
  BY <1>1
<1> QED BY <1>2, <1>3, <1>4

\* The states of requests and goroutines, with any id.
LEMMA PackagesRequests ==
    /\ P!Idle \in P!Request /\ P!Idle \in P!Job
    /\ P!Idle.at = "idle"
    /\ \A r \in P!Request : /\ r.at \in {"idle", "get", "approve", "bundle", "dts", "row"}
                            /\ r.at # "idle" => r.id \in Ids
    /\ \A r \in P!Job : /\ r.at \in {"idle", "fetch", "open", "write", "unlinked",
                                     "fail", "record", "types"}
                        /\ r.at # "idle" => r.id \in Ids
BY DEF P!Request, P!Job, P!Idle

LEMMA RequestGoesOn ==
    ASSUME NEW r \in P!Request, r.at # "idle",
           NEW s \in {"get", "approve", "bundle", "dts", "row"}
    PROVE  /\ [r EXCEPT !.at = s] \in P!Request
           /\ [r EXCEPT !.at = s].at = s /\ [r EXCEPT !.at = s].id = r.id
<1>1. r \in [at : {"get", "approve", "bundle", "dts", "row"}, id : Ids]
  BY DEF P!Request, P!Idle
<1> QED BY <1>1 DEF P!Request

LEMMA JobGoesOn ==
    ASSUME NEW r \in P!Job, r.at # "idle",
           NEW s \in {"fetch", "open", "write", "unlinked", "fail", "record", "types"}
    PROVE  /\ [r EXCEPT !.at = s] \in P!Job
           /\ [r EXCEPT !.at = s].at = s /\ [r EXCEPT !.at = s].id = r.id
<1>1. r \in [at : {"fetch", "open", "write", "unlinked", "fail", "record", "types"}, id : Ids]
  BY DEF P!Job, P!Idle
<1> QED BY <1>1 DEF P!Job

LEMMA PackagesParts ==
    ASSUME PackagesTypeOK
    PROVE  /\ bundles \in [Ids -> {"absent", "part", "whole"}] /\ types \subseteq given
           /\ preq \in [Procs -> P!Request] /\ jobs \in [Jobs -> P!Job]
           /\ pcalls \in Nat /\ pfaults \in Nat
           /\ given \subseteq Ids /\ muddled \subseteq given /\ lost \subseteq given
BY DEF PackagesTypeOK, P!PackagesTypeOK

\* Requests and goroutines only hold ids that were given out.
IdsGiven ==
    /\ \A p \in Procs : preq[p].at # "idle" => preq[p].id \in given
    /\ \A j \in Jobs : jobs[j].at # "idle" => jobs[j].id \in given

LEMMA PackagesInitType == P!Init => PackagesTypeOK /\ IdsGiven
<1> SUFFICES ASSUME P!Init PROVE PackagesTypeOK /\ IdsGiven
  OBVIOUS
<1>1. \E D \in SUBSET given : packages \in [D -> Row]
  <2>1. packages \in [{} -> Row]
    BY DEF P!Init
  <2> QED BY <2>1
<1>2. preq \in [Procs -> P!Request] /\ jobs \in [Jobs -> P!Job]
  BY PackagesRequests DEF P!Init
<1> QED BY <1>1, <1>2, PackagesRequests
        DEF P!Init, PackagesTypeOK, P!PackagesTypeOK, IdsGiven, Row

LEMMA RequestGoes ==
    ASSUME PackagesTypeOK, NEW p \in Procs, NEW r \in P!Request, P!Go(p, r)
    PROVE  /\ preq' \in [Procs -> P!Request] /\ preq'[p] = r
           /\ \A q \in Procs : q # p => preq'[q] = preq[q]
BY PackagesParts DEF P!Go

LEMMA JobGoes ==
    ASSUME PackagesTypeOK, NEW j \in Jobs, jobs[j].at # "idle",
           NEW s \in {"fetch", "open", "write", "unlinked", "fail", "record", "types"},
           P!Goes(j, s)
    PROVE  /\ jobs' \in [Jobs -> P!Job]
           /\ jobs'[j].at = s /\ jobs'[j].id = jobs[j].id
           /\ \A k \in Jobs : k # j => jobs'[k] = jobs[k]
<1>1. jobs \in [Jobs -> P!Job]
  BY PackagesParts
<1>2. jobs' = [jobs EXCEPT ![j] = [jobs[j] EXCEPT !.at = s]]
  BY <1>1 DEF P!Goes
<1> DEFINE r == [jobs[j] EXCEPT !.at = s]
<1>3. r \in P!Job /\ r.at = s /\ r.id = jobs[j].id
  BY <1>1, JobGoesOn
<1> HIDE DEF r
<1>4. jobs' = [jobs EXCEPT ![j] = r]
  BY <1>2 DEF r
<1> QED BY <1>1, <1>3, <1>4

LEMMA JobFinishes ==
    ASSUME PackagesTypeOK, NEW j \in Jobs, P!Finished(j)
    PROVE  /\ jobs' \in [Jobs -> P!Job] /\ jobs'[j].at = "idle"
           /\ \A k \in Jobs : k # j => jobs'[k] = jobs[k]
BY PackagesParts, PackagesRequests DEF P!Finished

-----------------------------------------------------------------------------
(* Packages: a package and its goroutines.                                 *)

\* Goroutine j is bundling package i, and has not recorded a result.
On(j, i) == jobs[j].at \notin {"idle", "types"} /\ jobs[j].id = i

InDeletion(i) == \E p \in Procs : preq[p].at \in {"dts", "row"} /\ preq[p].id = i
Undisturbed(i) == i \in DOMAIN packages /\ i \notin muddled /\ ~InDeletion(i)

\* Only an approval during a bundling puts a second goroutine on a package,
\* a package in bundling has a goroutine on it, and one that no Delete and no
\* second approval disturbed is in bundling as long as it has, with its whole
\* bundle stored before the result is recorded.
PackageSound(i) ==
    /\ i \notin muddled => \A j, k \in Jobs : On(j, i) /\ On(k, i) => j = k
    /\ i \in DOMAIN packages /\ i \notin lost /\ packages[i].status = "bundling" =>
         \E j \in Jobs : On(j, i)
    /\ Undisturbed(i) =>
         /\ \A j \in Jobs : On(j, i) =>
              /\ packages[i].status = "bundling"
              /\ jobs[j].at # "unlinked"
              /\ jobs[j].at = "record" => bundles[i] = "whole"
         /\ packages[i].status = "available" => bundles[i] = "whole"

PackagesInv ==
    PackagesTypeOK /\ IdsGiven /\ \A i \in Ids : PackageSound(i)

\* A step that does not concern package i, except to take its row.
LEMMA PackageKept ==
    ASSUME NEW i, PackageSound(i),
           i \in DOMAIN packages' => /\ i \in DOMAIN packages
                                     /\ packages'[i].status = packages[i].status,
           i \in muddled => i \in muddled', i \in lost => i \in lost',
           Undisturbed(i)' => Undisturbed(i) /\ bundles'[i] = bundles[i],
           \A j \in Jobs : On(j, i)' => On(j, i) /\ jobs'[j].at = jobs[j].at,
           \A j \in Jobs : On(j, i) => On(j, i)' \/ i \in lost'
    PROVE  PackageSound(i)'
<1>1. i \notin muddled' => \A j, k \in Jobs : On(j, i)' /\ On(k, i)' => j = k
  BY DEF PackageSound
<1>2. i \in DOMAIN packages' /\ i \notin lost' /\ packages'[i].status = "bundling" =>
         \E j \in Jobs : On(j, i)'
  BY DEF PackageSound
<1>3. Undisturbed(i)' =>
         /\ \A j \in Jobs : On(j, i)' =>
              /\ packages'[i].status = "bundling"
              /\ jobs'[j].at # "unlinked"
              /\ jobs'[j].at = "record" => bundles'[i] = "whole"
         /\ packages'[i].status = "available" => bundles'[i] = "whole"
  <2> SUFFICES ASSUME Undisturbed(i)'
               PROVE  /\ \A j \in Jobs : On(j, i)' =>
                           /\ packages'[i].status = "bundling"
                           /\ jobs'[j].at # "unlinked"
                           /\ jobs'[j].at = "record" => bundles'[i] = "whole"
                      /\ packages'[i].status = "available" => bundles'[i] = "whole"
    OBVIOUS
  <2>1. i \in DOMAIN packages'
    BY DEF Undisturbed
  <2> QED BY <2>1 DEF PackageSound
<1> QED BY <1>1, <1>2, <1>3 DEF PackageSound

\* The types of a step that leaves a package's row, requests or goroutines.
LEMMA PackagesTyped ==
    ASSUME PackagesTypeOK,
           \E D \in SUBSET given' : packages' \in [D -> Row],
           bundles' \in [Ids -> {"absent", "part", "whole"}], types' \subseteq given',
           preq' \in [Procs -> P!Request], jobs' \in [Jobs -> P!Job],
           pcalls' \in Nat, pfaults' \in Nat,
           given' \subseteq Ids, muddled' \subseteq given', lost' \subseteq given'
    PROVE  PackagesTypeOK'
BY DEF PackagesTypeOK, P!PackagesTypeOK, Row

LEMMA RequestPackageSound ==
    ASSUME PackagesInv, NEW n \in Ids, NEW m \in Names, P!RequestPackage(n, m)
    PROVE  PackagesInv'
<1> USE DEF P!RequestPackage, P!Statuses
<1>0. PackagesTypeOK /\ IdsGiven
  BY DEF PackagesInv
<1>1. packages' = [k \in DOMAIN packages \cup {n} |->
                     IF k = n THEN [name |-> m, status |-> "pending"] ELSE packages[k]]
  OBVIOUS
<1>2. packages \in [DOMAIN packages -> Row] /\ DOMAIN packages \subseteq given
  BY <1>0, PackagesTable
<1>3. [name |-> m, status |-> "pending"] \in Row
  BY DEF Row
<1>4. DOMAIN packages \cup {n} \in SUBSET given'
  BY <1>2
<1>5. packages' \in [DOMAIN packages \cup {n} -> Row]
  BY <1>1, <1>2, <1>3
<1>6. PackagesTypeOK'
  BY <1>0, <1>4, <1>5, PackagesParts, PackagesTyped
<1>7. IdsGiven'
  BY <1>0 DEF IdsGiven
<1>8. ASSUME NEW i \in Ids PROVE PackageSound(i)'
  <2>1. PackageSound(i)
    BY DEF PackagesInv
  <2>2. CASE i # n
    <3>1. i \in DOMAIN packages' => i \in DOMAIN packages /\ packages'[i] = packages[i]
      BY <1>1, <2>2
    <3>2. Undisturbed(i)' => Undisturbed(i)
      BY <3>1 DEF Undisturbed, InDeletion
    <3>3. \A j \in Jobs : On(j, i)' <=> On(j, i)
      BY DEF On
    <3> QED BY <2>1, <3>1, <3>2, <3>3, PackageKept
  <2>3. CASE i = n
    <3>1. packages'[i].status = "pending"
      BY <1>1, <2>3
    <3>2. \A j \in Jobs : ~On(j, i)'
      BY <1>0, <2>3 DEF On, IdsGiven
    <3> QED BY <3>1, <3>2 DEF PackageSound
  <2> QED BY <2>2, <2>3
<1> QED BY <1>6, <1>7, <1>8 DEF PackagesInv

\* A step of request p, which becomes r, that reads, or removes something it
\* has announced.
RequestStep(p, r) ==
    /\ r.at # "idle" => r.id \in given
    /\ preq[p].at \in {"dts", "row"} =>
         \/ r.at \in {"dts", "row"} /\ r.id = preq[p].id
         \/ preq[p].id \in muddled' \/ preq[p].id \notin DOMAIN packages'
    /\ r.at \in {"dts", "row"} \/ UNCHANGED bundles
    /\ \A i \in Ids : bundles'[i] = bundles[i] \/ i = r.id
    /\ \A k \in DOMAIN packages' : k \in DOMAIN packages /\ packages'[k] = packages[k]
    /\ \A j \in Jobs :
         /\ jobs'[j].id = jobs[j].id
         /\ \/ jobs'[j].at = jobs[j].at
            \/ /\ jobs[j].at = "write" /\ jobs'[j].at = "unlinked"
               /\ r.at \in {"dts", "row"} /\ jobs[j].id = r.id

\* It keeps the types of everything but the requests.
RequestStepTyped ==
    /\ packages' = [k \in DOMAIN packages' |-> packages'[k]]
    /\ bundles' \in [Ids -> {"absent", "part", "whole"}] /\ types' \subseteq types
    /\ jobs' \in [Jobs -> P!Job]
    /\ pcalls' \in Nat /\ pfaults' \in Nat
    /\ given' = given /\ muddled \subseteq muddled' /\ muddled' \subseteq given
    /\ lost' = lost

LEMMA RequestStepSound ==
    ASSUME PackagesInv, NEW p \in Procs, NEW r \in P!Request, P!Go(p, r),
           RequestStep(p, r), RequestStepTyped
    PROVE  PackagesInv'
<1> USE DEF RequestStep, RequestStepTyped
<1>0. PackagesTypeOK /\ IdsGiven
  BY DEF PackagesInv
<1>1. packages \in [DOMAIN packages -> Row] /\ DOMAIN packages \subseteq given
  BY <1>0, PackagesTable
<1>2. packages' \in [DOMAIN packages' -> Row] /\ DOMAIN packages' \in SUBSET given'
  BY <1>1
<1>3. /\ preq' \in [Procs -> P!Request] /\ preq'[p] = r
      /\ \A q \in Procs : q # p => preq'[q] = preq[q]
  BY <1>0, RequestGoes
<1>4. PackagesTypeOK'
  <2>1. types' \subseteq given' /\ given' \subseteq Ids /\ muddled' \subseteq given'
        /\ lost' \subseteq given'
    BY <1>0, PackagesParts
  <2> QED BY <1>0, <1>2, <1>3, <2>1, PackagesTyped
<1>5. IdsGiven'
  <2>1. \A q \in Procs : preq'[q].at # "idle" => preq'[q].id \in given'
    BY <1>0, <1>3 DEF IdsGiven
  <2>2. \A j \in Jobs : jobs'[j].at # "idle" => jobs'[j].id \in given'
    BY <1>0 DEF IdsGiven
  <2> QED BY <2>1, <2>2 DEF IdsGiven
<1>6. ASSUME NEW i \in Ids PROVE PackageSound(i)'
  <2>1. PackageSound(i)
    BY <1>6 DEF PackagesInv
  <2>2. \A j \in Jobs : On(j, i)' <=> On(j, i)
    BY DEF On
  <2>3. Undisturbed(i)' => Undisturbed(i)
    <3>1. InDeletion(i) => InDeletion(i)' \/ i \in muddled' \/ i \notin DOMAIN packages'
      BY <1>3 DEF InDeletion
    <3> QED BY <3>1 DEF Undisturbed
  <2>4. r.at \in {"dts", "row"} /\ r.id = i => ~Undisturbed(i)'
    BY <1>3 DEF Undisturbed, InDeletion
  <2>5. CASE r.at \in {"dts", "row"} /\ r.id = i
    <3>1. i \notin muddled' => \A j, k \in Jobs : On(j, i)' /\ On(k, i)' => j = k
      BY <2>1, <2>2 DEF PackageSound
    <3>2. i \in DOMAIN packages' /\ i \notin lost' /\ packages'[i].status = "bundling" =>
             \E j \in Jobs : On(j, i)'
      BY <2>1, <2>2 DEF PackageSound
    <3> QED BY <2>4, <2>5, <3>1, <3>2 DEF PackageSound
  <2>6. CASE ~(r.at \in {"dts", "row"} /\ r.id = i)
    <3>1. \A j \in Jobs : On(j, i)' => On(j, i) /\ jobs'[j].at = jobs[j].at
      BY <2>2, <2>6 DEF On
    <3>2. bundles'[i] = bundles[i]
      BY <2>6
    <3> QED BY <2>1, <2>2, <2>3, <3>1, <3>2, PackageKept
  <2> QED BY <2>5, <2>6
<1> QED BY <1>4, <1>5, <1>6 DEF PackagesInv

LEMMA RequestsSound ==
    ASSUME PackagesInv, NEW p \in Procs,
           \/ P!Begin(p, "get") \/ P!Begin(p, "bundle") \/ P!get(p)
           \/ P!deleteBundle(p) \/ P!deleteTypes(p) \/ P!deleteRow(p)
           \/ P!statementFails(p)
    PROVE  PackagesInv'
<1>0. PackagesTypeOK /\ IdsGiven
  BY DEF PackagesInv
<1>1. /\ preq \in [Procs -> P!Request] /\ jobs \in [Jobs -> P!Job]
      /\ preq[p] \in P!Request
      /\ bundles \in [Ids -> {"absent", "part", "whole"}]
      /\ pcalls \in Nat /\ pfaults \in Nat /\ given \subseteq Ids
      /\ muddled \subseteq given /\ types \subseteq given
  BY <1>0, PackagesParts
<1>2. packages \in [DOMAIN packages -> Row]
  BY <1>0, PackagesTable
<1>3. packages = [k \in DOMAIN packages |-> packages[k]]
  BY <1>2
<1>4. preq[p].at # "idle" => preq[p].id \in given /\ preq[p].id \in Ids
  BY <1>0, <1>1 DEF IdsGiven
<1>5. ASSUME NEW s \in {"get", "bundle"}, P!Begin(p, s) PROVE PackagesInv'
  <2>1. PICK i \in given : P!Go(p, [at |-> s, id |-> i])
    BY <1>5 DEF P!Begin
  <2> DEFINE r == [at |-> s, id |-> i]
  <2>2. r \in P!Request /\ r.at = s /\ r.id = i
    BY <1>1, <2>1 DEF P!Request
  <2>3. preq[p].at = "idle"
    BY <1>5 DEF P!Begin, P!At
  <2>4. P!Go(p, r)
    BY <2>1
  <2> HIDE DEF r
  <2>5. UNCHANGED <<packages, bundles, types, jobs, pfaults, given, muddled, lost>>
        /\ pcalls' \in Nat
    BY <1>1, <1>5 DEF P!Begin, P!history
  <2>6. packages' = [k \in DOMAIN packages' |-> packages'[k]]
    BY <1>3, <2>5
  <2>10. RequestStep(p, r)
    BY <1>1, <2>1, <2>2, <2>3, <2>4, <2>5, <2>6 DEF RequestStep
  <2>11. RequestStepTyped
    BY <1>1, <2>1, <2>2, <2>3, <2>4, <2>5, <2>6 DEF RequestStepTyped
  <2> QED BY <2>1, <2>2, <2>4, <2>10, <2>11, RequestStepSound
<1>6. ASSUME P!get(p) PROVE PackagesInv'
  <2> DEFINE r == IF preq[p].id \in DOMAIN packages
                  THEN [preq[p] EXCEPT !.at = "approve"] ELSE P!Idle
  <2>1. preq[p].at = "get" /\ P!Go(p, r)
        /\ UNCHANGED <<packages, bundles, types, jobs, pcalls, pfaults, given, muddled, lost>>
    BY <1>6 DEF P!get, P!At, P!history
  <2>2. r \in P!Request /\ r.at \in {"idle", "approve"} /\ (r.at # "idle" => r.id \in given)
    BY <1>1, <1>4, <2>1, RequestGoesOn, PackagesRequests
  <2> HIDE DEF r
  <2>3. packages' = [k \in DOMAIN packages' |-> packages'[k]]
    BY <1>3, <2>1
  <2>10. RequestStep(p, r)
    BY <1>1, <2>1, <2>2, <2>3 DEF RequestStep
  <2>11. RequestStepTyped
    BY <1>1, <2>1, <2>2, <2>3 DEF RequestStepTyped
  <2> QED BY <2>1, <2>2, <2>10, <2>11, RequestStepSound
<1>7. ASSUME P!deleteBundle(p) PROVE PackagesInv'
  <2> DEFINE r == [preq[p] EXCEPT !.at = "dts"]
  <2>1. preq[p].at = "bundle" /\ P!Go(p, r)
        /\ UNCHANGED <<packages, types, pcalls, pfaults, given, muddled, lost>>
        /\ bundles' = [bundles EXCEPT ![preq[p].id] = "absent"]
        /\ jobs' = [j \in Jobs |-> IF jobs[j].at = "write" /\ jobs[j].id = preq[p].id
                                   THEN [jobs[j] EXCEPT !.at = "unlinked"] ELSE jobs[j]]
    BY <1>7 DEF P!deleteBundle, P!At, P!Doing, P!history
  <2>2. r \in P!Request /\ r.at = "dts" /\ r.id = preq[p].id
    BY <1>1, <1>4, <2>1, RequestGoesOn
  <2> HIDE DEF r
  <2>3. \A j \in Jobs : jobs[j].at = "write" =>
          /\ [jobs[j] EXCEPT !.at = "unlinked"] \in P!Job
          /\ [jobs[j] EXCEPT !.at = "unlinked"].at = "unlinked"
          /\ [jobs[j] EXCEPT !.at = "unlinked"].id = jobs[j].id
    BY <1>1, JobGoesOn
  <2>4. jobs' \in [Jobs -> P!Job]
    BY <1>1, <2>1, <2>3
  <2>5. \A j \in Jobs :
          /\ jobs'[j].id = jobs[j].id
          /\ \/ jobs'[j].at = jobs[j].at
             \/ /\ jobs[j].at = "write" /\ jobs'[j].at = "unlinked"
                /\ jobs[j].id = r.id
    <3> TAKE j \in Jobs
    <3>1. CASE jobs[j].at = "write" /\ jobs[j].id = preq[p].id
      <4>1. jobs'[j] = [jobs[j] EXCEPT !.at = "unlinked"]
        BY <2>1, <3>1
      <4> QED BY <2>2, <2>3, <3>1, <4>1
    <3>2. CASE ~(jobs[j].at = "write" /\ jobs[j].id = preq[p].id)
      <4>1. jobs'[j] = jobs[j]
        BY <2>1, <3>2
      <4> QED BY <4>1
    <3> QED BY <3>1, <3>2
  <2>6. packages' = [k \in DOMAIN packages' |-> packages'[k]]
    BY <1>3, <2>1
  <2>7. /\ bundles' \in [Ids -> {"absent", "part", "whole"}]
        /\ \A i \in Ids : bundles'[i] = bundles[i] \/ i = r.id
    BY <1>1, <2>1, <2>2
  <2>10. RequestStep(p, r)
    BY <1>1, <1>4, <2>1, <2>2, <2>4, <2>5, <2>6, <2>7 DEF RequestStep
  <2>11. RequestStepTyped
    BY <1>1, <1>4, <2>1, <2>2, <2>4, <2>5, <2>6, <2>7 DEF RequestStepTyped
  <2> QED BY <2>1, <2>2, <2>10, <2>11, RequestStepSound
<1>8. ASSUME P!deleteTypes(p) PROVE PackagesInv'
  <2> DEFINE r == [preq[p] EXCEPT !.at = "row"]
  <2>1. preq[p].at = "dts" /\ P!Go(p, r) /\ types' \subseteq types
        /\ UNCHANGED <<packages, bundles, jobs, pcalls, pfaults, given, muddled, lost>>
    BY <1>8 DEF P!deleteTypes, P!At, P!history
  <2>2. r \in P!Request /\ r.at = "row" /\ r.id = preq[p].id
    BY <1>1, <1>4, <2>1, RequestGoesOn
  <2> HIDE DEF r
  <2>3. packages' = [k \in DOMAIN packages' |-> packages'[k]]
    BY <1>3, <2>1
  <2>10. RequestStep(p, r)
    BY <1>1, <1>4, <2>1, <2>2, <2>3 DEF RequestStep
  <2>11. RequestStepTyped
    BY <1>1, <1>4, <2>1, <2>2, <2>3 DEF RequestStepTyped
  <2> QED BY <2>1, <2>2, <2>10, <2>11, RequestStepSound
<1>9. ASSUME P!deleteRow(p) PROVE PackagesInv'
  <2>1. preq[p].at = "row" /\ P!Go(p, P!Idle)
        /\ UNCHANGED <<bundles, types, jobs, pcalls, pfaults, given, muddled, lost>>
        /\ packages' = [k \in DOMAIN packages \ {preq[p].id} |-> packages[k]]
    BY <1>9 DEF P!deleteRow, P!At, P!history
  <2>2. /\ \A k \in DOMAIN packages' : k \in DOMAIN packages /\ packages'[k] = packages[k]
        /\ packages' = [k \in DOMAIN packages' |-> packages'[k]]
        /\ preq[p].id \notin DOMAIN packages'
    BY <2>1
  <2>10. RequestStep(p, P!Idle)
    BY <1>1, <2>1, <2>2, PackagesRequests DEF RequestStep
  <2>11. RequestStepTyped
    BY <1>1, <2>1, <2>2 DEF RequestStepTyped
  <2> QED BY <2>1, <2>2, <2>10, <2>11, RequestStepSound, PackagesRequests
<1>10. ASSUME P!statementFails(p) PROVE PackagesInv'
  <2>1. preq[p].at # "idle" /\ P!Go(p, P!Idle) /\ pfaults' = pfaults + 1
        /\ UNCHANGED <<packages, bundles, types, jobs, pcalls, given, lost>>
        /\ muddled' = IF preq[p].at \in {"dts", "row"} THEN muddled \cup {preq[p].id}
                                                       ELSE muddled
    BY <1>10 DEF P!statementFails, P!Fault, P!At, P!Deleting
  <2>2. packages' = [k \in DOMAIN packages' |-> packages'[k]]
    BY <1>3, <2>1
  <2>3. /\ muddled \subseteq muddled' /\ muddled' \subseteq given
        /\ preq[p].at \in {"dts", "row"} => preq[p].id \in muddled'
    BY <1>1, <1>4, <2>1
  <2>10. RequestStep(p, P!Idle)
    BY <1>1, <2>1, <2>2, <2>3, PackagesRequests DEF RequestStep
  <2>11. RequestStepTyped
    BY <1>1, <2>1, <2>2, <2>3 DEF RequestStepTyped
  <2> QED BY <2>1, <2>2, <2>10, <2>11, RequestStepSound, PackagesRequests
<1> QED BY <1>5, <1>6, <1>7, <1>8, <1>9, <1>10

LEMMA ApproveSound ==
    ASSUME PackagesInv, NEW p \in Procs, P!approve(p)
    PROVE  PackagesInv'
<1>0. PackagesTypeOK /\ IdsGiven
  BY DEF PackagesInv
<1>1. preq[p].at = "approve" /\ preq[p].id \in given /\ preq[p].id \in Ids
  BY <1>0, PackagesParts DEF P!approve, P!At, IdsGiven
<1> DEFINE n == preq[p].id
<1>2. /\ P!SetStatus(n, "bundling") /\ P!Go(p, P!Idle)
      /\ muddled' = IF P!Bundling(n) # {} THEN muddled \cup {n} ELSE muddled
      /\ UNCHANGED <<bundles, types, pcalls, pfaults, given, lost>>
  BY DEF P!approve
<1>3. PICK j \in Jobs : /\ jobs[j].at = "idle"
                        /\ jobs' = [jobs EXCEPT ![j] = [at |-> "fetch", id |-> n]]
  BY DEF P!approve, P!Doing
<1> HIDE DEF n
<1>4. /\ DOMAIN packages' = DOMAIN packages
      /\ packages' \in [DOMAIN packages -> Row]
      /\ \A k \in DOMAIN packages :
           packages'[k].status = IF k = n THEN "bundling" ELSE packages[k].status
  BY <1>0, <1>2, StatusSet DEF P!Statuses
<1>5. /\ preq' \in [Procs -> P!Request] /\ preq'[p] = P!Idle
      /\ \A q \in Procs : q # p => preq'[q] = preq[q]
  BY <1>0, <1>2, RequestGoes, PackagesRequests
<1>6. /\ jobs' \in [Jobs -> P!Job] /\ jobs'[j] = [at |-> "fetch", id |-> n]
      /\ \A k \in Jobs : k # j => jobs'[k] = jobs[k]
  <2>1. [at |-> "fetch", id |-> n] \in P!Job
    BY <1>1 DEF P!Job, n
  <2> QED BY <1>0, <1>3, <2>1, PackagesParts
<1>7. PackagesTypeOK'
  <2>1. muddled' \subseteq given /\ given \subseteq Ids
    BY <1>0, <1>1, <1>2, PackagesParts DEF n
  <2>2. DOMAIN packages \in SUBSET given'
    BY <1>0, <1>2, PackagesTable
  <2> QED BY <1>0, <1>2, <1>4, <1>5, <1>6, <2>1, <2>2, PackagesParts, PackagesTyped
<1>8. IdsGiven'
  <2>1. \A q \in Procs : preq'[q].at # "idle" => preq'[q].id \in given'
    BY <1>0, <1>2, <1>5, PackagesRequests DEF IdsGiven
  <2>2. \A k \in Jobs : jobs'[k].at # "idle" => jobs'[k].id \in given'
    BY <1>0, <1>1, <1>2, <1>6 DEF IdsGiven, n
  <2> QED BY <2>1, <2>2 DEF IdsGiven
<1>9. ASSUME NEW i \in Ids PROVE PackageSound(i)'
  <2>1. PackageSound(i)
    BY <1>9 DEF PackagesInv
  <2>2. Undisturbed(i)' => Undisturbed(i)
    <3>1. InDeletion(i) => InDeletion(i)'
      BY <1>1, <1>5 DEF InDeletion
    <3>2. muddled \subseteq muddled'
      BY <1>2
    <3> QED BY <1>4, <3>1, <3>2 DEF Undisturbed
  <2>3. ~On(j, i) /\ \A k \in Jobs \ {j} : On(k, i)' <=> On(k, i)
    BY <1>3, <1>6 DEF On
  <2>4. On(j, i)' <=> i = n
    BY <1>6 DEF On
  <2>5. CASE i # n
    <3>1. \A k \in Jobs : On(k, i)' => On(k, i) /\ jobs'[k].at = jobs[k].at
      BY <1>6, <2>3, <2>4, <2>5
    <3>2. \A k \in Jobs : On(k, i) => On(k, i)'
      BY <2>3
    <3>3. i \in DOMAIN packages' => /\ i \in DOMAIN packages
                                    /\ packages'[i].status = packages[i].status
      BY <1>4, <2>5
    <3>4. (i \in muddled => i \in muddled') /\ (i \in lost => i \in lost')
          /\ bundles'[i] = bundles[i]
      BY <1>2
    <3> QED BY <2>1, <2>2, <3>1, <3>2, <3>3, <3>4, PackageKept
  <2>6. CASE i = n
    <3>1. i \notin muddled' => \A k \in Jobs : ~On(k, i)
      <4>1. \A k \in Jobs : On(k, i) => k \in P!Bundling(n)
        BY <2>6 DEF On, P!Bundling, P!Doing
      <4> QED BY <1>2, <2>6, <4>1
    <3>2. i \notin muddled' => \A k, l \in Jobs : On(k, i)' /\ On(l, i)' => k = l
      BY <2>3, <3>1
    <3>3. Undisturbed(i)' =>
            /\ packages'[i].status = "bundling"
            /\ \A k \in Jobs : On(k, i)' => jobs'[k].at = "fetch"
      BY <1>4, <1>6, <2>3, <2>6, <3>1 DEF Undisturbed
    <3>4. \E k \in Jobs : On(k, i)'
      BY <2>4, <2>6
    <3> QED BY <3>2, <3>3, <3>4 DEF PackageSound
  <2> QED BY <2>5, <2>6
<1> QED BY <1>7, <1>8, <1>9 DEF PackagesInv

\* What a goroutine's step s leaves of the rest.
LEMMA GoroutineStep ==
    ASSUME PackagesInv, NEW j \in Jobs, jobs[j].at # "idle",
           NEW s \in {"fetch", "open", "write", "unlinked", "fail", "record", "types"},
           P!Goes(j, s) \/ P!Finished(j), UNCHANGED <<preq, given, muddled>>
    PROVE  /\ jobs' \in [Jobs -> P!Job] /\ IdsGiven'
           /\ P!Goes(j, s) => jobs'[j].at = s /\ jobs'[j].id = jobs[j].id
           /\ P!Finished(j) => jobs'[j].at = "idle"
           /\ \A k \in Jobs : k # j => jobs'[k] = jobs[k]
           /\ \A i : \A k \in Jobs : On(k, i)' => On(k, i) \/ k = j
           /\ \A i : \A k \in Jobs : On(k, i) => On(k, i)' \/ k = j
           /\ \A i : Undisturbed(i)' <=> i \in DOMAIN packages' /\ i \notin muddled
                                         /\ ~InDeletion(i)
<1>0. PackagesTypeOK /\ IdsGiven
  BY DEF PackagesInv
<1>1. /\ jobs' \in [Jobs -> P!Job]
      /\ P!Goes(j, s) => jobs'[j].at = s /\ jobs'[j].id = jobs[j].id
      /\ P!Finished(j) => jobs'[j].at = "idle"
      /\ \A k \in Jobs : k # j => jobs'[k] = jobs[k]
  <2>1. CASE P!Goes(j, s)
    <3>1. ~P!Finished(j)
      <4>1. jobs'[j].at = s
        BY <1>0, <2>1, JobGoes
      <4>2. P!Finished(j) => jobs'[j].at = "idle"
        BY <1>0, JobFinishes
      <4> QED BY <4>1, <4>2
    <3> QED BY <1>0, <2>1, <3>1, JobGoes
  <2>2. CASE P!Finished(j)
    <3>1. jobs'[j].at = "idle"
      BY <1>0, <2>2, JobFinishes
    <3>2. ~P!Goes(j, s)
      <4>1. P!Goes(j, s) => jobs'[j].at = s
        BY <1>0, JobGoes
      <4> QED BY <3>1, <4>1
    <3> QED BY <1>0, <2>2, <3>2, JobFinishes
  <2> QED BY <2>1, <2>2
<1>2. IdsGiven'
  <2>1. \A p \in Procs : preq'[p].at # "idle" => preq'[p].id \in given'
    BY <1>0 DEF IdsGiven
  <2>2. \A k \in Jobs : jobs'[k].at # "idle" => jobs'[k].id \in given'
    BY <1>0, <1>1 DEF IdsGiven
  <2> QED BY <2>1, <2>2 DEF IdsGiven
<1>3. \A i : \A k \in Jobs : On(k, i)' => On(k, i) \/ k = j
  BY <1>1 DEF On
<1>4. \A i : \A k \in Jobs : On(k, i) => On(k, i)' \/ k = j
  BY <1>1 DEF On
<1>5. \A i : Undisturbed(i)' <=> i \in DOMAIN packages' /\ i \notin muddled /\ ~InDeletion(i)
  BY DEF Undisturbed, InDeletion
<1> QED BY <1>1, <1>2, <1>3, <1>4, <1>5

LEMMA BundlingGoesOn ==
    ASSUME PackagesInv, NEW j \in Jobs, jobs[j].at \notin {"idle", "types"},
           NEW s \in {"fetch", "open", "write", "fail", "record"}, P!Goes(j, s),
           UNCHANGED <<preq, given, muddled, packages, lost, types, pcalls>>,
           pfaults' \in Nat, bundles' \in [Ids -> {"absent", "part", "whole"}],
           s = "record" => \/ jobs[j].at = "unlinked"
                           \/ bundles'[jobs[j].id] = "whole",
           \A i \in Ids : i # jobs[j].id => bundles'[i] = bundles[i]
    PROVE  PackagesInv'
<1>0. PackagesTypeOK
  BY DEF PackagesInv
<1>1. /\ jobs' \in [Jobs -> P!Job] /\ IdsGiven'
      /\ jobs'[j].at = s /\ jobs'[j].id = jobs[j].id
      /\ \A k \in Jobs : k # j => jobs'[k] = jobs[k]
      /\ \A i : Undisturbed(i)' <=> i \in DOMAIN packages' /\ i \notin muddled
                                    /\ ~InDeletion(i)
  BY GoroutineStep
<1>2. \A i : Undisturbed(i)' <=> Undisturbed(i)
  BY <1>1 DEF Undisturbed
<1>3. \A k \in Jobs, i \in Ids : On(k, i)' <=> On(k, i)
  BY <1>1 DEF On
<1>4. PackagesTypeOK'
  <2>1. packages' \in [DOMAIN packages -> Row] /\ DOMAIN packages \in SUBSET given'
    BY <1>0, PackagesTable
  <2>2. types' \subseteq given' /\ given' \subseteq Ids /\ muddled' \subseteq given'
        /\ lost' \subseteq given' /\ preq' \in [Procs -> P!Request] /\ pcalls' \in Nat
    BY <1>0, PackagesParts
  <2> QED BY <1>0, <1>1, <2>1, <2>2, PackagesTyped
<1>5. ASSUME NEW i \in Ids PROVE PackageSound(i)'
  <2>1. PackageSound(i)
    BY <1>5 DEF PackagesInv
  <2>2. CASE i # jobs[j].id
    <3>1. \A k \in Jobs : On(k, i)' => On(k, i) /\ jobs'[k].at = jobs[k].at
      BY <1>1, <1>3, <2>2 DEF On
    <3>2. bundles'[i] = bundles[i]
      BY <2>2
    <3> QED BY <1>2, <1>3, <2>1, <3>1, <3>2, PackageKept
  <2>3. CASE i = jobs[j].id
    <3>1. On(j, i)
      BY <2>3 DEF On
    <3>2. i \notin muddled' => \A k, l \in Jobs : On(k, i)' /\ On(l, i)' => k = l
      BY <1>3, <2>1 DEF PackageSound
    <3>3. \E k \in Jobs : On(k, i)'
      BY <1>3, <3>1
    <3>4. ASSUME Undisturbed(i)'
          PROVE  /\ \A k \in Jobs : On(k, i)' =>
                      /\ packages'[i].status = "bundling"
                      /\ jobs'[k].at # "unlinked"
                      /\ jobs'[k].at = "record" => bundles'[i] = "whole"
                 /\ packages'[i].status = "available" => bundles'[i] = "whole"
      <4>1. Undisturbed(i) /\ i \notin muddled
        BY <1>2, <3>4 DEF Undisturbed
      <4>2. packages[i].status = "bundling" /\ jobs[j].at # "unlinked"
        BY <2>1, <3>1, <4>1 DEF PackageSound
      <4>3. \A k \in Jobs : On(k, i)' => k = j
        BY <1>3, <2>1, <3>1, <4>1 DEF PackageSound
      <4> QED BY <1>1, <2>3, <4>2, <4>3
    <3> QED BY <3>2, <3>3, <3>4 DEF PackageSound
  <2> QED BY <2>2, <2>3
<1> QED BY <1>1, <1>4, <1>5 DEF PackagesInv

\* The last word about the status, said or lost.
LEMMA BundlingEndsSound ==
    ASSUME PackagesInv, NEW j \in Jobs,
           \/ jobs[j].at = "fail" /\ P!Finished(j)
           \/ jobs[j].at = "record" /\ P!Goes(j, "types"),
           UNCHANGED <<preq, given, muddled, bundles, types, pcalls>>, pfaults' \in Nat,
           \/ /\ lost' = lost
              /\ P!SetStatus(jobs[j].id, IF jobs[j].at = "record" THEN "available" ELSE "error")
           \/ packages' = packages /\ lost' = lost \cup {jobs[j].id}
    PROVE  PackagesInv'
<1>0. PackagesTypeOK /\ IdsGiven
  BY DEF PackagesInv
<1>1. /\ jobs' \in [Jobs -> P!Job] /\ IdsGiven' /\ jobs'[j].at \in {"idle", "types"}
      /\ \A k \in Jobs : k # j => jobs'[k] = jobs[k]
      /\ \A i : \A k \in Jobs : On(k, i)' => On(k, i) \/ k = j
      /\ \A i : \A k \in Jobs : On(k, i) => On(k, i)' \/ k = j
      /\ \A i : Undisturbed(i)' <=> i \in DOMAIN packages' /\ i \notin muddled
                                    /\ ~InDeletion(i)
  BY GoroutineStep
<1>2. /\ DOMAIN packages' = DOMAIN packages /\ packages' \in [DOMAIN packages -> Row]
      /\ \A i \in DOMAIN packages : i # jobs[j].id => packages'[i].status = packages[i].status
      /\ \/ lost' = lost /\ \A i \in DOMAIN packages : i = jobs[j].id =>
              packages'[i].status = IF jobs[j].at = "record" THEN "available" ELSE "error"
         \/ packages' = packages /\ lost' = lost \cup {jobs[j].id}
  <2>1. CASE /\ lost' = lost
             /\ P!SetStatus(jobs[j].id, IF jobs[j].at = "record" THEN "available" ELSE "error")
    <3>1. (IF jobs[j].at = "record" THEN "available" ELSE "error") \in P!Statuses
      BY DEF P!Statuses
    <3>2. /\ DOMAIN packages' = DOMAIN packages /\ packages' \in [DOMAIN packages -> Row]
          /\ \A k \in DOMAIN packages : packages'[k].status =
                IF k = jobs[j].id
                THEN IF jobs[j].at = "record" THEN "available" ELSE "error"
                ELSE packages[k].status
      BY <1>0, <2>1, <3>1, StatusSet
    <3> QED BY <2>1, <3>2
  <2>2. CASE packages' = packages /\ lost' = lost \cup {jobs[j].id}
    BY <1>0, <2>2, PackagesTable
  <2> QED BY <2>1, <2>2
<1>3. ~On(j, jobs[j].id)' /\ \A i : ~On(j, i)'
  BY <1>1 DEF On
<1>4. \A i : Undisturbed(i)' <=> Undisturbed(i)
  BY <1>1, <1>2 DEF Undisturbed
<1>5. PackagesTypeOK'
  <2>1. DOMAIN packages \in SUBSET given'
    BY <1>0, PackagesTable
  <2>2. types' \subseteq given' /\ given' \subseteq Ids /\ muddled' \subseteq given'
        /\ preq' \in [Procs -> P!Request] /\ pcalls' \in Nat
        /\ bundles' \in [Ids -> {"absent", "part", "whole"}]
    BY <1>0, PackagesParts
  <2>3. lost' \subseteq given'
    BY <1>0, <1>2, PackagesParts DEF IdsGiven
  <2> QED BY <1>0, <1>1, <1>2, <2>1, <2>2, <2>3, PackagesTyped
<1>6. ASSUME NEW i \in Ids PROVE PackageSound(i)'
  <2>1. PackageSound(i)
    BY <1>6 DEF PackagesInv
  <2>2. CASE i # jobs[j].id
    <3>1. \A k \in Jobs : On(k, i)' => On(k, i) /\ jobs'[k].at = jobs[k].at
      BY <1>1, <1>3 DEF On
    <3>2. \A k \in Jobs : On(k, i) => On(k, i)'
      BY <1>1, <2>2 DEF On
    <3>3. i \in DOMAIN packages' => /\ i \in DOMAIN packages
                                    /\ packages'[i].status = packages[i].status
      BY <1>2, <2>2
    <3>4. (i \in muddled => i \in muddled') /\ (i \in lost => i \in lost')
          /\ bundles'[i] = bundles[i]
      BY <1>2
    <3> QED BY <1>4, <2>1, <3>1, <3>2, <3>3, <3>4, PackageKept
  <2>3. CASE i = jobs[j].id
    <3>1. On(j, i)
      BY <2>3 DEF On
    <3>2. \A k \in Jobs : On(k, i)' => On(k, i) /\ k # j
      BY <1>1, <1>3
    <3>3. i \notin muddled' => \A k \in Jobs : ~On(k, i)'
      BY <2>1, <3>1, <3>2 DEF PackageSound
    <3>4. i \in DOMAIN packages' /\ i \notin lost' => packages'[i].status # "bundling"
      BY <1>2, <2>3
    <3>5. ASSUME Undisturbed(i)', packages'[i].status = "available"
          PROVE  bundles'[i] = "whole"
      <4>1. Undisturbed(i) /\ i \in DOMAIN packages
        BY <1>4, <3>5 DEF Undisturbed
      <4>2. packages[i].status = "bundling" /\ (jobs[j].at = "record" => bundles[i] = "whole")
        BY <2>1, <3>1, <4>1 DEF PackageSound
      <4> QED BY <1>2, <2>3, <3>5, <4>1, <4>2
    <3>6. Undisturbed(i)' => i \notin muddled'
      BY DEF Undisturbed
    <3> QED BY <3>3, <3>4, <3>5, <3>6 DEF PackageSound
  <2> QED BY <2>2, <2>3
<1> QED BY <1>1, <1>5, <1>6 DEF PackagesInv

LEMMA GoroutinesSound ==
    ASSUME PackagesInv, NEW j \in Jobs, P!JobStep(j) \/ P!putFails(j) \/ P!updateFails(j)
    PROVE  PackagesInv'
<1>0. PackagesTypeOK /\ IdsGiven
  BY DEF PackagesInv
<1>1. /\ bundles \in [Ids -> {"absent", "part", "whole"}]
      /\ pcalls \in Nat /\ pfaults \in Nat /\ given \subseteq Ids
      /\ jobs[j].at # "idle" => jobs[j].id \in given /\ jobs[j].id \in Ids
  BY <1>0, PackagesParts DEF IdsGiven
<1>2. ASSUME P!fetchBundle(j) PROVE PackagesInv'
  <2>1. PICK s \in {"open", "fail"} : P!Goes(j, s)
    BY <1>2 DEF P!fetchBundle
  <2>2. /\ jobs[j].at = "fetch"
        /\ UNCHANGED <<packages, bundles, types, preq, pcalls, pfaults, given, muddled, lost>>
    BY <1>2 DEF P!fetchBundle, P!Doing, P!history
  <2> QED BY <1>1, <2>1, <2>2, BundlingGoesOn
<1>3. ASSUME P!openBundle(j) PROVE PackagesInv'
  <2>1. jobs[j].at = "open" /\ P!Goes(j, "write")
        /\ UNCHANGED <<packages, types, preq, pcalls, pfaults, given, muddled, lost>>
        /\ bundles' = [bundles EXCEPT ![jobs[j].id] = "part"]
    BY <1>3 DEF P!openBundle, P!Doing, P!history
  <2>2. /\ bundles' \in [Ids -> {"absent", "part", "whole"}]
        /\ \A i \in Ids : i # jobs[j].id => bundles'[i] = bundles[i]
    BY <1>1, <2>1
  <2> QED BY <1>1, <2>1, <2>2, BundlingGoesOn
<1>4. ASSUME P!writeBundle(j) PROVE PackagesInv'
  <2>1. P!Goes(j, "record")
        /\ UNCHANGED <<packages, types, preq, pcalls, pfaults, given, muddled, lost>>
        /\ \/ jobs[j].at = "write" /\ bundles' = [bundles EXCEPT ![jobs[j].id] = "whole"]
           \/ jobs[j].at = "unlinked" /\ bundles' = bundles
    BY <1>4 DEF P!writeBundle, P!Doing, P!history
  <2>2. /\ bundles' \in [Ids -> {"absent", "part", "whole"}]
        /\ \A i \in Ids : i # jobs[j].id => bundles'[i] = bundles[i]
        /\ jobs[j].at = "unlinked" \/ bundles'[jobs[j].id] = "whole"
    BY <1>1, <2>1
  <2> QED BY <1>1, <2>1, <2>2, BundlingGoesOn
<1>5. ASSUME P!recordError(j) PROVE PackagesInv'
  <2>1. jobs[j].at = "fail" /\ P!Finished(j) /\ P!SetStatus(jobs[j].id, "error")
        /\ UNCHANGED <<bundles, types, preq, pcalls, pfaults, given, muddled, lost>>
    BY <1>5 DEF P!recordError, P!Doing, P!history
  <2> QED BY <1>1, <2>1, BundlingEndsSound
<1>6. ASSUME P!recordAvailable(j) PROVE PackagesInv'
  <2>1. jobs[j].at = "record" /\ P!Goes(j, "types") /\ P!SetStatus(jobs[j].id, "available")
        /\ UNCHANGED <<bundles, types, preq, pcalls, pfaults, given, muddled, lost>>
    BY <1>6 DEF P!recordAvailable, P!Doing, P!history
  <2> QED BY <1>1, <2>1, BundlingEndsSound
<1>7. ASSUME P!storeTypes(j) PROVE PackagesInv'
  <2>1. jobs[j].at = "types" /\ P!Finished(j) /\ types' \in {types, types \cup {jobs[j].id}}
        /\ UNCHANGED <<packages, bundles, preq, pcalls, pfaults, given, muddled, lost>>
    BY <1>7 DEF P!storeTypes, P!Doing, P!history
  <2>2. /\ jobs' \in [Jobs -> P!Job] /\ IdsGiven' /\ jobs'[j].at = "idle"
        /\ \A k \in Jobs : k # j => jobs'[k] = jobs[k]
    BY <2>1, GoroutineStep
  <2>3. PackagesTypeOK'
    <3>1. packages' \in [DOMAIN packages -> Row] /\ DOMAIN packages \in SUBSET given'
      BY <1>0, <2>1, PackagesTable
    <3>2. types' \subseteq given'
      BY <1>0, <1>1, <2>1, PackagesParts
    <3> QED BY <1>0, <2>1, <2>2, <3>1, <3>2, PackagesParts, PackagesTyped
  <2>4. ASSUME NEW i \in Ids PROVE PackageSound(i)'
    <3>1. PackageSound(i)
      BY <2>4 DEF PackagesInv
    <3>2. \A k \in Jobs : On(k, i)' => On(k, i) /\ jobs'[k].at = jobs[k].at
      BY <2>1, <2>2 DEF On
    <3>3. \A k \in Jobs : On(k, i) => On(k, i)'
      BY <2>1, <2>2 DEF On
    <3>4. Undisturbed(i)' => Undisturbed(i)
      BY <2>1 DEF Undisturbed, InDeletion
    <3> QED BY <2>1, <3>1, <3>2, <3>3, <3>4, PackageKept
  <2> QED BY <2>2, <2>3, <2>4 DEF PackagesInv
<1>8. ASSUME P!putFails(j) PROVE PackagesInv'
  <2>1. jobs[j].at \in {"open", "write", "unlinked"} /\ P!Goes(j, "fail")
        /\ pfaults' = pfaults + 1
        /\ UNCHANGED <<packages, bundles, types, preq, pcalls, given, muddled, lost>>
    BY <1>8 DEF P!putFails, P!Fault, P!history
  <2>2. pfaults' \in Nat
    BY <1>1, <2>1
  <2> QED BY <1>1, <2>1, <2>2, BundlingGoesOn
<1>9. ASSUME P!updateFails(j) PROVE PackagesInv'
  <2>1. /\ \/ jobs[j].at = "fail" /\ P!Finished(j)
           \/ jobs[j].at = "record" /\ P!Goes(j, "types")
        /\ pfaults' = pfaults + 1 /\ lost' = lost \cup {jobs[j].id}
        /\ UNCHANGED <<packages, bundles, types, preq, pcalls, given, muddled>>
    BY <1>9 DEF P!updateFails, P!Fault, P!Doing
  <2>2. pfaults' \in Nat
    BY <1>1, <2>1
  <2> QED BY <1>1, <2>1, <2>2, BundlingEndsSound
<1> QED BY <1>2, <1>3, <1>4, <1>5, <1>6, <1>7, <1>8, <1>9 DEF P!JobStep

\* The process stops: what it was deleting is marked, and what it was bundling.
LEMMA RestartSound ==
    ASSUME PackagesInv, P!Restart
    PROVE  PackagesInv'
<1>0. PackagesTypeOK /\ IdsGiven
  BY DEF PackagesInv
<1>1. /\ preq' = [p \in Procs |-> P!Idle] /\ jobs' = [j \in Jobs |-> P!Idle]
      /\ pfaults' = pfaults + 1
      /\ muddled' = muddled \cup {preq[p].id : p \in P!Deleting}
      /\ lost' = lost \cup {jobs[j].id : j \in {k \in Jobs : jobs[k].at # "idle"}}
      /\ UNCHANGED <<packages, bundles, types, pcalls, given>>
  BY DEF P!Restart, P!Fault, P!Doing
<1>2. \A p \in P!Deleting : p \in Procs /\ preq[p].at \in {"dts", "row"}
  BY DEF P!Deleting, P!At
<1>3. \A i : InDeletion(i) => i \in muddled'
  BY <1>1 DEF InDeletion, P!Deleting, P!At
<1>4. \A i : \A j \in Jobs : On(j, i) => i \in lost'
  BY <1>1 DEF On
<1>5. \A i : \A j \in Jobs : ~On(j, i)'
  BY <1>1, PackagesRequests DEF On
<1>6. PackagesTypeOK'
  <2>1. packages' \in [DOMAIN packages -> Row] /\ DOMAIN packages \in SUBSET given'
    BY <1>0, <1>1, PackagesTable
  <2>2. muddled' \subseteq given' /\ lost' \subseteq given'
    BY <1>0, <1>1, <1>2, PackagesParts DEF IdsGiven
  <2>3. preq' \in [Procs -> P!Request] /\ jobs' \in [Jobs -> P!Job]
    BY <1>1, PackagesRequests
  <2>4. pfaults' \in Nat /\ pcalls' \in Nat /\ given' \subseteq Ids /\ types' \subseteq given'
        /\ bundles' \in [Ids -> {"absent", "part", "whole"}]
    BY <1>0, <1>1, PackagesParts
  <2> QED BY <1>0, <2>1, <2>2, <2>3, <2>4, PackagesTyped
<1>7. IdsGiven'
  BY <1>1, PackagesRequests DEF IdsGiven
<1>8. ASSUME NEW i \in Ids PROVE PackageSound(i)'
  <2>1. PackageSound(i)
    BY <1>8 DEF PackagesInv
  <2>2. Undisturbed(i)' => Undisturbed(i)
    BY <1>1, <1>3 DEF Undisturbed
  <2> QED BY <1>1, <1>4, <1>5, <2>1, <2>2, PackageKept
<1> QED BY <1>6, <1>7, <1>8 DEF PackagesInv

LEMMA PackagesStep ==
    ASSUME PackagesInv, P!Next
    PROVE  PackagesInv'
<1>1. ASSUME NEW i \in Ids, NEW n \in Names, P!RequestPackage(i, n)
      PROVE  PackagesInv'
  BY <1>1, RequestPackageSound
<1>2. ASSUME NEW p \in Procs,
             P!Begin(p, "get") \/ P!Begin(p, "bundle") \/ P!Step(p) \/ P!statementFails(p)
      PROVE  PackagesInv'
  BY <1>2, RequestsSound, ApproveSound DEF P!Step
<1>3. ASSUME NEW j \in Jobs, P!JobStep(j) \/ P!putFails(j) \/ P!updateFails(j)
      PROVE  PackagesInv'
  BY <1>3, GoroutinesSound
<1>4. ASSUME P!Restart PROVE PackagesInv'
  BY <1>4, RestartSound
<1> QED BY <1>1, <1>2, <1>3, <1>4 DEF P!Next

LEMMA PackagesInit ==
    ASSUME P!Init
    PROVE  PackagesInv
<1>1. \A i \in Ids : PackageSound(i)
  BY PackagesRequests DEF P!Init, PackageSound, On, Undisturbed
<1> QED BY <1>1, PackagesInitType DEF PackagesInv

LEMMA PackagesStutter ==
    ASSUME PackagesInv, UNCHANGED pvars
    PROVE  PackagesInv'
BY DEF pvars, PackagesInv, PackagesTypeOK, P!PackagesTypeOK, IdsGiven, PackageSound, On,
       Undisturbed, InDeletion

LEMMA PackagesUsable ==
    ASSUME PackagesInv
    PROVE  AvailableIsUsable
<1> SUFFICES ASSUME NEW i \in DOMAIN packages, packages[i].status = "available",
                    i \notin muddled, i \notin {preq[p].id : p \in P!Deleting}
             PROVE  i \in P!Usable
  BY DEF AvailableIsUsable, P!AvailableIsUsable
<1>1. i \in Ids
  BY PackagesTable DEF PackagesInv
<1>2. ~InDeletion(i)
  BY DEF InDeletion, P!Deleting, P!At
<1>3. bundles[i] = "whole"
  BY <1>1, <1>2 DEF PackagesInv, PackageSound, Undisturbed
<1> QED BY <1>3 DEF P!Usable
-----------------------------------------------------------------------------
(* Frontends: types.                                                       *)

Frontend == [slug : Slugs, active : VersionIds \cup {None}]
Upload == [frontend : FrontendIds, archive : Archives]
PutRequest == [at : {"put"}, f : FrontendIds, v : VersionIds,
               rest : Seq(ZipNames), count : Nat]
WipeRequest == [at : {"wipe"}, f : FrontendIds, listed : SUBSET VersionIds,
                rest : SUBSET VersionIds]
VersionSteps == {"remove", "row", "clear", "check", "activate"}
VersionRequest == [at : VersionSteps, f : FrontendIds, v : VersionIds]

LEMMA FrontendsTables ==
    ASSUME FrontendsTypeOK
    PROVE  /\ frontends \in [DOMAIN frontends -> Frontend]
           /\ DOMAIN frontends \subseteq FrontendIds
           /\ versions \in [DOMAIN versions -> F!Version]
           /\ DOMAIN versions \subseteq VersionIds
<1>1. PICK D \in SUBSET FrontendIds : frontends \in [D -> Frontend]
  BY DEF FrontendsTypeOK, F!FrontendsTypeOK, Frontend
<1>2. PICK E \in SUBSET VersionIds : versions \in [E -> F!Version]
  BY DEF FrontendsTypeOK, F!FrontendsTypeOK
<1> QED BY <1>1, <1>2

LEMMA FrontendsParts ==
    ASSUME FrontendsTypeOK
    PROVE  /\ files \subseteq FrontendIds \X VersionIds \X Entries
           /\ freq \in [Procs -> F!Request]
           /\ fcalls \in Nat /\ ffaults \in Nat
           /\ uploads \in [VersionIds -> {None} \cup Upload]
           /\ removed \subseteq VersionIds /\ stray \subseteq VersionIds
           /\ loose \subseteq VersionIds
BY DEF FrontendsTypeOK, F!FrontendsTypeOK, Upload

LEMMA FrontendsTyped ==
    ASSUME \E D \in SUBSET FrontendIds : frontends' \in [D -> Frontend],
           \E D \in SUBSET VersionIds : versions' \in [D -> F!Version],
           files' \subseteq FrontendIds \X VersionIds \X Entries,
           freq' \in [Procs -> F!Request],
           fcalls' \in Nat, ffaults' \in Nat,
           uploads' \in [VersionIds -> {None} \cup Upload],
           removed' \subseteq VersionIds, stray' \subseteq VersionIds,
           loose' \subseteq VersionIds
    PROVE  FrontendsTypeOK'
BY DEF FrontendsTypeOK, F!FrontendsTypeOK, Upload, Frontend

\* The shapes of a request, by the step it takes next.
LEMMA FrontendsRequests ==
    /\ F!Idle \in F!Request /\ F!Idle.at = "idle"
    /\ \A r \in F!Request :
         /\ r.at \in {"idle", "put", "list", "wipe", "get"} \cup VersionSteps
         /\ r.at # "idle" => r.f \in FrontendIds
         /\ r.at = "put" => r \in PutRequest
         /\ r.at = "wipe" => r \in WipeRequest
         /\ r.at \in VersionSteps => r \in VersionRequest
    /\ PutRequest \subseteq F!Request
    /\ WipeRequest \subseteq F!Request
    /\ VersionRequest \subseteq F!Request
    /\ \A f \in FrontendIds : /\ [at |-> "get", f |-> f] \in F!Request
                              /\ [at |-> "list", f |-> f] \in F!Request
<1> USE DEF F!Request, F!Idle, PutRequest, WipeRequest, VersionRequest, VersionSteps
<1>1. F!Idle \in F!Request /\ F!Idle.at = "idle"
  OBVIOUS
<1>2. ASSUME NEW r \in F!Request
      PROVE  /\ r.at \in {"idle", "put", "list", "wipe", "get"} \cup VersionSteps
             /\ r.at # "idle" => r.f \in FrontendIds
             /\ r.at = "put" => r \in PutRequest
             /\ r.at = "wipe" => r \in WipeRequest
             /\ r.at \in VersionSteps => r \in VersionRequest
  BY <1>2
<1>3. /\ PutRequest \subseteq F!Request
      /\ WipeRequest \subseteq F!Request
      /\ VersionRequest \subseteq F!Request
  OBVIOUS
<1>4. \A f \in FrontendIds : /\ [at |-> "get", f |-> f] \in F!Request
                             /\ [at |-> "list", f |-> f] \in F!Request
  OBVIOUS
<1> QED BY <1>1, <1>2, <1>3, <1>4

LEMMA RequestServed ==
    ASSUME FrontendsTypeOK, NEW p \in Procs, NEW r \in F!Request, F!Go(p, r)
    PROVE  /\ freq' \in [Procs -> F!Request] /\ freq'[p] = r
           /\ \A q \in Procs : q # p => freq'[q] = freq[q]
BY FrontendsParts DEF F!Go

LEMMA VersionGoesOn ==
    ASSUME NEW r \in VersionRequest, NEW step \in VersionSteps
    PROVE  LET s == [r EXCEPT !.at = step]
           IN s \in VersionRequest /\ s.at = step /\ s.f = r.f /\ s.v = r.v
BY DEF VersionRequest

-----------------------------------------------------------------------------
(* Frontends: versions, their files and the requests about them.           *)

Putting(q, v) == freq[q].at = "put" /\ freq[q].v = v

\* The id of an upload that is over: its row was inserted, or never will be.
Settled(v) ==
    v \in VersionIds /\ uploads[v] # None /\ \A q \in Procs : ~Putting(q, v)

NoFiles(v) == \A file \in files : file[2] # v

RowsOwned ==
    \A v \in DOMAIN versions :
      Settled(v) /\ versions[v].frontend_id = uploads[v].frontend

MarksSettled == \A v \in removed \cup loose : Settled(v)

FilesPlaced ==
    \A file \in files :
      uploads[file[2]] # None /\ uploads[file[2]].frontend = file[1]

RowStored(v) ==
    /\ F!Stored(uploads[v].frontend, v) = F!CleanedNames(uploads[v].archive)
    /\ versions[v].file_count = Len(uploads[v].archive)

RowsStored == \A v \in DOMAIN versions \ removed : RowStored(v)

FilesListed ==
    \A file \in files :
      \/ file[2] \in DOMAIN versions \cup stray
      \/ \E p \in Procs : Putting(p, file[2])

Clearing(f, v) ==
    \E p \in Procs : freq[p].at = "clear" /\ freq[p].f = f /\ freq[p].v = v

Serving(f, v) ==
    /\ v \in VersionIds /\ uploads[v] # None /\ uploads[v].frontend = f
    /\ v \in DOMAIN versions \cup loose \/ Clearing(f, v)

ActiveServed ==
    \A f \in DOMAIN frontends : \A v :
      frontends[f].active = v /\ v # None => Serving(f, v)

\* The first n files of an archive are stored and counted, the rest is to come.
UpTo(archive, rest, n) ==
    /\ Len(archive) = n + Len(rest)
    /\ \A i \in 1..Len(rest) : rest[i] = archive[n + i]

FirstNames(archive, n) == {cleanName[archive[i]] : i \in 1..n}

\* An upload has its version id for itself, and has stored and counted the
\* files it is through with.
Uploading(p) ==
    LET r == freq[p]
        archive == uploads[r.v].archive
    IN r.at = "put" =>
         /\ uploads[r.v] # None /\ uploads[r.v].frontend = r.f
         /\ UpTo(archive, r.rest, r.count)
         /\ F!Stored(r.f, r.v) = FirstNames(archive, r.count)
         /\ \A q \in Procs : Putting(q, r.v) => q = p

\* A deletion has emptied the directories it is through with.
Wiping(p) ==
    freq[p].at = "wipe" =>
      /\ freq[p].rest \subseteq freq[p].listed
      /\ \A v \in freq[p].listed :
           /\ Settled(v) /\ uploads[v].frontend = freq[p].f
           /\ v \in freq[p].rest \/ NoFiles(v)

Naming(p) == freq[p].at \in VersionSteps => Settled(freq[p].v)

RemovingRow(p) ==
    freq[p].at = "row" /\ uploads[freq[p].v].frontend = freq[p].f =>
      NoFiles(freq[p].v)

\* A checked activation may be overtaken by a deletion of the version, which
\* marks it, or of the whole frontend.
Activating(p) ==
    freq[p].at = "activate" =>
      /\ uploads[freq[p].v].frontend = freq[p].f
      /\ \/ freq[p].v \in DOMAIN versions \cup loose
         \/ freq[p].f \notin DOMAIN frontends

Requesting(p) ==
    Uploading(p) /\ Wiping(p) /\ Naming(p) /\ RemovingRow(p) /\ Activating(p)

FrontendsInv ==
    /\ FrontendsTypeOK
    /\ RowsOwned /\ MarksSettled /\ FilesPlaced
    /\ RowsStored /\ FilesListed /\ ActiveServed
    /\ \A p \in Procs : Requesting(p)

\* A file of version v in frontend f has v in its second place.
LEMMA StoredFile ==
    \A f, v, e : <<f, v, e>>[1] = f /\ <<f, v, e>>[2] = v /\ <<f, v, e>>[3] = e
OBVIOUS

\* The files of version v are left alone.
FilesKept(v) == \A file : file[2] = v => (file \in files' <=> file \in files)

LEMMA StoredKept ==
    ASSUME NEW f, NEW v, FilesKept(v)
    PROVE  F!Stored(f, v)' = F!Stored(f, v)
<1>1. \A e : <<f, v, e>> \in files' <=> <<f, v, e>> \in files
  BY StoredFile DEF FilesKept
<1> QED BY <1>1 DEF F!Stored

\* What a step keeps of the uploads.
UploadsKept ==
    /\ \A v \in VersionIds : uploads[v] # None => uploads'[v] = uploads[v]
    /\ \A v : Settled(v) => Settled(v)'

LEMMA SettledKept ==
    ASSUME uploads' = uploads,
           \A q \in Procs : \A v : Putting(q, v)' => Putting(q, v)
    PROVE  UploadsKept
BY DEF UploadsKept, Settled

\* A request that a step does not serve.
LEMMA RequestKept ==
    ASSUME FrontendsTypeOK, NEW p \in Procs, Requesting(p), freq'[p] = freq[p],
           UploadsKept,
           freq[p].at = "put" =>
             /\ FilesKept(freq[p].v)
             /\ \A q \in Procs : Putting(q, freq[p].v)' => Putting(q, freq[p].v),
           \A v : Settled(v) /\ NoFiles(v) => NoFiles(v)',
           freq[p].at = "activate" =>
             /\ freq[p].v \in DOMAIN versions \cup loose =>
                  \/ freq[p].v \in DOMAIN versions' \cup loose'
                  \/ freq[p].f \notin DOMAIN frontends'
             /\ freq[p].f \notin DOMAIN frontends => freq[p].f \notin DOMAIN frontends'
    PROVE  Requesting(p)'
<1>0. freq[p] \in F!Request
  BY FrontendsParts
<1>1. freq[p].at \in {"put"} \cup VersionSteps => freq[p].v \in VersionIds
  BY <1>0, FrontendsRequests DEF PutRequest, VersionRequest
<1>2. \A v : Settled(v) => uploads'[v] = uploads[v] /\ Settled(v)'
  BY DEF UploadsKept, Settled
<1>3. Uploading(p)'
  <2> SUFFICES ASSUME freq[p].at = "put" PROVE Uploading(p)'
    BY DEF Uploading
  <2>1. uploads'[freq[p].v] = uploads[freq[p].v]
    BY <1>1 DEF Requesting, Uploading, UploadsKept
  <2>2. F!Stored(freq[p].f, freq[p].v)' = F!Stored(freq[p].f, freq[p].v)
    <3>1. \A f, v : FilesKept(v) => F!Stored(f, v)' = F!Stored(f, v)
      BY StoredKept
    <3> QED BY <3>1 DEF F!Stored
  <2> QED BY <2>1, <2>2 DEF Requesting, Uploading, F!Stored
<1>4. Wiping(p)'
  BY <1>2 DEF Requesting, Wiping
<1>5. Naming(p)'
  BY <1>2 DEF Requesting, Naming
<1>6. RemovingRow(p)'
  <2>1. freq[p].at = "row" => Settled(freq[p].v)
    BY DEF Requesting, Naming, VersionSteps
  <2> QED BY <1>2, <2>1 DEF Requesting, RemovingRow
<1>7. Activating(p)'
  <2>1. freq[p].at = "activate" => Settled(freq[p].v)
    BY DEF Requesting, Naming, VersionSteps
  <2> QED BY <1>2, <2>1 DEF Requesting, Activating
<1> QED BY <1>3, <1>4, <1>5, <1>6, <1>7 DEF Requesting

\* Rows that stay, with their files untouched unless a delete has begun.
LEMMA RowsKept ==
    ASSUME FrontendsInv, UploadsKept,
           \A v \in DOMAIN versions' : v \in DOMAIN versions /\ versions'[v] = versions[v],
           removed \subseteq removed',
           \A v \in DOMAIN versions' \ removed' : FilesKept(v)
    PROVE  RowsOwned' /\ RowsStored'
<1>1. \A v : Settled(v) => uploads'[v] = uploads[v] /\ Settled(v)'
  BY DEF UploadsKept, Settled
<1>2. RowsOwned'
  BY <1>1 DEF FrontendsInv, RowsOwned
<1>3. ASSUME NEW v \in DOMAIN versions' \ removed'
      PROVE  RowStored(v)'
  <2>1. /\ v \in DOMAIN versions \ removed /\ versions'[v] = versions[v]
        /\ uploads'[v] = uploads[v]
    BY <1>1, <1>3 DEF FrontendsInv, RowsOwned
  <2>2. \A f : F!Stored(f, v)' = F!Stored(f, v)
    BY <1>3, StoredKept
  <2>3. /\ F!Stored(uploads[v].frontend, v) = F!CleanedNames(uploads[v].archive)
        /\ versions[v].file_count = Len(uploads[v].archive)
    BY <2>1 DEF FrontendsInv, RowsStored, RowStored
  <2> QED BY <2>1, <2>2, <2>3 DEF F!Stored, RowStored
<1> QED BY <1>2, <1>3 DEF RowsStored

LEMMA MarksKept ==
    ASSUME FrontendsInv, UploadsKept,
           \A v \in removed' \cup loose' : v \in removed \cup loose \/ Settled(v)
    PROVE  MarksSettled'
BY DEF FrontendsInv, UploadsKept, MarksSettled

LEMMA PlacesKept ==
    ASSUME FrontendsInv, UploadsKept, files' \subseteq files
    PROVE  FilesPlaced'
<1>1. \A file \in files : file[2] \in VersionIds
  BY FrontendsParts DEF FrontendsInv
<1> QED BY <1>1 DEF FrontendsInv, UploadsKept, FilesPlaced

LEMMA ListKept ==
    ASSUME FrontendsInv, files' \subseteq files,
           \A v : (v \in DOMAIN versions \cup stray \/ \E p \in Procs : Putting(p, v)) =>
                    \/ v \in DOMAIN versions' \cup stray'
                    \/ \E p \in Procs : Putting(p, v)'
                    \/ NoFiles(v)'
    PROVE  FilesListed'
BY DEF FrontendsInv, FilesListed, NoFiles

LEMMA ServingKept ==
    ASSUME FrontendsInv, UploadsKept,
           \A f \in DOMAIN frontends' :
             \/ frontends'[f].active = None
             \/ \A v : frontends'[f].active = v => Serving(f, v)'
             \/ /\ f \in DOMAIN frontends /\ frontends'[f].active = frontends[f].active
                /\ \A v : Settled(v) /\ uploads[v].frontend = f =>
                     ((v \in DOMAIN versions \cup loose \/ Clearing(f, v)) =>
                       (\/ v \in DOMAIN versions' \cup loose' \/ Clearing(f, v)'
                        \/ frontends'[f].active # v))
    PROVE  ActiveServed'
<1> USE DEF Clearing
<1> SUFFICES ASSUME NEW f \in DOMAIN frontends', NEW v, frontends'[f].active = v,
                    v # None
             PROVE  Serving(f, v)'
  BY DEF ActiveServed
<1> SUFFICES ASSUME ~Serving(f, v)' PROVE FALSE
  OBVIOUS
<1>1. f \in DOMAIN frontends /\ frontends[f].active = v
  OBVIOUS
<1>2. Serving(f, v)
  BY <1>1 DEF FrontendsInv, ActiveServed
<1>3. Settled(v)
  <2>1. v \in DOMAIN versions => Settled(v)
    BY DEF FrontendsInv, RowsOwned
  <2>2. v \in loose => Settled(v)
    BY DEF FrontendsInv, MarksSettled
  <2>3. ASSUME NEW p \in Procs, freq[p].at = "clear", freq[p].v = v PROVE Settled(v)
    BY <2>3 DEF FrontendsInv, Requesting, Naming, VersionSteps
  <2> QED BY <1>2, <2>1, <2>2, <2>3 DEF Serving
<1>4. uploads'[v] = uploads[v]
  BY <1>3 DEF UploadsKept, Settled
<1>5. v \in DOMAIN versions' \cup loose' \/ Clearing(f, v)'
  BY <1>1, <1>2, <1>3 DEF Serving
<1> QED BY <1>1, <1>2, <1>4, <1>5 DEF Serving

-----------------------------------------------------------------------------
(* Frontends: the steps.                                                   *)

\* Nothing is written: a request starts, lists, is refused, or passes a check.
LEMMA ReadSound ==
    ASSUME FrontendsInv, NEW p \in Procs, NEW r \in F!Request, F!Go(p, r),
           freq[p].at \notin {"put", "clear"}, r.at \notin {"put", "row"},
           r.at = "wipe" =>
             /\ r.rest \subseteq r.listed
             /\ \A v \in r.listed :
                  Settled(v) /\ uploads[v].frontend = r.f /\ v \in r.rest,
           r.at \in VersionSteps => Settled(r.v),
           r.at = "activate" => r.v \in DOMAIN versions /\ uploads[r.v].frontend = r.f,
           UNCHANGED <<frontends, versions, files, ffaults, uploads, removed, stray, loose>>,
           fcalls' \in Nat
    PROVE  FrontendsInv'
<1>0. FrontendsTypeOK
  BY DEF FrontendsInv
<1>1. /\ freq' \in [Procs -> F!Request] /\ freq'[p] = r
      /\ \A q \in Procs : q # p => freq'[q] = freq[q]
  BY <1>0, RequestServed
<1>2. FrontendsTypeOK'
  BY <1>0, <1>1, FrontendsTables, FrontendsParts, FrontendsTyped
<1>3. \A q \in Procs : \A v : Putting(q, v)' <=> Putting(q, v)
  BY <1>1 DEF Putting
<1>4. UploadsKept
  BY <1>3, SettledKept
<1>5. \A v : FilesKept(v) /\ (NoFiles(v)' <=> NoFiles(v))
  BY DEF FilesKept, NoFiles
<1>6. RowsOwned' /\ RowsStored'
  BY <1>4, <1>5, RowsKept
<1>7. MarksSettled'
  BY <1>4, MarksKept
<1>8. FilesPlaced'
  BY <1>4, PlacesKept
<1>9. FilesListed'
  BY <1>3, ListKept
<1>10. ActiveServed'
  <2>1. \A f, v : Clearing(f, v) => Clearing(f, v)'
    BY <1>1 DEF Clearing
  <2> QED BY <1>4, <2>1, ServingKept
<1>11. ASSUME NEW q \in Procs PROVE Requesting(q)'
  <2>1. Requesting(q)
    BY DEF FrontendsInv
  <2>2. CASE q # p
    BY <1>0, <1>1, <1>3, <1>4, <1>5, <2>1, <2>2, RequestKept
  <2>3. CASE q = p
    <3>1. Uploading(q)' /\ RemovingRow(q)'
      BY <1>1, <2>3 DEF Uploading, RemovingRow
    <3>4. Wiping(q)'
      BY <1>1, <1>4, <2>3 DEF Wiping, UploadsKept
    <3>2. Naming(q)'
      BY <1>1, <1>4, <2>3 DEF Naming, UploadsKept
    <3>3. Activating(q)'
      BY <1>1, <2>3 DEF Activating
    <3> QED BY <3>1, <3>2, <3>3, <3>4 DEF Requesting
  <2> QED BY <2>2, <2>3
<1> QED BY <1>2, <1>6, <1>7, <1>8, <1>9, <1>10, <1>11 DEF FrontendsInv

LEMMA CreateSound ==
    ASSUME FrontendsInv, NEW f \in FrontendIds, NEW slug \in Slugs, F!Create(f, slug)
    PROVE  FrontendsInv'
<1>0. FrontendsTypeOK
  BY DEF FrontendsInv
<1>1. /\ F!Fresh(f)
      /\ frontends' = [g \in DOMAIN frontends \cup {f} |->
                         IF g = f THEN [slug |-> slug, active |-> None] ELSE frontends[g]]
      /\ UNCHANGED <<versions, files, freq, fcalls, ffaults, uploads, removed, stray, loose>>
  BY DEF F!Create, F!history
<1>2. FrontendsTypeOK'
  <2>1. [slug |-> slug, active |-> None] \in Frontend
    BY DEF Frontend
  <2>2. frontends' \in [DOMAIN frontends \cup {f} -> Frontend]
        /\ DOMAIN frontends \cup {f} \in SUBSET FrontendIds
    BY <1>0, <1>1, <2>1, FrontendsTables
  <2> QED BY <1>0, <1>1, <2>2, FrontendsTables, FrontendsParts, FrontendsTyped
<1>3. \A q \in Procs : \A v : Putting(q, v)' <=> Putting(q, v)
  BY <1>1 DEF Putting
<1>4. UploadsKept
  BY <1>1, <1>3, SettledKept
<1>5. \A v : FilesKept(v) /\ (NoFiles(v)' <=> NoFiles(v))
  BY <1>1 DEF FilesKept, NoFiles
<1>6. RowsOwned' /\ RowsStored'
  BY <1>1, <1>4, <1>5, RowsKept
<1>7. MarksSettled'
  BY <1>1, <1>4, MarksKept
<1>8. FilesPlaced'
  BY <1>1, <1>4, PlacesKept
<1>9. FilesListed'
  BY <1>1, <1>3, ListKept
<1>10. ActiveServed'
  <2>1. \A g, v : Clearing(g, v) => Clearing(g, v)'
    BY <1>1 DEF Clearing
  <2> QED BY <1>1, <1>4, <2>1, ServingKept
<1>11. ASSUME NEW q \in Procs PROVE Requesting(q)'
  <2>1. Requesting(q)
    BY DEF FrontendsInv
  <2>2. freq[q].at = "activate" => freq[q].f # f
    BY <1>1 DEF F!Fresh, F!At
  <2> QED BY <1>0, <1>1, <1>3, <1>4, <1>5, <2>1, <2>2, RequestKept
<1> QED BY <1>2, <1>6, <1>7, <1>8, <1>9, <1>10, <1>11 DEF FrontendsInv

LEMMA UploadSound ==
    ASSUME FrontendsInv, NEW p \in Procs, NEW v \in VersionIds,
           NEW archive \in Archives, freq[p].at = "get", uploads[v] = None,
           uploads' = [uploads EXCEPT ![v] = [frontend |-> freq[p].f, archive |-> archive]],
           F!Go(p, [at |-> "put", f |-> freq[p].f, v |-> v, rest |-> archive, count |-> 0]),
           UNCHANGED <<frontends, versions, files, fcalls, ffaults, removed, stray, loose>>
    PROVE  FrontendsInv'
<1>0. FrontendsTypeOK
  BY DEF FrontendsInv
<1>n. PICK f, r, u :
         /\ f = freq[p].f
         /\ r = [at |-> "put", f |-> f, v |-> v, rest |-> archive, count |-> 0]
         /\ u = [frontend |-> f, archive |-> archive]
  OBVIOUS
<1>1. f \in FrontendIds
  BY <1>0, <1>n, FrontendsParts, FrontendsRequests
<1>2. r \in F!Request
  <2>1. archive \in Seq(ZipNames)
    BY ContentAssumption
  <2>2. r \in PutRequest
    BY <1>1, <1>n, <2>1 DEF PutRequest
  <2> QED BY <2>2, FrontendsRequests
<1>3. u \in Upload /\ u # None /\ u.frontend = f /\ u.archive = archive
  BY <1>1, <1>n, ContentAssumption DEF Upload
<1>4. /\ uploads'[v] = u
      /\ \A w \in VersionIds : w # v => uploads'[w] = uploads[w]
      /\ uploads' \in [VersionIds -> {None} \cup Upload]
  BY <1>0, <1>n, <1>3, FrontendsParts
<1>5. r.at = "put" /\ r.f = f /\ r.v = v /\ r.rest = archive /\ r.count = 0
  BY <1>n
<1>6. F!Go(p, r)
  BY <1>n
<1>7. /\ freq' \in [Procs -> F!Request] /\ freq'[p] = r
      /\ \A q \in Procs : q # p => freq'[q] = freq[q]
  BY <1>0, <1>2, <1>6, RequestServed
<1>8. FrontendsTypeOK'
  BY <1>0, <1>4, <1>7, FrontendsTables, FrontendsParts, FrontendsTyped
<1>9. \A q \in Procs : \A w : Putting(q, w) => w # v
  BY DEF FrontendsInv, Requesting, Uploading, Putting
<1>10. \A q \in Procs : \A w : Putting(q, w)' <=> (Putting(q, w) \/ (q = p /\ w = v))
  <2> TAKE q \in Procs
  <2> TAKE w
  <2>1. CASE q = p
    BY <1>5, <1>7, <2>1 DEF Putting
  <2>2. CASE q # p
    BY <1>7, <2>2 DEF Putting
  <2> QED BY <2>1, <2>2
<1>11. UploadsKept
  BY <1>4, <1>10 DEF UploadsKept, Settled
<1>12. \A w : FilesKept(w) /\ (NoFiles(w)' <=> NoFiles(w))
  BY DEF FilesKept, NoFiles
<1>13. RowsOwned' /\ RowsStored'
  BY <1>11, <1>12, RowsKept
<1>14. MarksSettled'
  BY <1>11, MarksKept
<1>15. FilesPlaced'
  BY <1>11, PlacesKept
<1>16. FilesListed'
  <2>1. \A w : (\E q \in Procs : Putting(q, w)) => \E q \in Procs : Putting(q, w)'
    BY <1>10
  <2> QED BY <2>1, ListKept
<1>17. ActiveServed'
  <2>1. \A g, w : Clearing(g, w) => Clearing(g, w)'
    BY <1>7 DEF Clearing
  <2> QED BY <1>11, <2>1, ServingKept
<1>18. ASSUME NEW q \in Procs PROVE Requesting(q)'
  <2>1. Requesting(q)
    BY DEF FrontendsInv
  <2>2. CASE q # p
    <3>1. freq[q].at = "put" => Putting(q, freq[q].v)
      BY DEF Putting
    <3> QED BY <1>0, <1>7, <1>9, <1>10, <1>11, <1>12, <2>1, <2>2, <3>1, RequestKept
  <2>3. CASE q = p
    <3>1. NoFiles(v)
      BY DEF FrontendsInv, FilesPlaced, NoFiles
    <3>2. F!Stored(r.f, v)' = {}
      BY <3>1, StoredFile DEF NoFiles, F!Stored
    <3>3. UpTo(archive, archive, 0) /\ FirstNames(archive, 0) = {}
      <4>1. archive \in Seq(ZipNames)
        BY ContentAssumption
      <4> QED BY <4>1 DEF UpTo, FirstNames
    <3>4. \A o \in Procs : Putting(o, v)' => o = p
      BY <1>9, <1>10
    <3>5. Uploading(q)'
      <4>1. freq'[q] = r /\ uploads'[v].archive = archive
        BY <1>3, <1>4, <1>7, <2>3
      <4>2. uploads'[v] # None /\ uploads'[v].frontend = r.f
        BY <1>3, <1>4, <1>5
      <4>3. UpTo(archive, r.rest, r.count)
        BY <1>5, <3>3
      <4>4. {e \in Entries : <<r.f, v, e>> \in files'} = FirstNames(archive, r.count)
        BY <1>5, <3>2, <3>3 DEF F!Stored
      <4> QED BY <1>5, <3>4, <4>1, <4>2, <4>3, <4>4 DEF Uploading, F!Stored, Putting
    <3>6. Wiping(q)' /\ RemovingRow(q)' /\ Naming(q)' /\ Activating(q)'
      BY <1>5, <1>7, <2>3 DEF Wiping, RemovingRow, Naming, Activating, VersionSteps
    <3> QED BY <3>5, <3>6 DEF Requesting
  <2> QED BY <2>2, <2>3
<1> QED BY <1>8, <1>13, <1>14, <1>15, <1>16, <1>17, <1>18 DEF FrontendsInv

\* One more file stored and counted: the cleaned name of the head of the rest.
LEMMA NextFile ==
    ASSUME NEW archive \in Seq(ZipNames), NEW rest \in Seq(ZipNames), NEW n \in Nat,
           UpTo(archive, rest, n), rest # <<>>
    PROVE  /\ Head(rest) \in ZipNames /\ Tail(rest) \in Seq(ZipNames)
           /\ UpTo(archive, Tail(rest), n + 1)
           /\ FirstNames(archive, n + 1) =
                FirstNames(archive, n) \cup {cleanName[Head(rest)]}
<1>1. Head(rest) \in ZipNames /\ Tail(rest) \in Seq(ZipNames)
  OBVIOUS
<1>2. /\ Len(rest) \in Nat /\ Len(rest) > 0
      /\ Head(rest) = rest[1] /\ Len(Tail(rest)) = Len(rest) - 1
      /\ \A i \in 1..Len(Tail(rest)) : Tail(rest)[i] = rest[i + 1]
  OBVIOUS
<1>3. /\ Len(archive) = n + Len(rest)
      /\ \A i \in 1..Len(rest) : rest[i] = archive[n + i]
  BY DEF UpTo
<1>4. Head(rest) = archive[n + 1]
  BY <1>2, <1>3
<1>5. ASSUME NEW i \in 1..Len(Tail(rest))
      PROVE  Tail(rest)[i] = archive[(n + 1) + i]
  <2>1. i + 1 \in 1..Len(rest) /\ n + (i + 1) = (n + 1) + i
    BY <1>2
  <2> QED BY <1>2, <1>3, <2>1
<1>6. Len(archive) = (n + 1) + Len(Tail(rest))
  BY <1>2, <1>3
<1>7. FirstNames(archive, n + 1) = FirstNames(archive, n) \cup {cleanName[Head(rest)]}
  <2>1. 1..(n + 1) = (1..n) \cup {n + 1}
    OBVIOUS
  <2> QED BY <1>4, <2>1 DEF FirstNames
<1> QED BY <1>1, <1>5, <1>6, <1>7 DEF UpTo

LEMMA PutFileSound ==
    ASSUME FrontendsInv, NEW p \in Procs, F!putFile(p)
    PROVE  FrontendsInv'
<1>0. FrontendsTypeOK
  BY DEF FrontendsInv
<1>1. freq[p].at = "put" /\ freq[p] \in PutRequest
  BY <1>0, FrontendsParts, FrontendsRequests DEF F!putFile, F!At
<1>n. PICK old, f, v, archive, e, r :
         /\ old = freq[p] /\ f = old.f /\ v = old.v
         /\ archive = uploads[v].archive
         /\ e = cleanName[Head(old.rest)]
         /\ r = [old EXCEPT !.rest = Tail(old.rest), !.count = old.count + 1]
  OBVIOUS
<1>2. /\ old.rest # <<>> /\ e # None
      /\ files' = files \cup {<<f, v, e>>}
      /\ F!Go(p, r)
      /\ UNCHANGED <<frontends, versions, fcalls, ffaults, uploads, removed, stray, loose>>
  BY <1>n DEF F!putFile, F!history
<1>a. /\ old \in PutRequest /\ f \in FrontendIds /\ v \in VersionIds
      /\ old.rest \in Seq(ZipNames) /\ old.count \in Nat
  BY <1>1, <1>n DEF PutRequest
<1>8. /\ uploads[v] # None /\ uploads[v].frontend = f
      /\ UpTo(archive, old.rest, old.count)
      /\ F!Stored(f, v) = FirstNames(archive, old.count)
      /\ \A q \in Procs : Putting(q, v) => q = p
  BY <1>1, <1>n DEF FrontendsInv, Requesting, Uploading
<1>b. archive \in Seq(ZipNames)
  <2>1. uploads[v] \in Upload
    BY <1>0, <1>a, <1>8, FrontendsParts
  <2> QED BY <1>n, <2>1, ContentAssumption DEF Upload
<1>c. /\ Head(old.rest) \in ZipNames /\ Tail(old.rest) \in Seq(ZipNames)
      /\ UpTo(archive, Tail(old.rest), old.count + 1)
      /\ FirstNames(archive, old.count + 1) = FirstNames(archive, old.count) \cup {e}
  BY <1>2, <1>a, <1>b, <1>8, <1>n, NextFile
<1>3. f \in FrontendIds /\ v \in VersionIds /\ e \in Entries
  BY <1>2, <1>a, <1>c, <1>n, ContentAssumption
<1>4. /\ r \in PutRequest /\ r.at = "put" /\ r.f = f /\ r.v = v
      /\ r.rest = Tail(old.rest) /\ r.count = old.count + 1
  <2>1. Tail(old.rest) \in Seq(ZipNames) /\ old.count + 1 \in Nat
    BY <1>a, <1>c
  <2>2. PICK rest \in Seq(ZipNames), n \in Nat : rest = Tail(old.rest) /\ n = old.count + 1
    BY <2>1
  <2>3. r = [old EXCEPT !.rest = rest, !.count = n]
    BY <1>n, <2>2
  <2>4. LET s == [old EXCEPT !.rest = rest, !.count = n]
        IN /\ s \in PutRequest /\ s.at = "put" /\ s.f = old.f /\ s.v = old.v
           /\ s.rest = rest /\ s.count = n
    BY <1>a DEF PutRequest
  <2> QED BY <1>n, <2>2, <2>3, <2>4
<1>6. /\ freq' \in [Procs -> F!Request] /\ freq'[p] = r
      /\ \A q \in Procs : q # p => freq'[q] = freq[q]
  BY <1>0, <1>4, <1>2, RequestServed, FrontendsRequests
<1>7. FrontendsTypeOK'
  <2>1. files' \subseteq FrontendIds \X VersionIds \X Entries
    BY <1>0, <1>2, <1>3, FrontendsParts
  <2> QED BY <1>0, <1>2, <1>6, <2>1, FrontendsTables, FrontendsParts, FrontendsTyped
<1>9. \A q \in Procs : \A w : Putting(q, w)' <=> Putting(q, w)
  <2> TAKE q \in Procs
  <2> TAKE w
  <2>1. CASE q = p
    BY <1>1, <1>4, <1>6, <1>n, <2>1 DEF Putting
  <2>2. CASE q # p
    BY <1>6, <2>2 DEF Putting
  <2> QED BY <2>1, <2>2
<1>10. UploadsKept
  BY <1>2, <1>9, SettledKept
<1>11. Putting(p, v) /\ ~Settled(v)
  BY <1>1, <1>n DEF Putting, Settled
<1>12. \A w : w # v => FilesKept(w) /\ (NoFiles(w) => NoFiles(w)')
  BY <1>2, StoredFile DEF FilesKept, NoFiles
<1>13. RowsOwned' /\ RowsStored'
  <2>1. v \notin DOMAIN versions
    BY <1>11 DEF FrontendsInv, RowsOwned
  <2> QED BY <1>2, <1>10, <1>12, <2>1, RowsKept
<1>14. MarksSettled'
  BY <1>2, <1>10, MarksKept
<1>15. FilesPlaced'
  BY <1>2, <1>8, StoredFile DEF FrontendsInv, FilesPlaced
<1>16. FilesListed'
  <2>1. ASSUME NEW file \in files'
        PROVE  \/ file[2] \in DOMAIN versions' \cup stray'
               \/ \E q \in Procs : Putting(q, file[2])'
    <3>1. CASE file \in files
      BY <1>2, <1>9, <3>1 DEF FrontendsInv, FilesListed
    <3>2. CASE file = <<f, v, e>>
      BY <1>9, <1>11, <3>2, StoredFile
    <3> QED BY <1>2, <2>1, <3>1, <3>2
  <2> QED BY <2>1 DEF FilesListed
<1>17. ActiveServed'
  <2>1. \A g, w : Clearing(g, w) => Clearing(g, w)'
    BY <1>1, <1>6 DEF Clearing
  <2> QED BY <1>2, <1>10, <2>1, ServingKept
<1>18. ASSUME NEW q \in Procs PROVE Requesting(q)'
  <2>1. Requesting(q)
    BY DEF FrontendsInv
  <2>2. CASE q # p
    <3>1. freq[q].at = "put" => freq[q].v # v
      BY <1>8, <2>2 DEF Putting
    <3> QED BY <1>0, <1>2, <1>6, <1>9, <1>10, <1>11, <1>12, <2>1, <2>2, <3>1, RequestKept
  <2>3. CASE q = p
    <3>1. UpTo(archive, r.rest, r.count)
      BY <1>4, <1>c
    <3>2. {i \in Entries : <<f, v, i>> \in files'} = FirstNames(archive, r.count)
      <4>1. \A i \in Entries : <<f, v, i>> \in files' <=> (<<f, v, i>> \in files \/ i = e)
        BY <1>2, StoredFile
      <4>2. {i \in Entries : <<f, v, i>> \in files'} = F!Stored(f, v) \cup {e}
        BY <1>3, <4>1 DEF F!Stored
      <4> QED BY <1>4, <1>8, <1>c, <4>2
    <3>4. \A o \in Procs : Putting(o, v)' => o = p
      BY <1>8, <1>9
    <3>5. freq'[q] = r /\ uploads' = uploads /\ archive = uploads[v].archive
      BY <1>2, <1>6, <1>n, <2>3
    <3>6. Uploading(q)'
      <4>1. uploads'[v] # None /\ uploads'[v].frontend = f /\ uploads'[v].archive = archive
        BY <1>8, <3>5
      <4>2. freq'[q] = r /\ r.f = f /\ r.v = v
        BY <1>4, <3>5
      <4> QED BY <3>1, <3>2, <3>4, <4>1, <4>2 DEF Uploading, F!Stored, Putting
    <3>7. Wiping(q)' /\ RemovingRow(q)' /\ Naming(q)' /\ Activating(q)'
      BY <1>4, <3>5 DEF Wiping, RemovingRow, Naming, Activating, VersionSteps
    <3> QED BY <3>6, <3>7 DEF Requesting
  <2> QED BY <2>2, <2>3
<1> QED BY <1>7, <1>13, <1>14, <1>15, <1>16, <1>17, <1>18 DEF FrontendsInv

LEMMA InsertVersionSound ==
    ASSUME FrontendsInv, NEW p \in Procs, F!insertVersion(p)
    PROVE  FrontendsInv'
<1>0. FrontendsTypeOK
  BY DEF FrontendsInv
<1>1. freq[p].at = "put" /\ freq[p] \in PutRequest /\ freq[p].rest = <<>>
  BY <1>0, FrontendsParts, FrontendsRequests DEF F!insertVersion, F!At, F!AllStored
<1>2. PICK old, f, v, archive :
         /\ old = freq[p] /\ f = old.f /\ v = old.v
         /\ archive = uploads[v].archive
  OBVIOUS
<1>3. f \in FrontendIds /\ v \in VersionIds /\ old.count \in Nat
  BY <1>1, <1>2 DEF PutRequest
<1>4. PICK inserts \in BOOLEAN :
         /\ versions' = IF inserts
                        THEN [w \in DOMAIN versions \cup {v} |->
                                IF w = v THEN [frontend_id |-> f, file_count |-> old.count]
                                         ELSE versions[w]]
                        ELSE versions
         /\ stray' = IF inserts THEN stray ELSE stray \cup {v}
  <2> DEFINE i == old.count > 0 /\ f \in DOMAIN frontends
  <2>1. i \in BOOLEAN
    OBVIOUS
  <2>2. /\ versions' = IF i
                       THEN [w \in DOMAIN versions \cup {v} |->
                               IF w = v THEN [frontend_id |-> f, file_count |-> old.count]
                                        ELSE versions[w]]
                       ELSE versions
        /\ stray' = IF i THEN stray ELSE stray \cup {v}
    BY <1>2 DEF F!insertVersion
  <2> HIDE DEF i
  <2> QED BY <2>1, <2>2
<1>5. /\ F!Go(p, F!Idle)
      /\ UNCHANGED <<frontends, files, fcalls, ffaults, uploads, removed, loose>>
  BY DEF F!insertVersion
<1>6. /\ freq' \in [Procs -> F!Request] /\ freq'[p] = F!Idle /\ F!Idle.at = "idle"
      /\ \A q \in Procs : q # p => freq'[q] = freq[q]
  BY <1>0, <1>5, RequestServed, FrontendsRequests
<1>7. [frontend_id |-> f, file_count |-> old.count] \in F!Version
  BY <1>3 DEF F!Version
<1>8. /\ DOMAIN versions' = IF inserts THEN DOMAIN versions \cup {v} ELSE DOMAIN versions
      /\ \A w \in DOMAIN versions : w # v => versions'[w] = versions[w]
      /\ inserts => versions'[v].frontend_id = f /\ versions'[v].file_count = old.count
      /\ versions' \in [DOMAIN versions' -> F!Version]
      /\ DOMAIN versions' \in SUBSET VersionIds
  <2>1. versions \in [DOMAIN versions -> F!Version] /\ DOMAIN versions \subseteq VersionIds
    BY <1>0, FrontendsTables
  <2>2. CASE inserts
    BY <1>3, <1>4, <1>7, <2>1, <2>2
  <2>3. CASE ~inserts
    BY <1>4, <2>1, <2>3
  <2> QED BY <2>2, <2>3
<1>9. FrontendsTypeOK'
  <2>1. stray' \subseteq VersionIds
    BY <1>0, <1>3, <1>4, FrontendsParts
  <2> QED BY <1>0, <1>5, <1>6, <1>8, <2>1, FrontendsTables, FrontendsParts, FrontendsTyped
<1>10. /\ uploads[v] # None /\ uploads[v].frontend = f
       /\ old.count = Len(archive)
       /\ F!Stored(f, v) = F!CleanedNames(archive)
       /\ \A q \in Procs : Putting(q, v) => q = p
  <2>1. /\ uploads[v] # None /\ uploads[v].frontend = f
        /\ UpTo(archive, <<>>, old.count)
        /\ F!Stored(f, v) = FirstNames(archive, old.count)
        /\ \A q \in Procs : Putting(q, v) => q = p
    BY <1>1, <1>2 DEF FrontendsInv, Requesting, Uploading
  <2>2. archive \in Seq(ZipNames)
    <3>1. uploads[v] \in Upload
      BY <1>0, <1>3, <2>1, FrontendsParts
    <3> QED BY <1>2, <3>1, ContentAssumption DEF Upload
  <2>3. old.count = Len(archive) /\ DOMAIN archive = 1..old.count
    <3>1. Len(<<>>) = 0
      OBVIOUS
    <3> QED BY <1>3, <2>1, <2>2, <3>1 DEF UpTo
  <2>4. FirstNames(archive, old.count) = F!CleanedNames(archive)
    BY <2>3 DEF FirstNames, F!CleanedNames
  <2> QED BY <2>1, <2>3, <2>4
<1>11. \A q \in Procs : \A w : Putting(q, w)' <=> (Putting(q, w) /\ q # p)
  <2> TAKE q \in Procs
  <2> TAKE w
  <2>1. CASE q = p
    BY <1>6, <2>1 DEF Putting
  <2>2. CASE q # p
    BY <1>6, <2>2 DEF Putting
  <2> QED BY <2>1, <2>2
<1>12. UploadsKept
  BY <1>5, <1>11, SettledKept
<1>13. \A w : FilesKept(w) /\ (NoFiles(w)' <=> NoFiles(w))
  BY <1>5 DEF FilesKept, NoFiles
<1>14. Settled(v)' /\ v \notin DOMAIN versions
  <2>1. ~Settled(v)
    BY <1>1, <1>2 DEF Settled, Putting
  <2> QED BY <1>3, <1>5, <1>10, <1>11, <2>1 DEF Settled, FrontendsInv, RowsOwned
<1>15. RowsOwned'
  <2>1. \A w \in DOMAIN versions :
          Settled(w)' /\ versions'[w] = versions[w] /\ uploads'[w] = uploads[w]
    BY <1>5, <1>8, <1>12, <1>14 DEF FrontendsInv, RowsOwned, UploadsKept
  <2>2. \A w \in DOMAIN versions : versions'[w].frontend_id = uploads'[w].frontend
    BY <2>1 DEF FrontendsInv, RowsOwned
  <2>3. inserts => versions'[v].frontend_id = uploads'[v].frontend
    BY <1>5, <1>8, <1>10
  <2> QED BY <1>8, <1>14, <2>1, <2>2, <2>3 DEF RowsOwned
<1>16. RowsStored'
  <2>1. ASSUME NEW w \in DOMAIN versions' \ removed' PROVE RowStored(w)'
    <3>1. CASE w = v
      <4>1. inserts
        BY <1>8, <1>14, <2>1, <3>1
      <4> QED BY <1>2, <1>5, <1>8, <1>10, <3>1, <4>1 DEF RowStored, F!Stored
    <3>2. CASE w # v
      <4>1. w \in DOMAIN versions \ removed /\ versions'[w] = versions[w]
        BY <1>5, <1>8, <2>1, <3>2
      <4> QED BY <1>5, <4>1 DEF FrontendsInv, RowsStored, RowStored, F!Stored
    <3> QED BY <3>1, <3>2
  <2> QED BY <2>1 DEF RowsStored
<1>17. MarksSettled'
  BY <1>5, <1>12, MarksKept
<1>18. FilesPlaced'
  BY <1>5, <1>12, PlacesKept
<1>19. FilesListed'
  <2>1. v \in DOMAIN versions' \cup stray'
    BY <1>4, <1>8
  <2>2. \A w : w \in DOMAIN versions \cup stray => w \in DOMAIN versions' \cup stray'
    BY <1>4, <1>8
  <2>3. \A q \in Procs : \A w : Putting(q, w) => w = v \/ Putting(q, w)'
    BY <1>2, <1>11 DEF Putting
  <2> QED BY <1>5, <2>1, <2>2, <2>3, ListKept
<1>20. ActiveServed'
  <2>1. \A g, w : Clearing(g, w) => Clearing(g, w)'
    BY <1>1, <1>6 DEF Clearing
  <2> QED BY <1>5, <1>8, <1>12, <2>1, ServingKept
<1>21. ASSUME NEW q \in Procs PROVE Requesting(q)'
  <2>1. Requesting(q)
    BY DEF FrontendsInv
  <2>2. CASE q # p
    <3>1. DOMAIN versions \subseteq DOMAIN versions'
      BY <1>8
    <3>2. \A o \in Procs : Putting(o, freq[q].v)' => Putting(o, freq[q].v)
      BY <1>6, <2>2 DEF Putting
    <3> QED BY <1>0, <1>5, <1>6, <1>12, <1>13, <2>1, <2>2, <3>1, <3>2, RequestKept
  <2>3. CASE q = p
    BY <1>6, <2>3 DEF Requesting, Uploading, Wiping, RemovingRow, Naming, Activating,
                      VersionSteps
  <2> QED BY <2>2, <2>3
<1> QED BY <1>9, <1>15, <1>16, <1>17, <1>18, <1>19, <1>20, <1>21 DEF FrontendsInv

LEMMA ReadsSound ==
    ASSUME FrontendsInv, NEW p \in Procs,
           \/ F!Requests(p) \/ F!listVersions(p) \/ F!checkVersion(p)
    PROVE  FrontendsInv'
<1>0. /\ FrontendsTypeOK /\ freq \in [Procs -> F!Request] /\ fcalls \in Nat
      /\ freq[p] \in F!Request
  BY FrontendsParts DEF FrontendsInv
<1>1. ASSUME NEW r \in F!Request, F!Begin(p, r),
             r.at \notin {"put", "row", "wipe", "activate"},
             r.at \in VersionSteps => r.v \in F!Known
      PROVE  FrontendsInv'
  <2>1. F!Go(p, r) /\ freq[p].at = "idle" /\ fcalls' = fcalls + 1
        /\ UNCHANGED <<frontends, versions, files, ffaults, uploads, removed, stray, loose>>
    BY <1>1 DEF F!Begin, F!At, F!history
  <2>2. fcalls' \in Nat
    BY <1>0, <2>1
  <2>3. \A v \in F!Known : Settled(v)
    BY DEF F!Known, FrontendsInv, RowsOwned, MarksSettled
  <2> QED BY <1>1, <2>1, <2>2, <2>3, ReadSound
<1>2. ASSUME F!Requests(p) PROVE FrontendsInv'
  <2>1. PICK f \in FrontendIds :
          \/ \E step \in {"get", "list"} : F!Begin(p, [at |-> step, f |-> f])
          \/ \E v \in F!Known, step \in {"remove", "check"} :
               F!Begin(p, [at |-> step, f |-> f, v |-> v])
    BY <1>2 DEF F!Requests
  <2>2. ASSUME NEW step \in {"get", "list"}, F!Begin(p, [at |-> step, f |-> f])
        PROVE  FrontendsInv'
    <3>1. [at |-> step, f |-> f] \in F!Request
      BY FrontendsRequests
    <3>2. [at |-> step, f |-> f].at = step
      OBVIOUS
    <3> QED BY <1>1, <2>2, <3>1, <3>2 DEF VersionSteps
  <2>3. ASSUME NEW v \in F!Known, NEW step \in {"remove", "check"},
               F!Begin(p, [at |-> step, f |-> f, v |-> v])
        PROVE  FrontendsInv'
    <3>1. v \in VersionIds
      BY <1>0, FrontendsTables, FrontendsParts DEF F!Known
    <3>2. [at |-> step, f |-> f, v |-> v] \in F!Request
      <4>1. [at |-> step, f |-> f, v |-> v] \in VersionRequest
        BY <3>1 DEF VersionRequest, VersionSteps
      <4> QED BY <4>1, FrontendsRequests
    <3>3. /\ [at |-> step, f |-> f, v |-> v].at = step
          /\ [at |-> step, f |-> f, v |-> v].v = v
      OBVIOUS
    <3> QED BY <1>1, <2>3, <3>2, <3>3
  <2> QED BY <2>1, <2>2, <2>3
<1>3. ASSUME F!listVersions(p) PROVE FrontendsInv'
  <2>1. PICK f, own, r : /\ f = freq[p].f /\ own = F!VersionsOf(f)
                         /\ r = [at |-> "wipe", f |-> f, listed |-> own, rest |-> own]
    OBVIOUS
  <2>2. freq[p].at = "list" /\ F!Go(p, r)
        /\ UNCHANGED <<frontends, versions, files, fcalls, ffaults, uploads, removed,
                       stray, loose>>
    BY <1>3, <2>1 DEF F!listVersions, F!At, F!history
  <2>3. \A v \in own : Settled(v) /\ uploads[v].frontend = f /\ v \in VersionIds
    BY <2>1 DEF F!VersionsOf, FrontendsInv, RowsOwned, Settled
  <2>4. r \in F!Request
    <3>1. r \in WipeRequest
      BY <1>0, <2>1, <2>2, <2>3, FrontendsRequests DEF WipeRequest
    <3> QED BY <3>1, FrontendsRequests
  <2>5. r.at = "wipe" /\ r.f = f /\ r.listed = own /\ r.rest = own
    BY <2>1
  <2> QED BY <1>0, <2>2, <2>3, <2>4, <2>5, ReadSound DEF VersionSteps
<1>4. ASSUME F!checkVersion(p) PROVE FrontendsInv'
  <2>1. freq[p].at = "check" /\ freq[p] \in VersionRequest /\ Settled(freq[p].v)
    BY <1>0, <1>4, FrontendsRequests
       DEF F!checkVersion, F!At, VersionSteps, FrontendsInv, Requesting, Naming
  <2>2. PICK r : r = IF F!Activatable(freq[p]) THEN [freq[p] EXCEPT !.at = "activate"]
                                               ELSE F!Idle
    OBVIOUS
  <2>3. F!Go(p, r)
        /\ UNCHANGED <<frontends, versions, files, fcalls, ffaults, uploads, removed,
                       stray, loose>>
    BY <1>4, <2>2 DEF F!checkVersion, F!history
  <2>4. CASE F!Activatable(freq[p])
    <3>1. r \in F!Request /\ r.at = "activate" /\ r.f = freq[p].f /\ r.v = freq[p].v
      BY <2>1, <2>2, <2>4, VersionGoesOn, FrontendsRequests DEF VersionSteps
    <3>2. freq[p].v \in DOMAIN versions /\ uploads[freq[p].v].frontend = freq[p].f
      BY <2>4 DEF F!Activatable, FrontendsInv, RowsOwned
    <3> QED BY <1>0, <2>1, <2>3, <3>1, <3>2, ReadSound
  <2>5. CASE ~F!Activatable(freq[p])
    BY <1>0, <2>1, <2>2, <2>3, <2>5, FrontendsRequests, ReadSound DEF VersionSteps
  <2> QED BY <2>4, <2>5
<1> QED BY <1>2, <1>3, <1>4

LEMMA HandlerUpload ==
    ASSUME FrontendsInv, NEW p \in Procs, F!upload(p)
    PROVE  FrontendsInv'
<1>0. /\ FrontendsTypeOK /\ freq \in [Procs -> F!Request] /\ fcalls \in Nat
  BY FrontendsParts DEF FrontendsInv
<1>1. freq[p].at = "get"
      /\ UNCHANGED <<frontends, versions, files, fcalls, ffaults, removed, stray, loose>>
  BY DEF F!upload, F!At
<1>2. ASSUME F!Go(p, F!Idle), UNCHANGED uploads PROVE FrontendsInv'
  BY <1>0, <1>1, <1>2, FrontendsRequests, ReadSound DEF VersionSteps
<1>3. ASSUME NEW v \in VersionIds, NEW archive \in Archives,
             uploads[v] = None,
             uploads' = [uploads EXCEPT ![v] = [frontend |-> freq[p].f, archive |-> archive]],
             F!Go(p, [at |-> "put", f |-> freq[p].f, v |-> v, rest |-> archive, count |-> 0])
      PROVE  FrontendsInv'
  BY <1>1, <1>3, UploadSound
<1> QED BY <1>2, <1>3 DEF F!upload

\* The directory of a version is emptied, when the URL names its owner.
LEMMA DirectoryEmptied ==
    ASSUME FrontendsInv, NEW f, NEW v, files' = files \ F!Directory(f, v)
    PROVE  /\ files' \subseteq files
           /\ \A w : w # v => FilesKept(w)
           /\ \A w : NoFiles(w) => NoFiles(w)'
           /\ uploads[v] # None /\ uploads[v].frontend = f => NoFiles(v)'
           /\ uploads[v].frontend # f => FilesKept(v)
<1>1. \A file \in F!Directory(f, v) : file[1] = f /\ file[2] = v
  BY DEF F!Directory
<1>2. \A file \in files : file[1] = f /\ file[2] = v => file \in F!Directory(f, v)
  <2> TAKE file \in files
  <2>1. file \in FrontendIds \X VersionIds \X Entries
    BY FrontendsParts DEF FrontendsInv
  <2> QED BY <2>1 DEF F!Directory
<1>3. \A file \in files : file[1] = uploads[file[2]].frontend
  BY DEF FrontendsInv, FilesPlaced
<1> QED BY <1>1, <1>2, <1>3 DEF FilesKept, NoFiles

\* One directory is emptied, of a version of the frontend or not.
LEMMA EmptySound ==
    ASSUME FrontendsInv, NEW p \in Procs, NEW old, NEW r \in F!Request, NEW f,
           NEW v \in VersionIds, old = freq[p], F!Go(p, r),
           old.at \in {"wipe", "remove"}, Settled(v),
           files' = files \ F!Directory(f, v),
           removed' = IF uploads[v].frontend = f THEN removed \cup {v} ELSE removed,
           UNCHANGED <<frontends, versions, fcalls, ffaults, uploads, stray, loose>>,
           \/ /\ r.at = "wipe" /\ old.at = "wipe" /\ r.f = old.f /\ old.f = f
              /\ r.listed = old.listed /\ r.rest = old.rest \ {v}
           \/ r.at = "row" /\ r.f = f /\ r.v = v
    PROVE  FrontendsInv'
<1>0. FrontendsTypeOK
  BY DEF FrontendsInv
<1>1. /\ freq' \in [Procs -> F!Request] /\ freq'[p] = r
      /\ \A q \in Procs : q # p => freq'[q] = freq[q]
  BY <1>0, RequestServed
<1>2. /\ files' \subseteq files
      /\ \A w : w # v => FilesKept(w)
      /\ \A w : NoFiles(w) => NoFiles(w)'
      /\ uploads[v] # None /\ uploads[v].frontend = f => NoFiles(v)'
      /\ uploads[v].frontend # f => FilesKept(v)
  BY DirectoryEmptied
<1>3. FrontendsTypeOK'
  <2>1. removed' \subseteq VersionIds /\ files' \subseteq FrontendIds \X VersionIds \X Entries
    BY <1>0, <1>2, FrontendsParts
  <2> QED BY <1>0, <1>1, <2>1, FrontendsTables, FrontendsParts, FrontendsTyped
<1>4. \A q \in Procs : \A w : Putting(q, w)' <=> Putting(q, w)
  <2> TAKE q \in Procs
  <2> TAKE w
  <2>1. CASE q = p
    BY <1>1, <2>1 DEF Putting
  <2>2. CASE q # p
    BY <1>1, <2>2 DEF Putting
  <2> QED BY <2>1, <2>2
<1>5. UploadsKept
  BY <1>4, SettledKept
<1>6. RowsOwned' /\ RowsStored'
  <2>1. \A w \in DOMAIN versions' \ removed' : FilesKept(w)
    BY <1>2
  <2>2. removed \subseteq removed'
    OBVIOUS
  <2> QED BY <1>5, <2>1, <2>2, RowsKept
<1>7. MarksSettled'
  BY <1>5, MarksKept
<1>8. FilesPlaced'
  BY <1>2, <1>5, PlacesKept
<1>9. FilesListed'
  BY <1>2, <1>4, ListKept
<1>10. ActiveServed'
  <2>1. \A g, w : Clearing(g, w) => Clearing(g, w)'
    BY <1>1 DEF Clearing
  <2> QED BY <1>5, <2>1, ServingKept
<1>11. ASSUME NEW q \in Procs PROVE Requesting(q)'
  <2>1. Requesting(q)
    BY DEF FrontendsInv
  <2>2. CASE q # p
    <3>1. freq[q].at = "put" => freq[q].v # v
      BY DEF Settled, Putting
    <3>2. \A o \in Procs : Putting(o, freq[q].v)' => Putting(o, freq[q].v)
      BY <1>1, <1>4, <2>2 DEF Putting
    <3> QED BY <1>0, <1>1, <1>2, <1>5, <2>1, <2>2, <3>1, <3>2, RequestKept
  <2>3. CASE q = p
    <3>1. Uploading(q)' /\ Activating(q)'
      BY <1>1, <2>3 DEF Uploading, Activating
    <3>2. Naming(q)'
      BY <1>1, <1>5, <2>3 DEF Naming, UploadsKept, VersionSteps
    <3>3. RemovingRow(q)'
      BY <1>1, <1>2, <2>3 DEF RemovingRow, Settled
    <3>4. Wiping(q)'
      <4> SUFFICES ASSUME r.at = "wipe" PROVE Wiping(q)'
        BY <1>1, <2>3 DEF Wiping
      <4>1. /\ old.rest \subseteq old.listed
            /\ \A w \in old.listed : /\ Settled(w) /\ uploads[w].frontend = f
                                     /\ w \in old.rest \/ NoFiles(w)
        BY <2>1, <2>3 DEF Requesting, Wiping
      <4>2. r.rest \subseteq r.listed
        BY <4>1
      <4>3. ASSUME NEW w \in r.listed
            PROVE  /\ Settled(w)' /\ uploads'[w].frontend = r.f
                   /\ w \in r.rest \/ NoFiles(w)'
        <5>1. Settled(w) /\ uploads[w].frontend = f /\ (w \in old.rest \/ NoFiles(w))
          BY <4>1, <4>3
        <5>2. w = v => NoFiles(w)'
          BY <1>2, <5>1 DEF Settled
        <5> QED BY <1>2, <1>5, <5>1, <5>2 DEF UploadsKept
      <4> QED BY <1>1, <2>3, <4>2, <4>3 DEF Wiping
    <3> QED BY <3>1, <3>2, <3>3, <3>4 DEF Requesting
  <2> QED BY <2>2, <2>3
<1> QED BY <1>3, <1>6, <1>7, <1>8, <1>9, <1>10, <1>11 DEF FrontendsInv

LEMMA DirectoriesSound ==
    ASSUME FrontendsInv, NEW p \in Procs, F!wipeVersion(p) \/ F!removeFiles(p)
    PROVE  FrontendsInv'
<1>0. /\ FrontendsTypeOK /\ freq[p] \in F!Request /\ Requesting(p)
  BY FrontendsParts DEF FrontendsInv
<1>1. ASSUME F!wipeVersion(p) PROVE FrontendsInv'
  <2>1. PICK old, f : old = freq[p] /\ f = old.f
    OBVIOUS
  <2>2. old.at = "wipe" /\ old \in WipeRequest
    BY <1>0, <1>1, <2>1, FrontendsRequests DEF F!wipeVersion, F!At
  <2>3. PICK v, r :
          /\ v \in old.rest
          /\ r = [old EXCEPT !.rest = old.rest \ {v}]
          /\ files' = files \ F!Directory(f, v)
          /\ removed' = removed \cup {v} /\ F!Go(p, r)
          /\ UNCHANGED <<frontends, versions, fcalls, ffaults, uploads, stray, loose>>
    BY <1>1, <2>1 DEF F!wipeVersion
  <2>4. Settled(v) /\ uploads[v].frontend = f /\ v \in VersionIds
    BY <1>0, <2>1, <2>2, <2>3 DEF Requesting, Wiping, Settled
  <2>5. old.rest \ {v} \in SUBSET VersionIds
    BY <2>2 DEF WipeRequest
  <2>6. /\ r \in WipeRequest /\ r.at = "wipe" /\ r.f = old.f /\ r.listed = old.listed
        /\ r.rest = old.rest \ {v}
    BY <2>2, <2>3, <2>5 DEF WipeRequest
  <2>7. r \in F!Request
    BY <2>6, FrontendsRequests
  <2>8. removed' = IF uploads[v].frontend = f THEN removed \cup {v} ELSE removed
    BY <2>3, <2>4
  <2> QED BY <2>1, <2>2, <2>3, <2>4, <2>6, <2>7, <2>8, EmptySound
<1>2. ASSUME F!removeFiles(p) PROVE FrontendsInv'
  <2>1. PICK old, f, v, r : /\ old = freq[p] /\ f = old.f /\ v = old.v
                            /\ r = [old EXCEPT !.at = "row"]
    OBVIOUS
  <2>2. old.at = "remove" /\ old \in VersionRequest
    BY <1>0, <1>2, <2>1, FrontendsRequests DEF F!removeFiles, F!At, VersionSteps
  <2>3. Settled(v) /\ v \in VersionIds
    BY <1>0, <2>1, <2>2 DEF Requesting, Naming, VersionSteps, Settled
  <2>4. /\ files' = files \ F!Directory(f, v) /\ F!Go(p, r)
        /\ removed' = IF uploads[v].frontend = f THEN removed \cup {v} ELSE removed
        /\ UNCHANGED <<frontends, versions, fcalls, ffaults, uploads, stray, loose>>
    BY <1>2, <2>1, <2>3 DEF F!removeFiles, F!Owned, Settled
  <2>5. r \in VersionRequest /\ r.at = "row" /\ r.f = f /\ r.v = v
    BY <2>1, <2>2 DEF VersionRequest, VersionSteps
  <2>6. r \in F!Request
    BY <2>5, FrontendsRequests
  <2> QED BY <2>1, <2>2, <2>3, <2>4, <2>5, <2>6, EmptySound
<1> QED BY <1>1, <1>2

LEMMA DeleteFrontendSound ==
    ASSUME FrontendsInv, NEW p \in Procs, F!deleteFrontend(p)
    PROVE  FrontendsInv'
<1>0. FrontendsTypeOK
  BY DEF FrontendsInv
<1>1. PICK f, own, listed :
         f = freq[p].f /\ own = F!VersionsOf(f) /\ listed = freq[p].listed
  OBVIOUS
<1>2. /\ freq[p].at = "wipe" /\ freq[p].rest = {}
      /\ frontends' = [g \in DOMAIN frontends \ {f} |-> frontends[g]]
      /\ versions' = [w \in DOMAIN versions \ own |-> versions[w]]
      /\ stray' = stray \cup (own \ listed)
      /\ F!Go(p, F!Idle)
      /\ UNCHANGED <<files, fcalls, ffaults, uploads, removed, loose>>
  BY <1>1 DEF F!deleteFrontend, F!At, F!Without
<1>3. /\ freq' \in [Procs -> F!Request] /\ freq'[p] = F!Idle /\ F!Idle.at = "idle"
      /\ \A q \in Procs : q # p => freq'[q] = freq[q]
  BY <1>0, <1>2, RequestServed, FrontendsRequests
<1>4. \A w : w \in own <=> w \in DOMAIN versions /\ uploads[w].frontend = f
  BY <1>1 DEF F!VersionsOf, FrontendsInv, RowsOwned
<1>5. FrontendsTypeOK'
  <2>1. /\ frontends' \in [DOMAIN frontends \ {f} -> Frontend]
        /\ DOMAIN frontends \ {f} \in SUBSET FrontendIds
        /\ versions' \in [DOMAIN versions \ own -> F!Version]
        /\ DOMAIN versions \ own \in SUBSET VersionIds
    BY <1>0, <1>2, FrontendsTables
  <2>2. stray' \subseteq VersionIds
    BY <1>0, <1>2, <1>4, FrontendsTables, FrontendsParts
  <2> QED BY <1>0, <1>2, <1>3, <2>1, <2>2, FrontendsParts, FrontendsTyped
<1>6. \A q \in Procs : \A w : Putting(q, w)' <=> Putting(q, w)
  <2> TAKE q \in Procs
  <2> TAKE w
  <2>1. CASE q = p
    BY <1>2, <1>3, <2>1 DEF Putting
  <2>2. CASE q # p
    BY <1>3, <2>2 DEF Putting
  <2> QED BY <2>1, <2>2
<1>7. UploadsKept
  BY <1>2, <1>6, SettledKept
<1>8. \A w : FilesKept(w) /\ (NoFiles(w)' <=> NoFiles(w))
  BY <1>2 DEF FilesKept, NoFiles
<1>9. RowsOwned' /\ RowsStored'
  <2>1. \A w \in DOMAIN versions' : w \in DOMAIN versions /\ versions'[w] = versions[w]
    BY <1>2
  <2> QED BY <1>2, <1>7, <1>8, <2>1, RowsKept
<1>10. MarksSettled'
  BY <1>2, <1>7, MarksKept
<1>11. FilesPlaced'
  BY <1>2, <1>7, PlacesKept
<1>12. FilesListed'
  <2>1. \A w \in listed : NoFiles(w)'
    BY <1>1, <1>2, <1>8 DEF FrontendsInv, Requesting, Wiping
  <2>2. \A w \in DOMAIN versions \cup stray :
          w \in DOMAIN versions' \cup stray' \/ w \in listed
    BY <1>2
  <2> QED BY <1>2, <1>6, <2>1, <2>2, ListKept
<1>13. ActiveServed'
  <2>1. \A g, w : Clearing(g, w) => Clearing(g, w)'
    BY <1>2, <1>3 DEF Clearing
  <2>2. \A g \in DOMAIN frontends' : g \in DOMAIN frontends /\ g # f
                                     /\ frontends'[g] = frontends[g]
    BY <1>2
  <2>3. \A w \in DOMAIN versions \cup loose :
          uploads[w].frontend # f => w \in DOMAIN versions' \cup loose'
    BY <1>2, <1>4
  <2> QED BY <1>7, <2>1, <2>2, <2>3, ServingKept
<1>14. ASSUME NEW q \in Procs PROVE Requesting(q)'
  <2>1. Requesting(q)
    BY DEF FrontendsInv
  <2>2. CASE q # p
    <3>1. freq[q].at = "activate" =>
            /\ freq[q].v \in DOMAIN versions \cup loose =>
                 \/ freq[q].v \in DOMAIN versions' \cup loose'
                 \/ freq[q].f \notin DOMAIN frontends'
            /\ freq[q].f \notin DOMAIN frontends => freq[q].f \notin DOMAIN frontends'
      BY <1>2, <1>4, <2>1 DEF Requesting, Activating
    <3>2. \A o \in Procs : Putting(o, freq[q].v)' => Putting(o, freq[q].v)
      BY <1>3, <1>6, <2>2 DEF Putting
    <3> QED BY <1>0, <1>3, <1>7, <1>8, <2>1, <2>2, <3>1, <3>2, RequestKept
  <2>3. CASE q = p
    BY <1>3, <2>3 DEF Requesting, Uploading, Wiping, RemovingRow, Naming, Activating,
                      VersionSteps
  <2> QED BY <2>2, <2>3
<1> QED BY <1>5, <1>9, <1>10, <1>11, <1>12, <1>13, <1>14 DEF FrontendsInv

LEMMA DeleteRowSound ==
    ASSUME FrontendsInv, NEW p \in Procs, F!deleteRow(p)
    PROVE  FrontendsInv'
<1>0. FrontendsTypeOK /\ freq[p] \in F!Request
  BY FrontendsParts DEF FrontendsInv
<1>1. PICK old, f, v, r : /\ old = freq[p] /\ f = old.f /\ v = old.v
                          /\ r = [old EXCEPT !.at = "clear"]
  OBVIOUS
<1>2. old.at = "row" /\ old \in VersionRequest
  BY <1>0, <1>1, FrontendsRequests DEF F!deleteRow, F!At, VersionSteps
<1>3. Settled(v) /\ v \in VersionIds /\ uploads[v] # None
      /\ (uploads[v].frontend = f => NoFiles(v))
  BY <1>1, <1>2 DEF FrontendsInv, Requesting, Naming, RemovingRow, VersionSteps, Settled
<1>4. /\ versions' = [w \in DOMAIN versions \ {v} |-> versions[w]]
      /\ stray' = IF uploads[v].frontend = f THEN stray ELSE stray \cup {v}
      /\ F!Go(p, r)
      /\ UNCHANGED <<frontends, files, fcalls, ffaults, uploads, removed>>
  BY <1>1, <1>3 DEF F!deleteRow, F!Without, F!Owned
<1>5. /\ loose' \in {loose, loose \cup {v}}
      /\ uploads[v].frontend # f => v \in loose'
      /\ \A q \in Procs : freq[q].at = "activate" /\ freq[q].v = v => v \in loose'
  BY <1>1, <1>3 DEF F!deleteRow, F!Owned, F!At
<1>6. r \in VersionRequest /\ r.at = "clear" /\ r.f = f /\ r.v = v
  BY <1>1, <1>2 DEF VersionRequest, VersionSteps
<1>7. /\ freq' \in [Procs -> F!Request] /\ freq'[p] = r
      /\ \A q \in Procs : q # p => freq'[q] = freq[q]
  BY <1>0, <1>4, <1>6, RequestServed, FrontendsRequests
<1>8. FrontendsTypeOK'
  <2>1. /\ versions' \in [DOMAIN versions \ {v} -> F!Version]
        /\ DOMAIN versions \ {v} \in SUBSET VersionIds
    BY <1>0, <1>4, FrontendsTables
  <2>2. stray' \subseteq VersionIds /\ loose' \subseteq VersionIds
    BY <1>0, <1>3, <1>4, <1>5, FrontendsParts
  <2> QED BY <1>0, <1>4, <1>7, <2>1, <2>2, FrontendsTables, FrontendsParts, FrontendsTyped
<1>9. \A q \in Procs : \A w : Putting(q, w)' <=> Putting(q, w)
  <2> TAKE q \in Procs
  <2> TAKE w
  <2>1. CASE q = p
    BY <1>1, <1>2, <1>6, <1>7, <2>1 DEF Putting
  <2>2. CASE q # p
    BY <1>7, <2>2 DEF Putting
  <2> QED BY <2>1, <2>2
<1>10. UploadsKept
  BY <1>4, <1>9, SettledKept
<1>11. \A w : FilesKept(w) /\ (NoFiles(w)' <=> NoFiles(w))
  BY <1>4 DEF FilesKept, NoFiles
<1>12. RowsOwned' /\ RowsStored'
  <2>1. \A w \in DOMAIN versions' : w \in DOMAIN versions /\ versions'[w] = versions[w]
    BY <1>4
  <2> QED BY <1>4, <1>10, <1>11, <2>1, RowsKept
<1>13. MarksSettled'
  BY <1>3, <1>4, <1>5, <1>10, MarksKept
<1>14. FilesPlaced'
  BY <1>4, <1>10, PlacesKept
<1>15. FilesListed'
  <2>1. v \in stray' \/ NoFiles(v)'
    BY <1>3, <1>4, <1>11
  <2>2. \A w \in DOMAIN versions \cup stray : w # v => w \in DOMAIN versions' \cup stray'
    BY <1>4
  <2> QED BY <1>4, <1>9, <2>1, <2>2, ListKept
<1>16. ActiveServed'
  <2>1. \A g, w : Clearing(g, w) => Clearing(g, w)'
    BY <1>1, <1>2, <1>7 DEF Clearing
  <2>2. Clearing(f, v)'
    BY <1>6, <1>7 DEF Clearing
  <2>3. \A w \in DOMAIN versions \cup loose : w # v => w \in DOMAIN versions' \cup loose'
    BY <1>4, <1>5
  <2> QED BY <1>4, <1>5, <1>10, <2>1, <2>2, <2>3, ServingKept
<1>17. ASSUME NEW q \in Procs PROVE Requesting(q)'
  <2>1. Requesting(q)
    BY DEF FrontendsInv
  <2>2. CASE q # p
    <3>1. freq[q].at = "activate" =>
            /\ freq[q].v \in DOMAIN versions \cup loose =>
                 freq[q].v \in DOMAIN versions' \cup loose'
            /\ freq[q].f \notin DOMAIN frontends => freq[q].f \notin DOMAIN frontends'
      BY <1>4, <1>5
    <3>2. \A o \in Procs : Putting(o, freq[q].v)' => Putting(o, freq[q].v)
      BY <1>7, <1>9, <2>2 DEF Putting
    <3> QED BY <1>0, <1>7, <1>10, <1>11, <2>1, <2>2, <3>1, <3>2, RequestKept
  <2>3. CASE q = p
    <3>1. Naming(q)'
      BY <1>3, <1>6, <1>7, <1>10, <2>3 DEF Naming, UploadsKept
    <3> QED BY <1>6, <1>7, <2>3, <3>1 DEF Requesting, Uploading, Wiping, RemovingRow, Activating
  <2> QED BY <2>2, <2>3
<1> QED BY <1>8, <1>12, <1>13, <1>14, <1>15, <1>16, <1>17 DEF FrontendsInv

\* A request sets or clears the pointer of its frontend, and is over.
LEMMA PointerSound ==
    ASSUME FrontendsInv, NEW p \in Procs, NEW old, NEW f, NEW v,
           old = freq[p], f = old.f, v = old.v,
           F!clearActive(p) \/ F!activate(p)
    PROVE  FrontendsInv'
<1>0. FrontendsTypeOK /\ freq[p] \in F!Request
  BY FrontendsParts DEF FrontendsInv
<1>1. old.at \in {"clear", "activate"} /\ old \in VersionRequest /\ v \in VersionIds
  BY <1>0, FrontendsRequests DEF F!clearActive, F!activate, F!At, VersionSteps, VersionRequest
<1>2. PICK point \in [DOMAIN frontends -> VersionIds \cup {None}] :
         /\ frontends' = [g \in DOMAIN frontends |->
                            [frontends[g] EXCEPT !.active = point[g]]]
         /\ \A g \in DOMAIN frontends :
              \/ point[g] = frontends[g].active
                   /\ ~(old.at = "clear" /\ g = f /\ frontends[g].active = v)
              \/ old.at = "clear" /\ point[g] = None
              \/ old.at = "activate" /\ g = f /\ point[g] = v
  <2> DEFINE clear == [g \in DOMAIN frontends |->
                         IF g = f /\ frontends[g].active = v THEN None
                                                             ELSE frontends[g].active]
             set == [g \in DOMAIN frontends |-> IF g = f THEN v ELSE frontends[g].active]
  <2>1. \A g \in DOMAIN frontends :
          /\ frontends[g] \in Frontend /\ frontends[g].active \in VersionIds \cup {None}
          /\ [frontends[g] EXCEPT !.active = frontends[g].active] = frontends[g]
    BY <1>0, FrontendsTables DEF Frontend
  <2>2. /\ clear \in [DOMAIN frontends -> VersionIds \cup {None}]
        /\ set \in [DOMAIN frontends -> VersionIds \cup {None}]
    BY <1>1, <2>1
  <2>3. CASE F!clearActive(p)
    <3>1. /\ old.at = "clear"
          /\ frontends' = [g \in DOMAIN frontends |->
                             IF g = f /\ frontends[g].active = v
                             THEN [frontends[g] EXCEPT !.active = None]
                             ELSE frontends[g]]
      BY <2>3 DEF F!clearActive, F!At
    <3>2. frontends' = [g \in DOMAIN frontends |->
                          [frontends[g] EXCEPT !.active = clear[g]]]
      BY <2>1, <3>1
    <3> QED BY <2>2, <3>1, <3>2
  <2>4. CASE F!activate(p)
    <3>1. /\ old.at = "activate"
          /\ frontends' = [g \in DOMAIN frontends |->
                             IF g = f THEN [frontends[g] EXCEPT !.active = v]
                                      ELSE frontends[g]]
      BY <2>4 DEF F!activate, F!At
    <3>2. frontends' = [g \in DOMAIN frontends |->
                          [frontends[g] EXCEPT !.active = set[g]]]
      BY <2>1, <3>1
    <3> QED BY <2>2, <3>1, <3>2
  <2> QED BY <2>3, <2>4
<1>3. F!Go(p, F!Idle)
      /\ UNCHANGED <<versions, files, fcalls, ffaults, uploads, removed, stray, loose>>
  BY DEF F!clearActive, F!activate, F!history
<1>4. /\ freq' \in [Procs -> F!Request] /\ freq'[p] = F!Idle /\ F!Idle.at = "idle"
      /\ \A q \in Procs : q # p => freq'[q] = freq[q]
  BY <1>0, <1>3, RequestServed, FrontendsRequests
<1>5. /\ DOMAIN frontends' = DOMAIN frontends
      /\ \A g \in DOMAIN frontends :
           frontends'[g] \in Frontend /\ frontends'[g].active = point[g]
  <2>1. \A g \in DOMAIN frontends : frontends[g] \in Frontend
    BY <1>0, FrontendsTables
  <2>2. \A g \in DOMAIN frontends :
          /\ [frontends[g] EXCEPT !.active = point[g]] \in Frontend
          /\ [frontends[g] EXCEPT !.active = point[g]].active = point[g]
    BY <1>2, <2>1 DEF Frontend
  <2> QED BY <1>2, <2>2
<1>6. FrontendsTypeOK'
  <2>1. frontends' \in [DOMAIN frontends -> Frontend]
        /\ DOMAIN frontends \in SUBSET FrontendIds
    BY <1>0, <1>2, <1>5, FrontendsTables
  <2> QED BY <1>0, <1>3, <1>4, <2>1, FrontendsTables, FrontendsParts, FrontendsTyped
<1>7. \A q \in Procs : \A w : Putting(q, w)' <=> Putting(q, w)
  <2> TAKE q \in Procs
  <2> TAKE w
  <2>1. CASE q = p
    BY <1>1, <1>4, <2>1 DEF Putting
  <2>2. CASE q # p
    BY <1>4, <2>2 DEF Putting
  <2> QED BY <2>1, <2>2
<1>8. UploadsKept
  BY <1>3, <1>7, SettledKept
<1>9. \A w : FilesKept(w) /\ (NoFiles(w)' <=> NoFiles(w))
  BY <1>3 DEF FilesKept, NoFiles
<1>10. RowsOwned' /\ RowsStored'
  BY <1>3, <1>8, <1>9, RowsKept
<1>11. MarksSettled'
  BY <1>3, <1>8, MarksKept
<1>12. FilesPlaced'
  BY <1>3, <1>8, PlacesKept
<1>13. FilesListed'
  BY <1>3, <1>7, ListKept
<1>14. ActiveServed'
  <2>1. ASSUME NEW g \in DOMAIN frontends'
        PROVE  \/ frontends'[g].active = None
               \/ \A w : frontends'[g].active = w => Serving(g, w)'
               \/ /\ g \in DOMAIN frontends /\ frontends'[g].active = frontends[g].active
                  /\ \A w : Settled(w) /\ uploads[w].frontend = g =>
                       ((w \in DOMAIN versions \cup loose \/ Clearing(g, w)) =>
                         (\/ w \in DOMAIN versions' \cup loose' \/ Clearing(g, w)'
                          \/ frontends'[g].active # w))
    <3>1. g \in DOMAIN frontends /\ frontends'[g].active = point[g]
      BY <1>5
    <3>2. CASE old.at = "activate" /\ g = f /\ point[g] = v
      <4>1. Settled(v) /\ uploads[v].frontend = f /\ v \in DOMAIN versions \cup loose
        BY <3>1, <3>2 DEF FrontendsInv, Requesting, Naming, Activating, VersionSteps
      <4>2. Serving(g, v)'
        BY <1>3, <3>2, <4>1 DEF Serving, Settled
      <4> QED BY <3>1, <3>2, <4>2
    <3>3. CASE /\ point[g] = frontends[g].active
               /\ ~(old.at = "clear" /\ g = f /\ frontends[g].active = v)
      <4>1. \A w : Clearing(g, w) => Clearing(g, w)' \/ frontends'[g].active # w
        BY <1>4, <3>1, <3>3 DEF Clearing
      <4> QED BY <1>3, <3>1, <3>3, <4>1
    <3> QED BY <1>2, <3>1, <3>2, <3>3
  <2> QED BY <1>8, <2>1, ServingKept
<1>15. ASSUME NEW q \in Procs PROVE Requesting(q)'
  <2>1. Requesting(q)
    BY DEF FrontendsInv
  <2>2. CASE q # p
    <3>1. \A o \in Procs : Putting(o, freq[q].v)' => Putting(o, freq[q].v)
      BY <1>4, <1>7, <2>2 DEF Putting
    <3> QED BY <1>0, <1>3, <1>4, <1>5, <1>8, <1>9, <2>1, <2>2, <3>1, RequestKept
  <2>3. CASE q = p
    BY <1>4, <2>3 DEF Requesting, Uploading, Wiping, RemovingRow, Naming, Activating,
                      VersionSteps
  <2> QED BY <2>2, <2>3
<1> QED BY <1>6, <1>10, <1>11, <1>12, <1>13, <1>14, <1>15 DEF FrontendsInv

\* A cut marks what it leaves behind.
\* Requests that end where they stand, with an error or with the process.
LEMMA RequestsEnd ==
    ASSUME FrontendsInv, NEW C \in SUBSET Procs, ffaults' \in Nat,
           freq' = [p \in Procs |-> IF p \in C THEN F!Idle ELSE freq[p]],
           stray' = stray \cup {freq[p].v : p \in {q \in C : freq[q].at = "put"}},
           loose' = loose \cup {freq[p].v : p \in {q \in C : freq[q].at = "clear"}},
           UNCHANGED <<frontends, versions, files, fcalls, uploads, removed>>
    PROVE  FrontendsInv'
<1>0. FrontendsTypeOK /\ freq \in [Procs -> F!Request]
  BY FrontendsParts DEF FrontendsInv
<1>1. /\ ffaults' \in Nat
      /\ freq' = [p \in Procs |-> IF p \in C THEN F!Idle ELSE freq[p]]
      /\ stray' = stray \cup {freq[p].v : p \in {q \in C : freq[q].at = "put"}}
      /\ loose' = loose \cup {freq[p].v : p \in {q \in C : freq[q].at = "clear"}}
      /\ UNCHANGED <<frontends, versions, files, fcalls, uploads, removed>>
  OBVIOUS
<1>2. /\ \A p \in Procs : p \in C => freq'[p] = F!Idle /\ freq'[p].at = "idle"
      /\ \A p \in Procs : p \notin C => freq'[p] = freq[p]
  BY <1>1, FrontendsRequests
<1>3. /\ \A p \in C : freq[p].at = "put" => freq[p].v \in VersionIds /\ freq[p].v \in stray'
      /\ \A p \in C : freq[p].at = "clear" => freq[p].v \in VersionIds /\ freq[p].v \in loose'
  <2>1. \A p \in Procs : freq[p].at \in {"put", "clear"} => freq[p].v \in VersionIds
    BY <1>0, FrontendsRequests DEF PutRequest, VersionRequest, VersionSteps
  <2> QED BY <1>1, <2>1
<1>4. FrontendsTypeOK'
  <2>1. stray' \subseteq VersionIds /\ loose' \subseteq VersionIds
    BY <1>0, <1>1, <1>3, FrontendsParts
  <2>2. freq' \in [Procs -> F!Request] /\ ffaults' \in Nat
    BY <1>0, <1>1, FrontendsParts, FrontendsRequests
  <2> QED BY <1>0, <1>1, <2>1, <2>2, FrontendsTables, FrontendsParts, FrontendsTyped
<1>5. \A p \in Procs : \A w : Putting(p, w)' <=> (Putting(p, w) /\ p \notin C)
  BY <1>2 DEF Putting
<1>6. UploadsKept
  BY <1>1, <1>5, SettledKept
<1>7. \A w : FilesKept(w) /\ (NoFiles(w)' <=> NoFiles(w))
  BY <1>1 DEF FilesKept, NoFiles
<1>8. RowsOwned' /\ RowsStored'
  BY <1>1, <1>6, <1>7, RowsKept
<1>9. MarksSettled'
  <2>1. \A p \in C : freq[p].at = "clear" => Settled(freq[p].v)
    BY DEF FrontendsInv, Requesting, Naming, VersionSteps
  <2> QED BY <1>1, <1>6, <2>1, MarksKept
<1>10. FilesPlaced'
  BY <1>1, <1>6, PlacesKept
<1>11. FilesListed'
  <2>1. \A p \in Procs : \A w : Putting(p, w) => w \in stray' \/ Putting(p, w)'
    BY <1>3, <1>5 DEF Putting
  <2>2. stray \subseteq stray'
    BY <1>1
  <2> QED BY <1>1, <2>1, <2>2, ListKept
<1>12. ActiveServed'
  <2>1. \A f, w : Clearing(f, w) => w \in loose' \/ Clearing(f, w)'
    BY <1>2, <1>3 DEF Clearing
  <2>2. loose \subseteq loose'
    BY <1>1
  <2> QED BY <1>1, <1>6, <2>1, <2>2, ServingKept
<1>13. ASSUME NEW q \in Procs PROVE Requesting(q)'
  <2>1. Requesting(q)
    BY DEF FrontendsInv
  <2>2. CASE q \notin C
    <3>1. \A o \in Procs : Putting(o, freq[q].v)' => Putting(o, freq[q].v)
      BY <1>2, <1>5, <2>2 DEF Putting
    <3>2. loose \subseteq loose' /\ freq'[q] = freq[q]
      BY <1>1, <1>2, <2>2
    <3> QED BY <1>0, <1>1, <1>6, <1>7, <2>1, <3>1, <3>2, RequestKept
  <2>3. CASE q \in C
    <3>1. freq'[q].at = "idle"
      BY <1>2, <2>3
    <3> QED BY <3>1 DEF Requesting, Uploading, Wiping, RemovingRow, Naming, Activating,
                        VersionSteps
  <2> QED BY <2>2, <2>3
<1> QED BY <1>4, <1>8, <1>9, <1>10, <1>11, <1>12, <1>13 DEF FrontendsInv

LEMMA CutSound ==
    ASSUME FrontendsInv, NEW C \in SUBSET Procs, F!Cut(C)
    PROVE  FrontendsInv'
<1>1. ffaults' \in Nat
  BY FrontendsParts DEF FrontendsInv, F!Cut
<1> QED BY <1>1, RequestsEnd DEF F!Cut, F!At

LEMMA InvalidPathSound ==
    ASSUME FrontendsInv, NEW p \in Procs, F!invalidPath(p)
    PROVE  FrontendsInv'
<1>1. /\ freq[p].at = "put" /\ F!Go(p, F!Idle)
      /\ stray' = stray \cup {freq[p].v}
      /\ UNCHANGED <<frontends, versions, files, fcalls, ffaults, uploads, removed, loose>>
  BY DEF F!invalidPath, F!At
<1>2. freq \in [Procs -> F!Request] /\ ffaults \in Nat
  BY FrontendsParts DEF FrontendsInv
<1>3. freq' = [q \in Procs |-> IF q \in {p} THEN F!Idle ELSE freq[q]]
  BY <1>1, <1>2 DEF F!Go
<1>4. {q \in {p} : freq[q].at = "put"} = {p} /\ {q \in {p} : freq[q].at = "clear"} = {}
  BY <1>1
<1>5. /\ stray' = stray \cup {freq[q].v : q \in {o \in {p} : freq[o].at = "put"}}
      /\ loose' = loose \cup {freq[q].v : q \in {o \in {p} : freq[o].at = "clear"}}
  BY <1>1, <1>4
<1>6. PICK C \in SUBSET Procs : C = {p}
  OBVIOUS
<1>7. /\ ffaults' \in Nat
      /\ freq' = [q \in Procs |-> IF q \in C THEN F!Idle ELSE freq[q]]
      /\ stray' = stray \cup {freq[q].v : q \in {o \in C : freq[o].at = "put"}}
      /\ loose' = loose \cup {freq[q].v : q \in {o \in C : freq[o].at = "clear"}}
      /\ UNCHANGED <<frontends, versions, files, fcalls, uploads, removed>>
  BY <1>1, <1>2, <1>3, <1>5, <1>6
<1> QED BY <1>7, RequestsEnd

LEMMA FrontendsStep ==
    ASSUME FrontendsInv, F!Next
    PROVE  FrontendsInv'
<1>1. ASSUME NEW f \in FrontendIds, NEW slug \in Slugs, F!Create(f, slug)
      PROVE  FrontendsInv'
  BY <1>1, CreateSound
<1>2. ASSUME NEW p \in Procs, F!Requests(p) PROVE FrontendsInv'
  BY <1>2, ReadsSound
<1>3. ASSUME NEW p \in Procs, F!Step(p) PROVE FrontendsInv'
  <2>1. ASSUME F!clearActive(p) \/ F!activate(p) PROVE FrontendsInv'
    BY <2>1, PointerSound
  <2> QED BY <1>3, <2>1, HandlerUpload, PutFileSound, InvalidPathSound, InsertVersionSound,
             ReadsSound, DirectoriesSound, DeleteFrontendSound, DeleteRowSound DEF F!Step
<1>4. ASSUME NEW C \in SUBSET Procs, F!Cut(C) PROVE FrontendsInv'
  BY <1>4, CutSound
<1>5. \A p \in Procs : {p} \in SUBSET Procs
  OBVIOUS
<1>6. Procs \in SUBSET Procs
  OBVIOUS
<1> QED BY <1>1, <1>2, <1>3, <1>4, <1>5, <1>6 DEF F!Next

LEMMA FrontendsInit ==
    ASSUME F!Init
    PROVE  FrontendsInv
<1> USE DEF F!Init
<1>1. FrontendsTypeOK
  <2>1. frontends \in [{} -> [slug : Slugs, active : VersionIds \cup {None}]]
        /\ versions \in [{} -> F!Version]
    OBVIOUS
  <2>2. \E D \in SUBSET FrontendIds :
          frontends \in [D -> [slug : Slugs, active : VersionIds \cup {None}]]
    BY <2>1
  <2>3. \E D \in SUBSET VersionIds : versions \in [D -> F!Version]
    BY <2>1
  <2>4. freq \in [Procs -> F!Request]
    BY FrontendsRequests
  <2> QED BY <2>2, <2>3, <2>4 DEF FrontendsTypeOK, F!FrontendsTypeOK
<1>2. \A p \in Procs : freq[p].at = "idle"
  BY FrontendsRequests
<1>3. \A p \in Procs : Requesting(p)
  BY <1>2 DEF Requesting, Uploading, Wiping, RemovingRow, Naming, Activating, VersionSteps
<1> QED BY <1>1, <1>3 DEF FrontendsInv, RowsOwned, MarksSettled, FilesPlaced, RowsStored,
                          FilesListed, ActiveServed

LEMMA FrontendsStutter ==
    ASSUME FrontendsInv, UNCHANGED fvars
    PROVE  FrontendsInv'
<1> USE DEF fvars
<1>1. FrontendsTypeOK'
  BY DEF FrontendsInv, FrontendsTypeOK, F!FrontendsTypeOK
<1>2. RowsOwned' /\ MarksSettled' /\ FilesPlaced'
  BY DEF FrontendsInv, RowsOwned, MarksSettled, FilesPlaced, Settled, Putting
<1>3. RowsStored'
  BY DEF FrontendsInv, RowsStored, RowStored, F!Stored
<1>4. FilesListed'
  BY DEF FrontendsInv, FilesListed, Putting
<1>5. ActiveServed'
  BY DEF FrontendsInv, ActiveServed, Serving, Clearing
<1>6. ASSUME NEW p \in Procs PROVE Requesting(p)'
  <2>1. Requesting(p)
    BY DEF FrontendsInv
  <2>2. Uploading(p)'
    BY <2>1 DEF Requesting, Uploading, Putting, F!Stored
  <2>3. Wiping(p)'
    BY <2>1 DEF Requesting, Wiping, Settled, Putting, NoFiles
  <2>4. Naming(p)' /\ RemovingRow(p)' /\ Activating(p)'
    BY <2>1 DEF Requesting, Naming, RemovingRow, Activating, Settled, Putting, NoFiles
  <2> QED BY <2>2, <2>3, <2>4 DEF Requesting
<1> QED BY <1>1, <1>2, <1>3, <1>4, <1>5, <1>6 DEF FrontendsInv

LEMMA FrontendsProperties ==
    ASSUME FrontendsInv
    PROVE  DirectoriesMatchRows /\ ActiveIsOwnVersion
<1>1. \A v \in DOMAIN versions \ removed :
        /\ F!Stored(versions[v].frontend_id, v) = F!CleanedNames(uploads[v].archive)
        /\ versions[v].file_count = Len(uploads[v].archive)
  BY DEF FrontendsInv, RowsOwned, RowsStored, RowStored
<1>2. \A file \in files : file[2] \in DOMAIN versions \cup stray \/ F!Storing(file[2])
  BY DEF FrontendsInv, FilesListed, Putting, F!Storing, F!At
<1>3. DirectoriesMatchRows
  BY <1>1, <1>2 DEF DirectoriesMatchRows, F!DirectoriesMatchRows
<1>4. \A f, v : Clearing(f, v) => F!Clearing(f, v)
  BY DEF Clearing, F!Clearing, F!At
<1>5. ActiveIsOwnVersion
  <2>1. ASSUME NEW f \in DOMAIN frontends, NEW v, frontends[f].active = v, v # None
        PROVE  /\ uploads[v] # None /\ uploads[v].frontend = f
               /\ v \in DOMAIN versions \cup loose \/ F!Clearing(f, v)
    <3>1. Serving(f, v)
      BY <2>1 DEF FrontendsInv, ActiveServed
    <3> QED BY <1>4, <3>1 DEF Serving
  <2> QED BY <2>1 DEF ActiveIsOwnVersion, F!ActiveIsOwnVersion
<1> QED BY <1>3, <1>5

-----------------------------------------------------------------------------
(* The two services together.                                              *)

LEMMA ContentInvariant == Spec => [](FrontendsInv /\ PackagesInv)
<1>1. Init => FrontendsInv /\ PackagesInv
  BY FrontendsInit, PackagesInit DEF Init
<1>2. FrontendsInv /\ PackagesInv /\ [Next]_vars => (FrontendsInv /\ PackagesInv)'
  <2> SUFFICES ASSUME FrontendsInv, PackagesInv, [Next]_vars
               PROVE  FrontendsInv' /\ PackagesInv'
    OBVIOUS
  <2>1. CASE F!Next /\ UNCHANGED pvars
    BY <2>1, FrontendsStep, PackagesStutter
  <2>2. CASE P!Next /\ UNCHANGED fvars
    BY <2>2, PackagesStep, FrontendsStutter
  <2>3. CASE UNCHANGED vars
    BY <2>3, FrontendsStutter, PackagesStutter DEF vars, fvars, pvars
  <2> QED BY <2>1, <2>2, <2>3 DEF Next
<1> QED BY <1>1, <1>2, PTL DEF Spec

\* Rows, requests and goroutines keep their types: in particular a table holds
\* one row per id, and a marked id is one that was given out.
THEOREM ContentTypes == Spec => []TypeOK
<1>1. FrontendsInv /\ PackagesInv => TypeOK
  BY DEF FrontendsInv, PackagesInv, TypeOK
<1> QED BY <1>1, ContentInvariant, PTL

\* A version in the list has the files of its upload and counts them rightly,
\* until a delete of it starts, and no file is stored outside a listed version
\* but the announced leftovers, whatever uploads, deletes and cuts overlap.
THEOREM StoredAsListed == Spec => []DirectoriesMatchRows
<1>1. FrontendsInv => DirectoriesMatchRows
  BY FrontendsProperties
<1> QED BY <1>1, ContentInvariant, PTL

\* A frontend serves a version of its own, and a listed one but for a delete
\* that raced with the activation or was cut off, whoever activates, deletes
\* versions and deletes frontends at the same time.
THEOREM ServedIsOwned == Spec => []ActiveIsOwnVersion
<1>1. FrontendsInv => ActiveIsOwnVersion
  BY FrontendsProperties
<1> QED BY <1>1, ContentInvariant, PTL

\* A package called available has its whole bundle, unless a delete of it is
\* under way or was cut off, or a second approval overlapped the first.
THEOREM AvailableHasBundle == Spec => []AvailableIsUsable
<1>1. PackagesInv => AvailableIsUsable
  BY PackagesUsable
<1> QED BY <1>1, ContentInvariant, PTL

\* A package is in bundling only while a goroutine of Approve works on it, or
\* after one whose last statement was lost: no interleaving of approvals and
\* deletes leaves one behind.  (BundlingEnds adds that the goroutine ends.)
THEOREM BundlingHasGoroutine ==
    Spec => [](\A i \in DOMAIN packages \ lost :
                 packages[i].status = "bundling" => P!Bundling(i) # {})
<1>1. PackagesInv => \A i \in DOMAIN packages \ lost :
                       packages[i].status = "bundling" => P!Bundling(i) # {}
  <2> SUFFICES ASSUME PackagesInv, NEW i \in DOMAIN packages \ lost,
                      packages[i].status = "bundling"
               PROVE  P!Bundling(i) # {}
    OBVIOUS
  <2>1. i \in Ids
    BY PackagesTable DEF PackagesInv
  <2>2. PICK j \in Jobs : On(j, i)
    BY <2>1 DEF PackagesInv, PackageSound
  <2>3. j \in P!Bundling(i)
    BY <2>2 DEF On, P!Bundling, P!Doing
  <2> QED BY <2>3
<1> QED BY <1>1, ContentInvariant, PTL
=============================================================================
