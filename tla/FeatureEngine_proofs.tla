------------------------ MODULE FeatureEngine_proofs ------------------------
(***************************************************************************)
(* Theorems about FeatureEngine, for any number of keys, requests, rules   *)
(* and calls: its types, that it serves what FlagService promises, that    *)
(* the map is fresh after a call that ran alone, and that evaluation finds *)
(* what the tables define.                                                 *)
(***************************************************************************)
EXTENDS FeatureEngine, FiniteSetTheorems, TLAPS

\* Locations at which a reload has a current key.
AtKey == {"loadVariants", "loadOverrides"}

\* What a call in progress knows about its local variables.
LocalOK ==
    /\ \A p \in Procs : pc[p] = "insertRule" => pending[p] # <<>>
    /\ \A p \in Procs : pc[p] \in AtKey => snap[p][key[p]] # NULL
    /\ \A p \in Procs : \A k \in todo[p] : snap[p][k] # NULL

\* The blank child tables every flag is created with.
Blank(d) == d.rules = {} /\ d.variants = {} /\ d.overrides = NoOverrides

\* Everything stored, being loaded or installed is woven from committed data.
WovenInv ==
    /\ \A k \in Keys : db[k] # NULL => db[k] \in past[k]
    /\ \A k \in Keys : past[k] # {} => \E d \in past[k] : Blank(d)
    /\ \A p \in Procs, k \in Keys : snap[p][k] # NULL => Service!Woven(snap[p][k], past[k])
    /\ \A k \in Keys : flags[k] # NULL => Service!Woven(flags[k], past[k])

-----------------------------------------------------------------------------
(* Facts about the data.                                                   *)

\* An order of a set of rules is a sequence of them.
LEMMA OrdersType ==
    ASSUME NEW S \in SUBSET Rules, NEW s \in Orders(S)
    PROVE  s \in Seq(Rules)
<1>1. IsFiniteSet(S)
  BY FS_Subset, RulesAssumption
<1>2. Cardinality(S) \in Nat
  BY <1>1, FS_CardinalityType
<1>3. s \in [1..Cardinality(S) -> Rules]
  BY DEF Orders
<1> QED
  BY <1>2, <1>3

\* The empty set has one order.
LEMMA OrdersEmpty == <<>> \in Orders({})
<1>1. Cardinality({}) = 0
  BY FS_EmptySet
<1>2. <<>> \in [1..0 -> {}]
  OBVIOUS
<1> QED
  BY <1>1, <1>2 DEF Orders

\* The map that holds no flag, and the row of a new or freshly read flag.
LEMMA DataTypes ==
    /\ NoFlags \in [Keys -> Flag \cup {NULL}]
    /\ NoOverrides \in OverrideMap
    /\ \A d \in DbFlag : RowOnly(d) \in Flag
BY DEF NoFlags, NoOverrides, OverrideMap, DbFlag, Flag, RowOnly

\* What Loaded builds is a map entry.
LEMMA LoadedType ==
    ASSUME TypeOK, NEW k \in Keys, NEW m \in Loaded(k)
    PROVE  m \in Flag \cup {NULL}
<1>1. CASE db[k] = NULL
  BY <1>1 DEF Loaded
<1>2. CASE db[k] # NULL
  <2>1. db[k] \in DbFlag
    BY <1>2 DEF TypeOK
  <2>2. PICK s \in Orders(db[k].rules) :
           m = [RowOnly(db[k]) EXCEPT !.rules = s, !.variants = db[k].variants,
                                      !.overrides = db[k].overrides]
    BY <1>2 DEF Loaded
  <2>3. s \in Seq(Rules)
    BY <2>1, OrdersType DEF DbFlag
  <2> QED
    BY <2>1, <2>2, <2>3 DEF RowOnly, DbFlag, Flag
<1> QED
  BY <1>1, <1>2

\* A request is refused, creates a flag, or changes a stored one.
LEMMA RequestCases ==
    ASSUME TypeOK, NEW p \in Procs, Request(p)
    PROVE  \/ Refuse(p)
           \/ \E k \in Keys, b \in Bodies, rs \in RuleLists :
                 db[k] = NULL /\ CreateFlag(p, k, b, rs)
           \/ \E k \in Keys, f \in DbFlag \cup {NULL} : Mutate(p, k, f)
<1> DEFINE Changes == \E k \in Keys, f \in DbFlag \cup {NULL} : Mutate(p, k, f)
<1>1. ASSUME NEW k \in Keys, NEW f, Mutate(p, k, f),
             db[k] \in DbFlag => f \in DbFlag \cup {NULL}
      PROVE  Changes
  <2>1. CASE db[k] = NULL
    <3>1. Mutate(p, k, NULL)
      BY <1>1, <2>1 DEF Mutate
    <3> QED
      BY <3>1
  <2>2. CASE db[k] \in DbFlag
    BY <1>1, <2>2
  <2> QED
    BY <2>1, <2>2 DEF TypeOK
<1>2. PICK k \in Keys :
        \/ \E b \in Bodies, rs \in RuleLists : CreateFlag(p, k, b, rs)
        \/ \E b \in Bodies : UpdateFlag(p, k, b)
        \/ \E s \in Statuses : TransitionStatus(p, k, s)
        \/ DeleteFlag(p, k)
        \/ \E v \in VariantKeys : CreateVariant(p, k, v) \/ DeleteVariant(p, k, v)
        \/ \E u \in Users : DeleteOverride(p, k, u)
        \/ \E u \in Users, v \in VariantKeys : CreateOverride(p, k, u, v)
  BY DEF Request
<1>3. ASSUME NEW b \in Bodies, NEW rs \in RuleLists, CreateFlag(p, k, b, rs)
      PROVE  Refuse(p) \/ db[k] = NULL
  BY <1>3 DEF CreateFlag
<1>4. ASSUME NEW b \in Bodies, UpdateFlag(p, k, b) PROVE Changes
  <2> DEFINE f == [db[k] EXCEPT !.enabled = b.enabled, !.default_value = b.default_value,
                         !.status = IF b.status = "" THEN "ga" ELSE b.status]
  <2>1. db[k] \in DbFlag => f \in DbFlag
    BY EngineAssumption DEF DbFlag, StatusOrEmpty, Statuses
  <2>2. Mutate(p, k, f)
    BY <1>4 DEF UpdateFlag
  <2> HIDE DEF f, Changes
  <2> QED
    BY <2>1, <2>2, <1>1
<1>5. ASSUME NEW s \in Statuses, TransitionStatus(p, k, s) PROVE Changes
  <2> DEFINE f == [db[k] EXCEPT !.status = s]
  <2>1. db[k] \in DbFlag => f \in DbFlag
    BY DEF DbFlag
  <2>2. Mutate(p, k, f)
    BY <1>5 DEF TransitionStatus
  <2> HIDE DEF f, Changes
  <2> QED
    BY <2>1, <2>2, <1>1
<1>6. ASSUME DeleteFlag(p, k) PROVE Changes
  BY <1>6 DEF DeleteFlag
<1>7. ASSUME NEW v \in VariantKeys, CreateVariant(p, k, v) PROVE Refuse(p) \/ Changes
  <2> DEFINE f == [db[k] EXCEPT !.variants = @ \cup {v}]
  <2>1. db[k] \in DbFlag => f \in DbFlag
    BY DEF DbFlag
  <2>2. Refuse(p) \/ Mutate(p, k, f)
    BY <1>7 DEF CreateVariant
  <2> HIDE DEF f, Changes
  <2> QED
    BY <2>1, <2>2, <1>1
<1>8. ASSUME NEW v \in VariantKeys, DeleteVariant(p, k, v) PROVE Changes
  <2> DEFINE f == [db[k] EXCEPT !.variants = @ \ {v}]
  <2>1. db[k] \in DbFlag => f \in DbFlag
    BY DEF DbFlag
  <2>2. Mutate(p, k, f)
    BY <1>8 DEF DeleteVariant
  <2> HIDE DEF f, Changes
  <2> QED
    BY <2>1, <2>2, <1>1
<1>9. ASSUME NEW u \in Users, DeleteOverride(p, k, u) PROVE Changes
  <2> DEFINE f == [db[k] EXCEPT !.overrides[u] = NULL]
  <2>1. db[k] \in DbFlag => f \in DbFlag
    BY DEF DbFlag, OverrideMap
  <2>2. Mutate(p, k, f)
    BY <1>9 DEF DeleteOverride
  <2> HIDE DEF f, Changes
  <2> QED
    BY <2>1, <2>2, <1>1
<1>10. ASSUME NEW u \in Users, NEW v \in VariantKeys, CreateOverride(p, k, u, v)
       PROVE  Refuse(p) \/ Changes
  <2> DEFINE f == [db[k] EXCEPT !.overrides[u] = v]
  <2>1. db[k] \in DbFlag => f \in DbFlag
    BY DEF DbFlag, OverrideMap
  <2>2. Refuse(p) \/ Mutate(p, k, f)
    BY <1>10 DEF CreateOverride
  <2> HIDE DEF f, Changes
  <2> QED
    BY <2>1, <2>2, <1>1
<1> QED
  BY <1>2, <1>3, <1>4, <1>5, <1>6, <1>7, <1>8, <1>9, <1>10

-----------------------------------------------------------------------------
(* Type correctness.                                                       *)

TypeInv == TypeOK /\ LocalOK

LEMMA TypeInvInit == Init => TypeInv
<1> SUFFICES ASSUME Init PROVE TypeInv
  OBVIOUS
<1>1. calls \in 0..MaxCalls
  BY EngineAssumption DEF Init
<1>2. TypeOK
  BY <1>1, DataTypes DEF Init, TypeOK, Locations, NoFlags
<1>3. LocalOK
  BY DEF Init, LocalOK, AtKey
<1> QED
  BY <1>2, <1>3 DEF TypeInv

\* A stored value is committed, one at a time.
LEMMA CommitType ==
    ASSUME TypeOK, NEW k \in Keys, NEW f \in DbFlag \cup {NULL}, Commit(k, f)
    PROVE  /\ db' \in [Keys -> DbFlag \cup {NULL}]
           /\ past' \in [Keys -> SUBSET DbFlag]
           /\ \A j \in Keys : past[j] \subseteq past'[j]
BY DEF Commit, TypeOK

\* Beginning a call counts it.
LEMMA BeginType ==
    ASSUME TypeOK, NEW p \in Procs, Begin(p)
    PROVE  /\ calls' \in 0..MaxCalls
           /\ solo' \in [Procs -> BOOLEAN]
           /\ pc[p] = "idle"
BY EngineAssumption DEF Begin, TypeOK

LEMMA TypeInvNext == TypeInv /\ [Next]_vars => TypeInv'
<1> SUFFICES ASSUME TypeInv, [Next]_vars PROVE TypeInv'
  OBVIOUS
<1> USE DEF TypeInv
<1>1. ASSUME NEW p \in Procs, Request(p) PROVE TypeInv'
  <2>1. CASE Refuse(p)
    <3>1. calls' \in 0..MaxCalls /\ solo' \in [Procs -> BOOLEAN]
      BY <2>1, BeginType DEF Refuse
    <3> QED
      BY <2>1, <3>1 DEF Refuse, NoCommit, TypeOK, LocalOK
  <2>2. ASSUME NEW k \in Keys, NEW b \in Bodies, NEW rs \in RuleLists,
               db[k] = NULL, CreateFlag(p, k, b, rs)
        PROVE  TypeInv'
    <3> DEFINE f == [enabled |-> b.enabled, default_value |-> b.default_value,
                     status |-> IF b.status = "" THEN "draft" ELSE b.status,
                     rules |-> {}, variants |-> {}, overrides |-> NoOverrides]
    <3>1. f \in DbFlag
      BY EngineAssumption, DataTypes DEF DbFlag, StatusOrEmpty, Statuses
    <3>2. Begin(p) /\ Commit(k, f)
      BY <2>2 DEF CreateFlag
    <3>3. calls' \in 0..MaxCalls /\ solo' \in [Procs -> BOOLEAN] /\ pc[p] = "idle"
      BY <3>2, BeginType
    <3> HIDE DEF f
    <3>4. db' \in [Keys -> DbFlag \cup {NULL}] /\ past' \in [Keys -> SUBSET DbFlag]
      BY <3>1, <3>2, CommitType
    <3>5. /\ pc' = [pc EXCEPT ![p] = IF rs = <<>> THEN "reload" ELSE "insertRule"]
          /\ key' = [key EXCEPT ![p] = k]
          /\ pending' = [pending EXCEPT ![p] = rs]
          /\ UNCHANGED <<flags, snap, todo, last>>
      BY <2>2 DEF CreateFlag, Goto
    <3>6. rs \in Seq(Rules)
      BY EngineAssumption
    <3>7. TypeOK'
      BY <3>3, <3>4, <3>5, <3>6 DEF TypeOK, Locations
    <3>8. LocalOK'
      BY <3>3, <3>5 DEF LocalOK, TypeOK, AtKey
    <3> QED
      BY <3>7, <3>8
  <2>3. ASSUME NEW k \in Keys, NEW f \in DbFlag \cup {NULL}, Mutate(p, k, f)
        PROVE  TypeInv'
    <3>1. calls' \in 0..MaxCalls /\ solo' \in [Procs -> BOOLEAN] /\ pc[p] = "idle"
      BY <2>3, BeginType DEF Mutate
    <3>2. db' \in [Keys -> DbFlag \cup {NULL}] /\ past' \in [Keys -> SUBSET DbFlag]
      BY <2>3, CommitType DEF Mutate, NoCommit, TypeOK
    <3>3. /\ pc' = [pc EXCEPT ![p] = "reload"]
          /\ UNCHANGED <<flags, key, pending, snap, todo, last>>
      BY <2>3 DEF Mutate, Goto
    <3>4. TypeOK'
      BY <3>1, <3>2, <3>3 DEF TypeOK, Locations
    <3>5. LocalOK'
      BY <3>1, <3>3 DEF LocalOK, TypeOK, AtKey
    <3> QED
      BY <3>4, <3>5
  <2> QED
    BY <1>1, <2>1, <2>2, <2>3, RequestCases
<1>2. ASSUME NEW p \in Procs, insertRule(p) PROVE TypeInv'
  <2> DEFINE r == Head(pending[p])
  <2>1. pending[p] \in Seq(Rules) /\ pending[p] # <<>>
    BY <1>2 DEF insertRule, LocalOK, TypeOK
  <2>2. r \in Rules /\ Tail(pending[p]) \in Seq(Rules)
    BY <2>1
  <2>3. CASE db[key[p]] # NULL /\ ~RuleStored(r)
    <3> DEFINE f == [db[key[p]] EXCEPT !.rules = @ \cup {r}]
    <3>1. f \in DbFlag /\ key[p] \in Keys
      <4>1. key[p] \in Keys /\ db[key[p]] \in DbFlag
        BY <2>3 DEF TypeOK
      <4> QED
        BY <2>2, <4>1 DEF DbFlag
    <3>2. Commit(key[p], f)
      BY <1>2, <2>3 DEF insertRule
    <3> HIDE DEF f
    <3>3. db' \in [Keys -> DbFlag \cup {NULL}] /\ past' \in [Keys -> SUBSET DbFlag]
      BY <3>1, <3>2, CommitType
    <3>4. /\ pc' = [pc EXCEPT ![p] = IF Tail(pending[p]) = <<>> THEN "reload"
                                     ELSE "insertRule"]
          /\ pending' = [pending EXCEPT ![p] = Tail(@)]
          /\ UNCHANGED <<flags, key, snap, todo, last, calls, solo>>
      BY <1>2, <2>3 DEF insertRule, Goto
    <3>5. TypeOK'
      BY <2>2, <3>3, <3>4 DEF TypeOK, Locations
    <3>6. LocalOK'
      BY <2>2, <3>4 DEF LocalOK, TypeOK, AtKey
    <3> QED
      BY <3>5, <3>6
  <2>4. CASE ~(db[key[p]] # NULL /\ ~RuleStored(r))
    <3>1. NoCommit /\ Fail(p) /\ UNCHANGED <<flags, key, calls, solo>>
      BY <1>2, <2>4, Zenon DEF insertRule
    <3> QED
      BY <3>1, DataTypes
      DEF NoCommit, Fail, Return, Goto, TypeOK, LocalOK, AtKey, Locations
  <2> QED
    BY <2>3, <2>4
<1>3. ASSUME NEW p \in Procs, queryFlags(p) PROVE TypeInv'
  <2> DEFINE m == [k \in Keys |-> IF db[k] = NULL THEN NULL ELSE RowOnly(db[k])]
  <2>1. m \in [Keys -> Flag \cup {NULL}]
    BY DataTypes DEF TypeOK
  <2>2. \A k \in Keys : db[k] # NULL => m[k] # NULL
    BY DataTypes, EngineAssumption DEF TypeOK
  <2>3. /\ snap' = [snap EXCEPT ![p] = m]
        /\ todo' = [todo EXCEPT ![p] = {k \in Keys : db[k] # NULL}]
        /\ pc' = [pc EXCEPT ![p] = "nextFlag"]
        /\ UNCHANGED <<flags, key, pending, calls, solo, last, db, past>>
    BY <1>3 DEF queryFlags, Goto, NoCommit
  <2> HIDE DEF m
  <2>4. TypeOK'
    BY <2>1, <2>3 DEF TypeOK, Locations
  <2>5. LocalOK'
    BY <2>2, <2>3 DEF LocalOK, TypeOK, AtKey
  <2> QED
    BY <2>4, <2>5
<1>4. ASSUME NEW p \in Procs, NEW k \in Keys, loadRules(p, k) PROVE TypeInv'
  <2>1. snap[p][k] # NULL /\ snap[p][k] \in Flag
    BY <1>4 DEF loadRules, LocalOK, TypeOK
  <2>2. PICK s \in Orders(IF db[k] = NULL THEN {} ELSE db[k].rules) :
           snap' = [snap EXCEPT ![p][k].rules = s]
    BY <1>4 DEF loadRules
  <2>3. s \in Seq(Rules)
    BY OrdersType DEF TypeOK, DbFlag
  <2> DEFINE f == [snap[p][k] EXCEPT !.rules = s]
  <2>4. f \in Flag /\ f # NULL
    BY <2>1, <2>3, EngineAssumption DEF Flag
  <2>5. snap' = [snap EXCEPT ![p] = [snap[p] EXCEPT ![k] = f]]
    BY <2>2 DEF TypeOK
  <2>6. /\ todo' = [todo EXCEPT ![p] = @ \ {k}]
        /\ key' = [key EXCEPT ![p] = k]
        /\ pc' = [pc EXCEPT ![p] = "loadVariants"]
        /\ UNCHANGED <<flags, pending, calls, solo, last, db, past>>
    BY <1>4 DEF loadRules, Goto, NoCommit
  <2> HIDE DEF f
  <2>7. TypeOK'
    BY <2>4, <2>5, <2>6 DEF TypeOK, Locations
  <2>8. LocalOK'
    BY <2>4, <2>5, <2>6 DEF LocalOK, TypeOK, AtKey
  <2> QED
    BY <2>7, <2>8

<1>5. ASSUME NEW p \in Procs, loadVariants(p) PROVE TypeInv'
  <2> DEFINE k == key[p]
             f == [snap[p][k] EXCEPT !.variants =
                      IF db[k] = NULL THEN {} ELSE db[k].variants]
  <2>1. k \in Keys /\ snap[p][k] # NULL /\ snap[p][k] \in Flag
    BY <1>5 DEF loadVariants, LocalOK, TypeOK, AtKey
  <2>2. f \in Flag /\ f # NULL
    BY <2>1, EngineAssumption DEF Flag, DbFlag, TypeOK
  <2>3. snap' = [snap EXCEPT ![p] = [snap[p] EXCEPT ![k] = f]]
    BY <1>5 DEF loadVariants, TypeOK
  <2>4. /\ pc' = [pc EXCEPT ![p] = "loadOverrides"]
        /\ UNCHANGED <<flags, key, pending, todo, calls, solo, last, db, past>>
    BY <1>5 DEF loadVariants, Goto, NoCommit
  <2> HIDE DEF f
  <2>5. TypeOK'
    BY <2>1, <2>2, <2>3, <2>4 DEF TypeOK, Locations
  <2>6. LocalOK'
    BY <2>1, <2>2, <2>3, <2>4 DEF LocalOK, TypeOK, AtKey
  <2> QED
    BY <2>5, <2>6
<1>6. ASSUME NEW p \in Procs, loadOverrides(p) PROVE TypeInv'
  <2> DEFINE k == key[p]
             f == [snap[p][k] EXCEPT !.overrides =
                      IF db[k] = NULL THEN NoOverrides ELSE db[k].overrides]
  <2>1. k \in Keys /\ snap[p][k] # NULL /\ snap[p][k] \in Flag
    BY <1>6 DEF loadOverrides, LocalOK, TypeOK, AtKey
  <2>2. f \in Flag /\ f # NULL
    BY <2>1, DataTypes, EngineAssumption DEF Flag, DbFlag, TypeOK
  <2>3. snap' = [snap EXCEPT ![p] = [snap[p] EXCEPT ![k] = f]]
    BY <1>6 DEF loadOverrides, TypeOK
  <2>4. /\ pc' = [pc EXCEPT ![p] = "nextFlag"]
        /\ UNCHANGED <<flags, key, pending, todo, calls, solo, last, db, past>>
    BY <1>6 DEF loadOverrides, Goto, NoCommit
  <2> HIDE DEF f
  <2>5. TypeOK'
    BY <2>1, <2>2, <2>3, <2>4 DEF TypeOK, Locations
  <2>6. LocalOK'
    BY <2>1, <2>2, <2>3, <2>4 DEF LocalOK, TypeOK, AtKey
  <2> QED
    BY <2>5, <2>6
<1>7. ASSUME NEW p \in Procs, install(p) PROVE TypeInv'
  BY <1>7, DataTypes
  DEF install, NoCommit, Return, Goto, TypeOK, LocalOK, AtKey, Locations
<1>8. ASSUME NEW p \in Procs, reloadFails(p) PROVE TypeInv'
  BY <1>8, DataTypes
  DEF reloadFails, NoCommit, Fail, Return, Goto, TypeOK, LocalOK, AtKey, Locations
<1>9. ASSUME NewEngine PROVE TypeInv'
  <2>1. flags' \in [Keys -> Flag \cup {NULL}]
    BY <1>9, LoadedType DEF NewEngine
  <2>2. calls' \in 0..MaxCalls
    BY <1>9, EngineAssumption DEF NewEngine, TypeOK
  <2> QED
    BY <1>9, <2>1, <2>2, DataTypes
    DEF NewEngine, NoCommit, TypeOK, LocalOK, AtKey, Locations
<1>10. CASE UNCHANGED vars
  BY <1>10 DEF vars, TypeOK, LocalOK, AtKey
<1> QED
  BY <1>1, <1>2, <1>3, <1>4, <1>5, <1>6, <1>7, <1>8, <1>9, <1>10 DEF Next, Continue

\* The types of the engine's variables hold in every state.
THEOREM TypeCorrect == Spec => []TypeOK
<1>1. Spec => []TypeInv
  BY TypeInvInit, TypeInvNext, PTL DEF Spec
<1>2. TypeInv => TypeOK
  BY DEF TypeInv
<1> QED
  BY <1>1, <1>2, PTL

-----------------------------------------------------------------------------
(* Evaluation reads only committed data.                                   *)

\* What is woven stays so as more values are committed.
LEMMA WovenMono ==
    ASSUME NEW f, NEW P, NEW Q, P \subseteq Q, Service!Woven(f, P)
    PROVE  Service!Woven(f, Q)
BY DEF Service!Woven

\* A committed value is woven from itself once its rules are in order, and a
\* flag none of whose child tables has been read is woven too.
LEMMA WovenOfStored ==
    ASSUME NEW P \in SUBSET DbFlag, NEW d \in P, NEW b \in P, Blank(b)
    PROVE  /\ Service!Woven(RowOnly(d), P)
           /\ \A s \in Orders(d.rules) :
                 Service!Woven([RowOnly(d) EXCEPT !.rules = s, !.variants = d.variants,
                                                  !.overrides = d.overrides], P)
<1>1. Service!Woven(RowOnly(d), P)
  BY OrdersEmpty DEF Blank, RowOnly, Service!Woven
<1>2. ASSUME NEW s \in Orders(d.rules)
      PROVE  Service!Woven([RowOnly(d) EXCEPT !.rules = s, !.variants = d.variants,
                                              !.overrides = d.overrides], P)
  BY <1>2 DEF RowOnly, Service!Woven
<1> QED
  BY <1>1, <1>2

LEMMA WovenInit == Init => WovenInv
BY DEF Init, WovenInv, NoFlags

\* A statement that stores d under k, where past[k] already holds a blank value
\* or d is blank, keeps the part of the invariant that speaks of the tables.
LEMMA CommitWoven ==
    ASSUME TypeInv, WovenInv, NEW k \in Keys, NEW f \in DbFlag \cup {NULL}, Commit(k, f),
           UNCHANGED <<flags, snap>>,
           f = NULL \/ Blank(f) \/ db[k] # NULL
    PROVE  WovenInv'
<1>1. past' \in [Keys -> SUBSET DbFlag] /\ \A j \in Keys : past[j] \subseteq past'[j]
  BY CommitType DEF TypeInv
<1>2. \A j \in Keys : db'[j] # NULL => db'[j] \in past'[j]
  BY DEF Commit, TypeInv, TypeOK, WovenInv
<1>3. \A j \in Keys : past'[j] # {} => \E d \in past'[j] : Blank(d)
  BY DEF Commit, TypeInv, TypeOK, WovenInv
<1>4. \A p \in Procs, j \in Keys : snap'[p][j] # NULL => Service!Woven(snap'[p][j], past'[j])
  BY <1>1, WovenMono DEF WovenInv
<1>5. \A j \in Keys : flags'[j] # NULL => Service!Woven(flags'[j], past'[j])
  BY <1>1, WovenMono DEF WovenInv
<1> QED
  BY <1>2, <1>3, <1>4, <1>5 DEF WovenInv

\* A step of a reload replaces one map under construction, entry by entry.
LEMMA LoadWoven ==
    ASSUME WovenInv, NEW p \in Procs, UNCHANGED <<db, past, flags>>,
           \A q \in Procs \ {p} : snap'[q] = snap[q],
           \A k \in Keys : snap'[p][k] # NULL => Service!Woven(snap'[p][k], past[k])
    PROVE  WovenInv'
BY DEF WovenInv

LEMMA WovenNext == TypeInv /\ WovenInv /\ [Next]_vars => WovenInv'
<1> SUFFICES ASSUME TypeInv, WovenInv, [Next]_vars PROVE WovenInv'
  OBVIOUS
<1> USE DEF TypeInv
<1>1. ASSUME NEW p \in Procs, Request(p) PROVE WovenInv'
  <2>1. CASE Refuse(p)
    BY <2>1 DEF Refuse, NoCommit, WovenInv
  <2>2. ASSUME NEW k \in Keys, NEW b \in Bodies, NEW rs \in RuleLists,
               db[k] = NULL, CreateFlag(p, k, b, rs)
        PROVE  WovenInv'
    <3> DEFINE f == [enabled |-> b.enabled, default_value |-> b.default_value,
                     status |-> IF b.status = "" THEN "draft" ELSE b.status,
                     rules |-> {}, variants |-> {}, overrides |-> NoOverrides]
    <3>1. f \in DbFlag /\ Blank(f)
      BY EngineAssumption, DataTypes DEF DbFlag, StatusOrEmpty, Statuses, Blank
    <3>2. Commit(k, f) /\ UNCHANGED <<flags, snap>>
      BY <2>2 DEF CreateFlag
    <3> HIDE DEF f
    <3> QED
      BY <3>1, <3>2, CommitWoven
  <2>3. ASSUME NEW k \in Keys, NEW f \in DbFlag \cup {NULL}, Mutate(p, k, f)
        PROVE  WovenInv'
    <3>1. UNCHANGED <<flags, snap>>
      BY <2>3 DEF Mutate
    <3>2. CASE db[k] = NULL
      BY <2>3, <3>1, <3>2 DEF Mutate, NoCommit, WovenInv
    <3>3. CASE db[k] # NULL
      BY <2>3, <3>1, <3>3, CommitWoven DEF Mutate
    <3> QED
      BY <3>2, <3>3
  <2> QED
    BY <1>1, <2>1, <2>2, <2>3, RequestCases
<1>2. ASSUME NEW p \in Procs, insertRule(p) PROVE WovenInv'
  <2> DEFINE r == Head(pending[p])
             f == [db[key[p]] EXCEPT !.rules = @ \cup {r}]
  <2>1. CASE db[key[p]] # NULL /\ ~RuleStored(r)
    <3>1. r \in Rules
      BY <1>2 DEF insertRule, LocalOK, TypeOK
    <3>2. key[p] \in Keys /\ db[key[p]] \in DbFlag
      BY <2>1 DEF TypeOK
    <3>3. f \in DbFlag
      BY <3>1, <3>2 DEF DbFlag
    <3>4. Commit(key[p], f) /\ UNCHANGED <<flags, snap>>
      BY <1>2, <2>1 DEF insertRule
    <3> HIDE DEF f, r
    <3> QED
      BY <2>1, <3>2, <3>3, <3>4, CommitWoven
  <2>2. CASE ~(db[key[p]] # NULL /\ ~RuleStored(r))
    <3>1. NoCommit /\ Fail(p) /\ UNCHANGED <<flags, key, calls, solo>>
      BY <1>2, <2>2, Zenon DEF insertRule
    <3> QED
      BY <3>1, LoadWoven DEF NoCommit, Fail, Return, NoFlags, TypeOK
  <2> QED
    BY <2>1, <2>2
<1>3. ASSUME NEW p \in Procs, queryFlags(p) PROVE WovenInv'
  <2>1. ASSUME NEW k \in Keys, db[k] # NULL
        PROVE  Service!Woven(RowOnly(db[k]), past[k])
    <3>1. db[k] \in past[k] /\ past[k] \in SUBSET DbFlag
      BY <2>1 DEF WovenInv, TypeOK
    <3>2. PICK b \in past[k] : Blank(b)
      BY <3>1 DEF WovenInv
    <3> QED
      BY <3>1, <3>2, WovenOfStored
  <2>2. \A k \in Keys : snap'[p][k] = IF db[k] = NULL THEN NULL ELSE RowOnly(db[k])
    BY <1>3 DEF queryFlags, TypeOK
  <2>3. \A q \in Procs \ {p} : snap'[q] = snap[q]
    BY <1>3 DEF queryFlags, TypeOK
  <2>4. UNCHANGED <<db, past, flags>>
    BY <1>3 DEF queryFlags, NoCommit
  <2> QED
    BY <2>1, <2>2, <2>3, <2>4, LoadWoven
<1>4. ASSUME NEW p \in Procs, NEW k \in Keys, loadRules(p, k) PROVE WovenInv'
  <2>1. snap[p][k] # NULL /\ snap[p][k] \in Flag
    BY <1>4 DEF loadRules, LocalOK, TypeOK
  <2>2. Service!Woven(snap[p][k], past[k])
    BY <2>1 DEF WovenInv
  <2>3. PICK s \in Orders(IF db[k] = NULL THEN {} ELSE db[k].rules) :
           snap' = [snap EXCEPT ![p][k].rules = s]
    BY <1>4 DEF loadRules
  <2>4. \E d \in past[k] : s \in Orders(d.rules)
    <3>1. CASE db[k] = NULL
      <4>1. PICK b \in past[k] : Blank(b)
        BY <2>2 DEF WovenInv, Service!Woven
      <4> QED
        BY <4>1, <3>1 DEF Blank
    <3>2. CASE db[k] # NULL
      BY <3>2 DEF WovenInv
    <3> QED
      BY <3>1, <3>2
  <2> DEFINE f == [snap[p][k] EXCEPT !.rules = s]
  <2>5. Service!Woven(f, past[k])
    BY <2>1, <2>2, <2>4 DEF Service!Woven, Flag
  <2>6. snap' = [snap EXCEPT ![p] = [snap[p] EXCEPT ![k] = f]]
    BY <2>3 DEF TypeOK
  <2> HIDE DEF f
  <2>7. \A j \in Keys : snap'[p][j] # NULL => Service!Woven(snap'[p][j], past[j])
    BY <2>5, <2>6 DEF WovenInv, TypeOK
  <2>8. UNCHANGED <<db, past, flags>> /\ \A q \in Procs \ {p} : snap'[q] = snap[q]
    BY <1>4, <2>6 DEF loadRules, NoCommit, TypeOK
  <2> QED
    BY <2>7, <2>8, LoadWoven
<1>5. ASSUME NEW p \in Procs, loadVariants(p) PROVE WovenInv'
  <2> DEFINE k == key[p]
             f == [snap[p][k] EXCEPT !.variants =
                      IF db[k] = NULL THEN {} ELSE db[k].variants]
  <2>1. k \in Keys /\ snap[p][k] # NULL /\ snap[p][k] \in Flag
    BY <1>5 DEF loadVariants, LocalOK, TypeOK, AtKey
  <2>2. Service!Woven(snap[p][k], past[k])
    BY <2>1 DEF WovenInv
  <2>3. \E d \in past[k] : d.variants = IF db[k] = NULL THEN {} ELSE db[k].variants
    <3>1. PICK b \in past[k] : Blank(b)
      BY <2>1, <2>2 DEF WovenInv, Service!Woven
    <3> QED
      BY <2>1, <3>1 DEF WovenInv, Blank
  <2>4. Service!Woven(f, past[k])
    BY <2>1, <2>2, <2>3 DEF Service!Woven, Flag
  <2>5. snap' = [snap EXCEPT ![p] = [snap[p] EXCEPT ![k] = f]]
    BY <1>5 DEF loadVariants, TypeOK
  <2> HIDE DEF f
  <2>6. \A j \in Keys : snap'[p][j] # NULL => Service!Woven(snap'[p][j], past[j])
    BY <2>1, <2>4, <2>5 DEF WovenInv, TypeOK
  <2>7. UNCHANGED <<db, past, flags>> /\ \A q \in Procs \ {p} : snap'[q] = snap[q]
    BY <1>5, <2>5 DEF loadVariants, NoCommit, TypeOK
  <2> QED
    BY <2>6, <2>7, LoadWoven
<1>6. ASSUME NEW p \in Procs, loadOverrides(p) PROVE WovenInv'
  <2> DEFINE k == key[p]
             f == [snap[p][k] EXCEPT !.overrides =
                      IF db[k] = NULL THEN NoOverrides ELSE db[k].overrides]
  <2>1. k \in Keys /\ snap[p][k] # NULL /\ snap[p][k] \in Flag
    BY <1>6 DEF loadOverrides, LocalOK, TypeOK, AtKey
  <2>2. Service!Woven(snap[p][k], past[k])
    BY <2>1 DEF WovenInv
  <2>3. \E d \in past[k] : d.overrides = IF db[k] = NULL THEN NoOverrides
                                         ELSE db[k].overrides
    <3>1. PICK b \in past[k] : Blank(b)
      BY <2>1, <2>2 DEF WovenInv, Service!Woven
    <3> QED
      BY <2>1, <3>1 DEF WovenInv, Blank
  <2>4. Service!Woven(f, past[k])
    BY <2>1, <2>2, <2>3 DEF Service!Woven, Flag
  <2>5. snap' = [snap EXCEPT ![p] = [snap[p] EXCEPT ![k] = f]]
    BY <1>6 DEF loadOverrides, TypeOK
  <2> HIDE DEF f
  <2>6. \A j \in Keys : snap'[p][j] # NULL => Service!Woven(snap'[p][j], past[j])
    BY <2>1, <2>4, <2>5 DEF WovenInv, TypeOK
  <2>7. UNCHANGED <<db, past, flags>> /\ \A q \in Procs \ {p} : snap'[q] = snap[q]
    BY <1>6, <2>5 DEF loadOverrides, NoCommit, TypeOK
  <2> QED
    BY <2>6, <2>7, LoadWoven
<1>7. ASSUME NEW p \in Procs, install(p) PROVE WovenInv'
  BY <1>7 DEF install, NoCommit, Return, Goto, NoFlags, WovenInv, TypeOK
<1>8. ASSUME NEW p \in Procs, reloadFails(p) PROVE WovenInv'
  BY <1>8, LoadWoven DEF reloadFails, NoCommit, Fail, Return, NoFlags, TypeOK
<1>9. ASSUME NewEngine PROVE WovenInv'
  <2>1. ASSUME NEW k \in Keys, flags'[k] # NULL
        PROVE  Service!Woven(flags'[k], past[k])
    <3>1. flags'[k] \in Loaded(k)
      BY <1>9 DEF NewEngine
    <3>2. db[k] # NULL
      BY <2>1, <3>1 DEF Loaded
    <3>3. PICK s \in Orders(db[k].rules) :
             flags'[k] = [RowOnly(db[k]) EXCEPT !.rules = s, !.variants = db[k].variants,
                                                !.overrides = db[k].overrides]
      BY <3>1, <3>2 DEF Loaded
    <3>4. db[k] \in past[k] /\ past[k] \in SUBSET DbFlag
      BY <3>2 DEF WovenInv, TypeOK
    <3>5. PICK b \in past[k] : Blank(b)
      BY <3>4 DEF WovenInv
    <3>6. Service!Woven([RowOnly(db[k]) EXCEPT !.rules = s, !.variants = db[k].variants,
                                               !.overrides = db[k].overrides], past[k])
      BY <3>4, <3>5, WovenOfStored
    <3> QED
      BY <3>3, <3>6
  <2> QED
    BY <1>9, <2>1 DEF NewEngine, NoCommit, NoFlags, WovenInv
<1>10. CASE UNCHANGED vars
  BY <1>10 DEF vars, WovenInv
<1> QED
  BY <1>1, <1>2, <1>3, <1>4, <1>5, <1>6, <1>7, <1>8, <1>9, <1>10 DEF Next, Continue

\* The invariant behind the theorems below.
THEOREM Invariance == Spec => [](TypeInv /\ WovenInv)
BY TypeInvInit, TypeInvNext, WovenInit, WovenNext, PTL DEF Spec

-----------------------------------------------------------------------------
(* Theorems about what evaluation reads.                                   *)

\* Storing a value, or deleting a flag, under an unchanged map is a step of the
\* abstract service.
LEMMA CommitRefines ==
    ASSUME TypeInv, NEW k \in Keys, NEW f \in DbFlag \cup {NULL}, Commit(k, f),
           UNCHANGED flags
    PROVE  [Service!Next]_Service!vars
<1>1. CASE f = NULL
  BY <1>1 DEF Commit, Service!vars
<1>2. CASE f # NULL
  <2>1. past' = [past EXCEPT ![k] = @ \cup {f}] /\ f \in past'[k] /\ f \in DbFlag
    BY <1>2 DEF Commit, TypeInv, TypeOK
  <2>2. Service!Store(k)
    BY <2>1 DEF Service!Store
  <2> QED
    BY <2>2 DEF Service!Next
<1> QED
  BY <1>1, <1>2

LEMMA StepRefines ==
    TypeInv /\ WovenInv /\ TypeInv' /\ WovenInv' /\ [Next]_vars
       => [Service!Next]_Service!vars
<1> SUFFICES ASSUME TypeInv, WovenInv, TypeInv', WovenInv', [Next]_vars
             PROVE  [Service!Next]_Service!vars
  OBVIOUS
<1> DEFINE Stutters == UNCHANGED <<past, flags>>
<1>1. Stutters => [Service!Next]_Service!vars
  BY DEF Service!vars
<1>2. ASSUME UNCHANGED past PROVE [Service!Next]_Service!vars
  <2>1. flags' \in [Keys -> Flag \cup {NULL}]
    BY DEF TypeInv, TypeOK
  <2>2. \A k \in Keys : flags'[k] # NULL => Service!Woven(flags'[k], past[k])
    BY <1>2 DEF WovenInv
  <2>3. Service!Serve
    BY <1>2, <2>1, <2>2 DEF Service!Serve
  <2> QED
    BY <2>3 DEF Service!Next
<1>3. ASSUME NEW p \in Procs, Request(p) PROVE [Service!Next]_Service!vars
  <2>1. CASE Refuse(p)
    BY <2>1, <1>1 DEF Refuse, NoCommit
  <2>2. ASSUME NEW k \in Keys, NEW b \in Bodies, NEW rs \in RuleLists,
               db[k] = NULL, CreateFlag(p, k, b, rs)
        PROVE  [Service!Next]_Service!vars
    <3> DEFINE f == [enabled |-> b.enabled, default_value |-> b.default_value,
                     status |-> IF b.status = "" THEN "draft" ELSE b.status,
                     rules |-> {}, variants |-> {}, overrides |-> NoOverrides]
    <3>1. f \in DbFlag
      BY EngineAssumption, DataTypes DEF DbFlag, StatusOrEmpty, Statuses
    <3>2. Commit(k, f) /\ UNCHANGED flags
      BY <2>2 DEF CreateFlag
    <3> HIDE DEF f
    <3> QED
      BY <3>1, <3>2, CommitRefines
  <2>3. ASSUME NEW k \in Keys, NEW f \in DbFlag \cup {NULL}, Mutate(p, k, f)
        PROVE  [Service!Next]_Service!vars
    <3>1. CASE db[k] = NULL
      BY <2>3, <3>1, <1>1 DEF Mutate, NoCommit
    <3>2. CASE db[k] # NULL
      BY <2>3, <3>2, CommitRefines DEF Mutate
    <3> QED
      BY <3>1, <3>2
  <2> QED
    BY <1>3, <2>1, <2>2, <2>3, RequestCases DEF TypeInv
<1>4. ASSUME NEW p \in Procs, insertRule(p) PROVE [Service!Next]_Service!vars
  <2> DEFINE r == Head(pending[p])
             f == [db[key[p]] EXCEPT !.rules = @ \cup {r}]
  <2>1. CASE db[key[p]] # NULL /\ ~RuleStored(r)
    <3>1. r \in Rules
      BY <1>4 DEF insertRule, TypeInv, LocalOK, TypeOK
    <3>2. key[p] \in Keys /\ db[key[p]] \in DbFlag
      BY <2>1 DEF TypeInv, TypeOK
    <3>3. f \in DbFlag
      BY <3>1, <3>2 DEF DbFlag
    <3>4. Commit(key[p], f) /\ UNCHANGED flags
      BY <1>4, <2>1 DEF insertRule
    <3> HIDE DEF f, r
    <3> QED
      BY <3>2, <3>3, <3>4, CommitRefines
  <2>2. CASE ~(db[key[p]] # NULL /\ ~RuleStored(r))
    <3>1. NoCommit /\ UNCHANGED <<flags, key, calls, solo>>
      BY <1>4, <2>2, Zenon DEF insertRule
    <3> QED
      BY <3>1, <1>1 DEF NoCommit
  <2> QED
    BY <2>1, <2>2
<1>5. ASSUME NEW p \in Procs,
             \/ queryFlags(p) \/ (\E k \in Keys : loadRules(p, k)) \/ loadVariants(p)
             \/ loadOverrides(p) \/ install(p) \/ reloadFails(p)
      PROVE  UNCHANGED past
  BY <1>5, Zenon DEF queryFlags, loadRules, loadVariants, loadOverrides, install,
                     reloadFails, NoCommit
<1>6. NewEngine => UNCHANGED past
  BY DEF NewEngine, NoCommit
<1>7. UNCHANGED vars => Stutters
  BY DEF vars
<1> QED
  BY <1>1, <1>2, <1>3, <1>4, <1>5, <1>6, <1>7 DEF Next, Continue

\* The engine implements FlagService: whatever calls overlap, fail or are cut
\* short, evaluation reads a map woven from committed data.
THEOREM Refinement == Spec => ServesWovenFlags
<1>1. Init => Service!Init
  BY DEF Init, NoFlags, Service!Init
<1>2. TypeInv /\ WovenInv /\ TypeInv' /\ WovenInv' /\ [Next]_vars
         => [Service!Next]_Service!vars
  BY StepRefines
<1> QED
  BY <1>1, <1>2, Invariance, PTL DEF Spec, Service!Spec, ServesWovenFlags

\* A key never stored in another status than draft resolves to something else
\* than "false" only for a user pinned to it by some committed override.
THEOREM DraftIsolation == Spec => []DraftNeverExposed
<1>1. TypeInv /\ WovenInv => DraftNeverExposed
  <2> SUFFICES ASSUME TypeInv, WovenInv, NEW k \in Keys, NEW c \in Contexts,
                      \A f \in past[k] : f.status = "draft",
                      EvaluateVariant(flags[k], c) # "false"
               PROVE  \E f \in past[k] :
                         Pinned(f, c)
                         /\ f.overrides[c["userId"]] = EvaluateVariant(flags[k], c)
    BY DEF DraftNeverExposed
  <2>1. flags[k] # NULL
    BY DEF EvaluateVariant
  <2>2. Service!Woven(flags[k], past[k])
    BY <2>1 DEF WovenInv
  <2>3. flags[k].status = "draft"
    BY <2>2 DEF Service!Woven
  <2>4. Pinned(flags[k], c) /\ EvaluateVariant(flags[k], c) = flags[k].overrides[c["userId"]]
    BY <2>1, <2>3 DEF EvaluateVariant
  <2>5. PICK d \in past[k] : flags[k].overrides = d.overrides
    BY <2>2 DEF Service!Woven
  <2> QED
    BY <2>4, <2>5 DEF Pinned
<1> QED
  BY <1>1, Invariance, PTL
-----------------------------------------------------------------------------
(* A call that ran alone leaves the map equal to the tables.               *)

\* While p runs alone no other call is in progress.
SoloAlone ==
    \A p \in Procs : solo[p] /\ pc[p] # "idle" =>
       \A q \in Procs \ {p} : pc[q] = "idle"

\* The entry of k in the map m, built with the tables as they are now, when the
\* rules are loaded, then the variants.
WithRules(m, k) ==
    \E s \in Orders(db[k].rules) : m = [RowOnly(db[k]) EXCEPT !.rules = s]

WithVariants(m, k) ==
    \E s \in Orders(db[k].rules) :
       m = [RowOnly(db[k]) EXCEPT !.rules = s, !.variants = db[k].variants]

\* How far the entry of k is in the reload of p.
EntryOK(p, k) ==
    /\ db[k] = NULL => snap[p][k] = NULL
    /\ k \in todo[p] => db[k] # NULL /\ snap[p][k] = RowOnly(db[k])
    /\ pc[p] = "loadVariants" /\ k = key[p] => db[k] # NULL /\ WithRules(snap[p][k], k)
    /\ pc[p] = "loadOverrides" /\ k = key[p] => db[k] # NULL /\ WithVariants(snap[p][k], k)
    /\ k \notin todo[p] /\ (pc[p] \in AtKey => k # key[p]) => snap[p][k] \in Loaded(k)

\* A reload that no other call overlaps builds what the tables hold.
SoloLoads ==
    \A p \in Procs : solo[p] /\ pc[p] \in AtKey \cup {"nextFlag"} =>
       /\ pc[p] \in AtKey => key[p] \notin todo[p]
       /\ \A k \in Keys : EntryOK(p, k)

SoloInv == SoloAlone /\ SoloLoads /\ FreshAfterSoloCall

\* A step of q that changes nothing but q's locals and the map of a reload.
OthersKept(q) ==
    /\ UNCHANGED <<db, solo>>
    /\ \A p \in Procs \ {q} :
          /\ pc'[p] = pc[p] /\ key'[p] = key[p]
          /\ snap'[p] = snap[p] /\ todo'[p] = todo[p]

\* What a reload would load depends on the tables only.
LEMMA LoadedKept ==
    ASSUME UNCHANGED db
    PROVE  \A k \in Keys : Loaded(k)' = Loaded(k)
BY DEF Loaded

\* The entries of a reload whose locals, and the tables, did not change.
LEMMA EntryKept ==
    ASSUME NEW p \in Procs, NEW k \in Keys, EntryOK(p, k), UNCHANGED db,
           pc'[p] = pc[p], key'[p] = key[p], snap'[p] = snap[p], todo'[p] = todo[p]
    PROVE  EntryOK(p, k)'
<1>1. Loaded(k)' = Loaded(k)
  BY LoadedKept
<1>2. WithRules(snap[p][k], k)' <=> WithRules(snap[p][k], k)
  BY DEF WithRules
<1>3. WithVariants(snap[p][k], k)' <=> WithVariants(snap[p][k], k)
  BY DEF WithVariants
<1> QED
  BY <1>1, <1>2, <1>3 DEF EntryOK, AtKey

\* Calls other than q keep what they know, if q changes only its own locals.
LEMMA SoloOthers ==
    ASSUME SoloLoads, NEW q \in Procs, OthersKept(q),
           solo[q] /\ pc'[q] \in AtKey \cup {"nextFlag"} =>
              /\ pc'[q] \in AtKey => key'[q] \notin todo'[q]
              /\ \A k \in Keys : EntryOK(q, k)'
    PROVE  SoloLoads'
<1> SUFFICES ASSUME NEW p \in Procs, solo'[p], pc'[p] \in AtKey \cup {"nextFlag"}
             PROVE  /\ pc'[p] \in AtKey => key'[p] \notin todo'[p]
                    /\ \A k \in Keys : EntryOK(p, k)'
  BY DEF SoloLoads, AtKey
<1>1. CASE p = q
  BY <1>1 DEF OthersKept
<1>2. CASE p # q
  <2>1. /\ pc'[p] = pc[p] /\ key'[p] = key[p]
        /\ snap'[p] = snap[p] /\ todo'[p] = todo[p]
        /\ UNCHANGED <<db, solo>>
    BY <1>2 DEF OthersKept
  <2>2. /\ pc[p] \in AtKey => key[p] \notin todo[p]
        /\ \A k \in Keys : EntryOK(p, k)
    BY <2>1 DEF SoloLoads
  <2> QED
    BY <2>1, <2>2, EntryKept
<1> QED
  BY <1>1, <1>2

\* A call that begins alone finds no other call, and makes itself known to those
\* it overlaps; a reload that runs alone has seen no call begin.
LEMMA BeginSolo ==
    ASSUME TypeOK, SoloAlone, NEW p \in Procs, Begin(p),
           \A q \in Procs \ {p} : pc'[q] = pc[q],
           pc'[p] \in {"idle", "reload", "insertRule"}
    PROVE  SoloAlone' /\ SoloLoads'
<1>1. solo' = [q \in Procs |-> IF q = p THEN \A r \in Procs \ {p} : pc[r] = "idle"
                               ELSE FALSE]
  BY DEF Begin
<1>2. \A q \in Procs : solo'[q] => q = p /\ \A r \in Procs \ {p} : pc[r] = "idle"
  BY <1>1
<1>3. SoloAlone'
  BY <1>2 DEF SoloAlone
<1>4. SoloLoads'
  BY <1>2 DEF SoloLoads, AtKey
<1> QED
  BY <1>3, <1>4

\* A step of p that goes on with its call leaves the others where they are.
LEMMA AloneKept ==
    ASSUME SoloAlone, NEW p \in Procs, pc[p] # "idle", UNCHANGED solo,
           \A q \in Procs \ {p} : pc'[q] = pc[q]
    PROVE  SoloAlone'
BY DEF SoloAlone

LEMMA SoloInit == Init => SoloInv
<1> SUFFICES ASSUME Init PROVE SoloInv
  OBVIOUS
<1>1. SoloAlone /\ SoloLoads
  BY DEF Init, SoloAlone, SoloLoads, AtKey
<1>2. CacheAgrees
  BY DEF Init, NoFlags, CacheAgrees, Loaded
<1> QED
  BY <1>1, <1>2 DEF SoloInv, FreshAfterSoloCall

LEMMA SoloNext == TypeInv /\ SoloInv /\ [Next]_vars => SoloInv'
<1> SUFFICES ASSUME TypeInv, SoloInv, [Next]_vars PROVE SoloInv'
  OBVIOUS
<1> USE DEF TypeInv, SoloInv
\* With a call in progress the third part says nothing.
<1>0. ASSUME NEW p \in Procs, pc'[p] # "idle" PROVE FreshAfterSoloCall'
  BY <1>0 DEF FreshAfterSoloCall, AtRest
<1>1. ASSUME NEW p \in Procs, Request(p) PROVE SoloInv'
  <2>1. CASE Refuse(p)
    <3>1. Begin(p) /\ UNCHANGED <<db, flags, pc, last>>
      BY <2>1 DEF Refuse, NoCommit
    <3>2. SoloAlone' /\ SoloLoads'
      BY <3>1, BeginSolo DEF Begin
    <3>3. FreshAfterSoloCall'
      BY <3>1 DEF FreshAfterSoloCall, AtRest, CacheAgrees, Loaded
    <3> QED
      BY <3>2, <3>3
  <2>2. ASSUME Begin(p), NEW l \in {"reload", "insertRule"}, Goto(p, l)
        PROVE  SoloInv'
    <3>1. pc' = [pc EXCEPT ![p] = l]
      BY <2>2 DEF Goto
    <3>2. pc'[p] = l /\ \A q \in Procs \ {p} : pc'[q] = pc[q]
      BY <3>1 DEF TypeOK
    <3> QED
      BY <2>2, <3>2, <1>0, BeginSolo
  <2>3. ASSUME NEW k \in Keys, NEW b \in Bodies, NEW rs \in RuleLists,
               db[k] = NULL, CreateFlag(p, k, b, rs)
        PROVE  SoloInv'
    <3> DEFINE l == IF rs = <<>> THEN "reload" ELSE "insertRule"
    <3>1. Begin(p) /\ Goto(p, l)
      BY <2>3 DEF CreateFlag
    <3>2. l \in {"reload", "insertRule"}
      OBVIOUS
    <3> HIDE DEF l
    <3> QED
      BY <3>1, <3>2, <2>2
  <2>4. ASSUME NEW k \in Keys, NEW f \in DbFlag \cup {NULL}, Mutate(p, k, f)
        PROVE  SoloInv'
    BY <2>4, <2>2 DEF Mutate
  <2> QED
    BY <1>1, <2>1, <2>3, <2>4, RequestCases
\* A call that fails leaves nothing to say of the map.
<1>2. ASSUME NEW p \in Procs, pc[p] # "idle", Fail(p), UNCHANGED <<db, key, solo>>
      PROVE  SoloInv'
  <2>1. /\ pc' = [pc EXCEPT ![p] = "idle"]
        /\ snap' = [snap EXCEPT ![p] = NoFlags]
        /\ todo' = [todo EXCEPT ![p] = {}]
        /\ last' = "failed"
    BY <1>2 DEF Fail, Return, Goto
  <2>2. OthersKept(p) /\ pc'[p] = "idle"
    BY <1>2, <2>1 DEF OthersKept, TypeOK
  <2>3. SoloLoads'
    BY <2>2, SoloOthers DEF AtKey
  <2>4. SoloAlone'
    BY <1>2, <2>2, AloneKept DEF OthersKept
  <2> QED
    BY <2>1, <2>3, <2>4 DEF FreshAfterSoloCall
<1>3. ASSUME NEW p \in Procs, insertRule(p) PROVE SoloInv'
  <2> DEFINE r == Head(pending[p])
  <2>1. pc[p] = "insertRule" /\ UNCHANGED <<flags, key, calls, solo>>
    BY <1>3 DEF insertRule
  <2>2. CASE db[key[p]] # NULL /\ ~RuleStored(r)
    <3>1. /\ Goto(p, IF Tail(pending[p]) = <<>> THEN "reload" ELSE "insertRule")
      BY <1>3, <2>2 DEF insertRule
    <3>2. PICK l \in {"reload", "insertRule"} : pc' = [pc EXCEPT ![p] = l]
      BY <3>1 DEF Goto
    <3>3. pc'[p] = l /\ \A q \in Procs \ {p} : pc'[q] = pc[q]
      BY <3>2 DEF TypeOK
    <3>4. SoloAlone'
      BY <2>1, <3>3, AloneKept
    \* Another call that runs alone would have p at rest.
    <3>5. \A q \in Procs : solo'[q] /\ pc'[q] # "idle" => q = p
      BY <3>4, <3>3 DEF SoloAlone
    <3>6. SoloLoads'
      BY <3>3, <3>5 DEF SoloLoads, AtKey
    <3>7. FreshAfterSoloCall'
      BY <3>3, <1>0
    <3> QED
      BY <3>4, <3>6, <3>7
  <2>3. CASE ~(db[key[p]] # NULL /\ ~RuleStored(r))
    <3>1. NoCommit /\ Fail(p)
      BY <1>3, <2>3, Zenon DEF insertRule
    <3> QED
      BY <2>1, <3>1, <1>2 DEF NoCommit
  <2> QED
    BY <2>2, <2>3
\* A reload starts with the rows of the tables.
<1>4. ASSUME NEW p \in Procs, queryFlags(p) PROVE SoloInv'
  <2>1. /\ pc[p] = "reload" /\ pc' = [pc EXCEPT ![p] = "nextFlag"]
        /\ snap' = [snap EXCEPT ![p] = [k \in Keys |-> IF db[k] = NULL THEN NULL
                                                       ELSE RowOnly(db[k])]]
        /\ todo' = [todo EXCEPT ![p] = {k \in Keys : db[k] # NULL}]
        /\ UNCHANGED <<db, key, solo>>
    BY <1>4 DEF queryFlags, Goto, NoCommit
  <2>2. OthersKept(p) /\ pc'[p] = "nextFlag"
    BY <2>1 DEF OthersKept, TypeOK
  <2>3. ASSUME NEW k \in Keys PROVE EntryOK(p, k)'
    <3>1. snap'[p][k] = IF db[k] = NULL THEN NULL ELSE RowOnly(db[k])
      BY <2>1 DEF TypeOK
    <3>2. k \in todo'[p] <=> db[k] # NULL
      BY <2>1 DEF TypeOK
    <3>3. db[k] = NULL => NULL \in Loaded(k)'
      BY <2>1 DEF Loaded
    <3> QED
      BY <2>1, <2>2, <3>1, <3>2, <3>3 DEF EntryOK, AtKey
  <2>4. SoloLoads'
    BY <2>2, <2>3, SoloOthers DEF AtKey
  <2>5. SoloAlone'
    BY <2>1, <2>2, AloneKept DEF OthersKept
  <2> QED
    BY <2>2, <2>4, <2>5, <1>0
\* Each of its queries completes the entry of one key by one table.
<1>5. ASSUME NEW p \in Procs, NEW k \in Keys, loadRules(p, k) PROVE SoloInv'
  <2>1. PICK s \in Orders(IF db[k] = NULL THEN {} ELSE db[k].rules) :
           snap' = [snap EXCEPT ![p][k].rules = s]
    BY <1>5 DEF loadRules
  <2>2. /\ pc[p] = "nextFlag" /\ pc' = [pc EXCEPT ![p] = "loadVariants"]
        /\ k \in todo[p] /\ todo' = [todo EXCEPT ![p] = @ \ {k}]
        /\ key' = [key EXCEPT ![p] = k]
        /\ UNCHANGED <<db, solo>>
    BY <1>5 DEF loadRules, Goto, NoCommit
  <2>3. /\ OthersKept(p) /\ pc'[p] = "loadVariants"
        /\ key'[p] = k /\ todo'[p] = todo[p] \ {k}
    BY <2>1, <2>2 DEF OthersKept, TypeOK
  <2>4. /\ snap'[p][k] = [snap[p][k] EXCEPT !.rules = s]
        /\ \A j \in Keys \ {k} : snap'[p][j] = snap[p][j]
    BY <2>1 DEF TypeOK
  <2>5. ASSUME solo[p], NEW j \in Keys PROVE EntryOK(p, j)'
    <3>1. EntryOK(p, j) /\ EntryOK(p, k)
      BY <2>2, <2>5 DEF SoloLoads
    <3>2. CASE j = k
      <4>1. db[k] # NULL /\ snap[p][k] = RowOnly(db[k])
        BY <2>2, <3>1 DEF EntryOK
      <4>2. WithRules(snap[p][k], k)'
        BY <2>1, <2>2, <2>4, <4>1 DEF WithRules
      <4> QED
        BY <2>2, <2>3, <3>2, <4>1, <4>2 DEF EntryOK, AtKey
    <3>3. CASE j # k
      <4>1. snap'[p][j] = snap[p][j] /\ (j \in todo'[p] <=> j \in todo[p])
        BY <2>3, <2>4, <3>3
      <4> QED
        BY <2>2, <2>3, <3>1, <3>3, <4>1 DEF EntryOK, Loaded, AtKey
    <3> QED
      BY <3>2, <3>3
  <2>6. SoloLoads'
    BY <2>3, <2>5, SoloOthers DEF AtKey
  <2>7. SoloAlone'
    BY <2>2, <2>3, AloneKept DEF OthersKept
  <2> QED
    BY <2>3, <2>6, <2>7, <1>0
<1>6. ASSUME NEW p \in Procs, loadVariants(p) PROVE SoloInv'
  <2> DEFINE k == key[p]
  <2>1. /\ pc[p] = "loadVariants" /\ pc' = [pc EXCEPT ![p] = "loadOverrides"]
        /\ snap' = [snap EXCEPT ![p][k].variants = IF db[k] = NULL THEN {}
                                                   ELSE db[k].variants]
        /\ UNCHANGED <<db, key, solo, todo>>
    BY <1>6 DEF loadVariants, Goto, NoCommit
  <2>2. OthersKept(p) /\ pc'[p] = "loadOverrides"
    BY <2>1 DEF OthersKept, TypeOK
  <2>3. k \in Keys
    BY DEF TypeOK
  <2>4. /\ snap'[p][k] = [snap[p][k] EXCEPT !.variants = IF db[k] = NULL THEN {}
                                                         ELSE db[k].variants]
        /\ \A j \in Keys \ {k} : snap'[p][j] = snap[p][j]
    BY <2>1, <2>3 DEF TypeOK
  <2>5. ASSUME solo[p] PROVE k \notin todo[p] /\ \A j \in Keys : EntryOK(p, j)
    BY <2>1, <2>5 DEF SoloLoads, AtKey
  <2>6. ASSUME solo[p], NEW j \in Keys PROVE EntryOK(p, j)'
    <3>1. CASE j = k
      <4>1. db[k] # NULL /\ WithRules(snap[p][k], k)
        BY <2>1, <2>3, <2>5, <2>6 DEF EntryOK
      <4>2. PICK s \in Orders(db[k].rules) : snap[p][k] = [RowOnly(db[k]) EXCEPT !.rules = s]
        BY <4>1 DEF WithRules
      <4>3. snap'[p][k] = [RowOnly(db[k]) EXCEPT !.rules = s, !.variants = db[k].variants]
        BY <2>4, <4>1, <4>2
      <4>4. WithVariants(snap[p][j], j)'
        BY <2>1, <3>1, <4>3 DEF WithVariants
      <4> QED
        BY <2>1, <2>2, <2>5, <2>6, <3>1, <4>1, <4>4 DEF EntryOK, AtKey
    <3>2. CASE j # k
      <4>1. EntryOK(p, j) /\ Loaded(j)' = Loaded(j)
        BY <2>1, <2>5, <2>6, LoadedKept
      <4>2. snap'[p][j] = snap[p][j]
        BY <2>4, <3>2
      <4> QED
        BY <2>1, <2>2, <3>2, <4>1, <4>2 DEF EntryOK, AtKey
    <3> QED
      BY <3>1, <3>2
  <2>7. SoloLoads'
    BY <2>1, <2>2, <2>5, <2>6, SoloOthers DEF AtKey
  <2>8. SoloAlone'
    BY <2>1, <2>2, AloneKept DEF OthersKept
  <2> QED
    BY <2>2, <2>7, <2>8, <1>0
<1>7. ASSUME NEW p \in Procs, loadOverrides(p) PROVE SoloInv'
  <2> DEFINE k == key[p]
  <2>1. /\ pc[p] = "loadOverrides" /\ pc' = [pc EXCEPT ![p] = "nextFlag"]
        /\ snap' = [snap EXCEPT ![p][k].overrides = IF db[k] = NULL THEN NoOverrides
                                                    ELSE db[k].overrides]
        /\ UNCHANGED <<db, key, solo, todo>>
    BY <1>7 DEF loadOverrides, Goto, NoCommit
  <2>2. OthersKept(p) /\ pc'[p] = "nextFlag"
    BY <2>1 DEF OthersKept, TypeOK
  <2>3. k \in Keys
    BY DEF TypeOK
  <2>4. /\ snap'[p][k] = [snap[p][k] EXCEPT !.overrides = IF db[k] = NULL THEN NoOverrides
                                                          ELSE db[k].overrides]
        /\ \A j \in Keys \ {k} : snap'[p][j] = snap[p][j]
    BY <2>1, <2>3 DEF TypeOK
  <2>5. ASSUME solo[p] PROVE k \notin todo[p] /\ \A j \in Keys : EntryOK(p, j)
    BY <2>1, <2>5 DEF SoloLoads, AtKey
  <2>6. ASSUME solo[p], NEW j \in Keys PROVE EntryOK(p, j)'
    <3>1. CASE j = k
      <4>1. db[k] # NULL /\ WithVariants(snap[p][k], k)
        BY <2>1, <2>3, <2>5, <2>6 DEF EntryOK
      <4>2. PICK s \in Orders(db[k].rules) :
               snap[p][k] = [RowOnly(db[k]) EXCEPT !.rules = s, !.variants = db[k].variants]
        BY <4>1 DEF WithVariants
      <4>3. snap'[p][k] = [RowOnly(db[k]) EXCEPT !.rules = s, !.variants = db[k].variants,
                                                 !.overrides = db[k].overrides]
        BY <2>4, <4>1, <4>2
      <4>4. snap'[p][j] \in Loaded(j)'
        <5>1. Loaded(j) = {[RowOnly(db[j]) EXCEPT !.rules = o, !.variants = db[j].variants,
                                                  !.overrides = db[j].overrides] :
                              o \in Orders(db[j].rules)}
          BY <3>1, <4>1 DEF Loaded
        <5>2. snap'[p][j] \in Loaded(j)
          BY <3>1, <4>3, <5>1
        <5> QED
          BY <2>1, <2>6, <5>2, LoadedKept
      <4>5. db'[j] # NULL /\ j \notin todo'[p]
        BY <2>1, <2>5, <2>6, <3>1, <4>1
      <4> QED
        BY <2>2, <4>4, <4>5 DEF EntryOK, AtKey
    <3>2. CASE j # k
      <4>1. EntryOK(p, j) /\ Loaded(j)' = Loaded(j)
        BY <2>1, <2>5, <2>6, LoadedKept
      <4>2. snap'[p][j] = snap[p][j]
        BY <2>4, <3>2
      <4> QED
        BY <2>1, <2>2, <3>2, <4>1, <4>2 DEF EntryOK, AtKey
    <3> QED
      BY <3>1, <3>2
  <2>7. SoloLoads'
    BY <2>1, <2>2, <2>5, <2>6, SoloOthers DEF AtKey
  <2>8. SoloAlone'
    BY <2>1, <2>2, AloneKept DEF OthersKept
  <2> QED
    BY <2>2, <2>7, <2>8, <1>0
\* What a call that ran alone installs is what it loaded.
<1>8. ASSUME NEW p \in Procs, install(p) PROVE SoloInv'
  <2>1. /\ pc[p] = "nextFlag" /\ pc' = [pc EXCEPT ![p] = "idle"]
        /\ todo[p] = {} /\ todo' = [todo EXCEPT ![p] = {}]
        /\ snap' = [snap EXCEPT ![p] = NoFlags]
        /\ flags' = snap[p]
        /\ last' = IF solo[p] THEN "solo" ELSE IF last = "failed" THEN "failed" ELSE "raced"
        /\ UNCHANGED <<db, key, solo>>
    BY <1>8 DEF install, Return, Goto, NoCommit
  <2>2. OthersKept(p) /\ pc'[p] = "idle"
    BY <2>1 DEF OthersKept, TypeOK
  <2>3. SoloLoads'
    BY <2>2, SoloOthers DEF AtKey
  <2>4. SoloAlone'
    BY <2>1, <2>2, AloneKept DEF OthersKept
  <2>5. ASSUME solo[p], NEW k \in Keys PROVE flags'[k] \in Loaded(k)'
    <3>1. EntryOK(p, k)
      BY <2>1, <2>5 DEF SoloLoads
    <3> QED
      BY <2>1, <3>1 DEF EntryOK, Loaded, AtKey
  <2>6. FreshAfterSoloCall'
    BY <2>1, <2>5 DEF FreshAfterSoloCall, CacheAgrees
  <2> QED
    BY <2>3, <2>4, <2>6
<1>9. ASSUME NEW p \in Procs, reloadFails(p) PROVE SoloInv'
  BY <1>9, <1>2 DEF reloadFails, NoCommit
\* A start loads before it serves.
<1>10. ASSUME NewEngine PROVE SoloInv'
  <2>1. /\ pc' = [p \in Procs |-> "idle"] /\ UNCHANGED db
        /\ \A k \in Keys : flags'[k] \in Loaded(k)
    BY <1>10 DEF NewEngine, NoCommit
  <2>2. SoloAlone' /\ SoloLoads'
    BY <2>1 DEF SoloAlone, SoloLoads, AtKey
  <2>3. FreshAfterSoloCall'
    BY <2>1 DEF FreshAfterSoloCall, CacheAgrees, Loaded
  <2> QED
    BY <2>2, <2>3
<1>11. CASE UNCHANGED vars
  <2>1. /\ UNCHANGED <<db, flags, solo, last, pc>>
        /\ \A p \in Procs : pc'[p] = pc[p] /\ key'[p] = key[p]
                            /\ snap'[p] = snap[p] /\ todo'[p] = todo[p]
    BY <1>11 DEF vars
  <2>2. SoloAlone'
    BY <2>1 DEF SoloAlone
  <2>3. SoloLoads'
    BY <2>1, EntryKept DEF SoloLoads, AtKey
  <2>4. FreshAfterSoloCall'
    BY <2>1, LoadedKept DEF FreshAfterSoloCall, AtRest, CacheAgrees
  <2> QED
    BY <2>2, <2>3, <2>4
<1> QED
  BY <1>1, <1>3, <1>4, <1>5, <1>6, <1>7, <1>8, <1>9, <1>10, <1>11 DEF Next, Continue

\* A call that ran alone and succeeded leaves the map equal to the tables, for
\* every number of flags, rules, variants and overrides.
THEOREM FreshWhenAlone == Spec => []FreshAfterSoloCall
<1>1. Init => TypeInv /\ SoloInv
  BY TypeInvInit, SoloInit
<1>2. (TypeInv /\ SoloInv) /\ [Next]_vars => (TypeInv /\ SoloInv)'
  BY TypeInvNext, SoloNext
<1>3. SoloInv => FreshAfterSoloCall
  BY DEF SoloInv
<1> QED
  BY <1>1, <1>2, <1>3, PTL DEF Spec

-----------------------------------------------------------------------------
(* Evaluation agrees with the tables.                                      *)

\* Some index in a set of them is the least: the inclusion of initial segments
\* is well founded.
LEMMA LeastIndex ==
    ASSUME NEW n \in Nat, NEW H \in SUBSET (1..n), H # {}
    PROVE  \E i \in H : \A j \in H : i <= j
<1> DEFINE T == {1..i : i \in H}
<1>1. T \subseteq FiniteSubsetsOf(Nat) /\ T # {}
  <2>1. \A i \in H : 1..i \subseteq Nat /\ IsFiniteSet(1..i)
    BY FS_Interval
  <2> QED
    BY <2>1 DEF FiniteSubsetsOf
<1> HIDE DEF T
<1>2. PICK a \in T : \A b \in T : ~(<<b, a>> \in StrictSubsetOrdering(Nat))
  BY <1>1, FS_StrictSubsetOrderingWellFounded, WFMin
<1>3. PICK i \in H : a = 1..i
  BY <1>2 DEF T
<1>4. ASSUME NEW j \in H, j < i PROVE FALSE
  <2>1. 1..j \subseteq 1..i /\ i \in 1..i /\ i \notin 1..j
    BY <1>4
  <2>2. <<1..j, 1..i>> \in StrictSubsetOrdering(Nat)
    BY <2>1 DEF StrictSubsetOrdering
  <2> QED
    BY <1>2, <1>3, <2>2 DEF T
<1> QED
  BY <1>4

\* The query of loadRules returns every rule of the flag, by priority.
LEMMA OrdersCover ==
    ASSUME NEW S \in SUBSET Rules, NEW s \in Orders(S)
    PROVE  /\ \A i \in 1..Len(s) : s[i] \in S
           /\ \A r \in S : \E i \in 1..Len(s) : s[i] = r
           /\ \A i, j \in 1..Len(s) : i <= j => s[i].priority <= s[j].priority
<1> DEFINE n == Cardinality(S)
<1>1. IsFiniteSet(S) /\ n \in Nat
  BY FS_Subset, FS_CardinalityType, RulesAssumption
<1>2. /\ s \in [1..n -> S]
      /\ \A i, j \in 1..n : i < j => s[i] # s[j] /\ s[i].priority <= s[j].priority
  BY DEF Orders
<1>3. s \in Injection(1..n, S)
  <2>1. \A i, j \in 1..n : s[i] = s[j] => i = j
    BY <1>1, <1>2
  <2> QED
    BY <1>2, <2>1 DEF Injection, IsInjective
<1>4. Cardinality(1..n) = Cardinality(S)
  BY <1>1, FS_Interval
<1>5. s \in Surjection(1..n, S)
  BY <1>1, <1>3, <1>4, FS_Injection
<1>6. \A r \in S : \E i \in 1..n : s[i] = r
  BY <1>5 DEF Surjection
<1>7. Len(s) = n
  BY <1>1, <1>2, OrdersType
<1>8. \A i \in 1..n : s[i] \in S /\ s[i].priority \in Int
  BY <1>2, RulesAssumption
<1>9. ASSUME NEW i \in 1..n, NEW j \in 1..n, i <= j
      PROVE  s[i].priority <= s[j].priority
  <2>1. CASE i = j
    BY <1>8, <2>1
  <2>2. CASE i < j
    BY <1>2, <2>2
  <2> QED
    BY <1>1, <1>9, <2>1, <2>2
<1> HIDE DEF n
<1> QED
  BY <1>6, <1>7, <1>8, <1>9

\* The loop over the rules stops at one that decides, if one matches at all.
LEMMA LoopDecides ==
    ASSUME NEW d \in DbFlag, NEW s \in Orders(d.rules), NEW c
    PROVE  /\ Hits(s, c) = {} <=> Matching(d, c) = {}
           /\ Hits(s, c) # {} =>
                 s[CHOOSE i \in Hits(s, c) : \A j \in Hits(s, c) : i <= j] \in Deciding(d, c)
<1>1. d.rules \in SUBSET Rules
  BY DEF DbFlag
<1>2. /\ \A i \in 1..Len(s) : s[i] \in d.rules
      /\ \A r \in d.rules : \E i \in 1..Len(s) : s[i] = r
      /\ \A i, j \in 1..Len(s) : i <= j => s[i].priority <= s[j].priority
  BY <1>1, OrdersCover
<1>3. \A i \in 1..Len(s) : i \in Hits(s, c) <=> s[i] \in Matching(d, c)
  BY <1>2 DEF Hits, Matching
<1>4. Hits(s, c) \subseteq 1..Len(s) /\ Matching(d, c) \subseteq d.rules
  BY DEF Hits, Matching
<1>5. Hits(s, c) = {} <=> Matching(d, c) = {}
  BY <1>2, <1>3, <1>4
<1>6. ASSUME Hits(s, c) # {}
      PROVE  s[CHOOSE i \in Hits(s, c) : \A j \in Hits(s, c) : i <= j] \in Deciding(d, c)
  <2> DEFINE least == CHOOSE i \in Hits(s, c) : \A j \in Hits(s, c) : i <= j
  <2>1. Len(s) \in Nat
    BY <1>1, OrdersType
  <2>2. \E i \in Hits(s, c) : \A j \in Hits(s, c) : i <= j
    BY <1>4, <1>6, <2>1, LeastIndex
  <2>3. least \in Hits(s, c) /\ \A j \in Hits(s, c) : least <= j
    BY <2>2
  <2> HIDE DEF least
  <2>4. s[least] \in Matching(d, c)
    BY <1>3, <1>4, <2>3
  <2>5. ASSUME NEW q \in Matching(d, c) PROVE s[least].priority <= q.priority
    <3>1. PICK j \in 1..Len(s) : s[j] = q
      BY <1>2, <1>4
    <3>2. j \in Hits(s, c)
      BY <1>3, <3>1
    <3> QED
      BY <1>2, <1>4, <2>3, <3>1, <3>2
  <2>6. s[least] \in Deciding(d, c)
    BY <2>4, <2>5 DEF Deciding
  <2> QED
    BY <2>6 DEF least
<1> QED
  BY <1>5, <1>6

\* The entry that a reload makes of a stored flag evaluates to an outcome of it.
LEMMA EntryEvaluates ==
    ASSUME NEW d \in DbFlag, NEW s \in Orders(d.rules), NEW f \in Flag, NEW c,
           f.enabled = d.enabled, f.default_value = d.default_value, f.status = d.status,
           f.rules = s, f.overrides = d.overrides
    PROVE  EvaluateVariant(f, c) \in Outcomes(d, c)
<1>1. f # NULL /\ d # NULL
  BY EngineAssumption
<1>2. Pinned(f, c) <=> Pinned(d, c)
  BY DEF Pinned
<1>3. CASE ~d.enabled
  BY <1>1, <1>3 DEF EvaluateVariant, Outcomes
<1>4. CASE d.enabled
  <2>1. Outcomes(d, c) =
           IF d.status = "deprecated" THEN {boolToVariantKey(d.default_value)}
           ELSE IF Pinned(d, c) THEN {d.overrides[c["userId"]]}
           ELSE IF d.status = "draft" THEN {"false"}
           ELSE IF Matching(d, c) = {} THEN {Fallback(d)}
           ELSE {resolveRuleVariant(r) : r \in Deciding(d, c)}
    BY <1>1, <1>4 DEF Outcomes
  <2>2. CASE d.status = "deprecated" \/ Pinned(d, c) \/ d.status = "draft"
    BY <1>1, <1>2, <1>4, <2>1, <2>2 DEF EvaluateVariant
  <2>3. CASE ~(d.status = "deprecated" \/ Pinned(d, c) \/ d.status = "draft")
    <3>1. CASE Hits(s, c) = {}
      <4>1. Outcomes(d, c) = {Fallback(d)}
        BY <2>1, <2>3, <3>1, LoopDecides
      <4>2. EvaluateVariant(f, c) = IF f.status = "testing" THEN "false"
                                    ELSE boolToVariantKey(f.default_value)
        BY <1>1, <1>2, <1>4, <2>3, <3>1 DEF EvaluateVariant
      <4>3. EvaluateVariant(f, c) = Fallback(d)
        BY <4>2 DEF Fallback, boolToVariantKey, DbFlag
      <4> QED
        BY <4>1, <4>3
    <3>2. CASE Hits(s, c) # {}
      <4> DEFINE r == s[CHOOSE i \in Hits(s, c) : \A j \in Hits(s, c) : i <= j]
      <4>1. r \in Deciding(d, c) /\ Matching(d, c) # {}
        BY <3>2, LoopDecides
      <4>2. EvaluateVariant(f, c) = resolveRuleVariant(r)
        BY <1>1, <1>2, <1>4, <2>3, <3>2 DEF EvaluateVariant
      <4> HIDE DEF r
      <4> QED
        BY <2>1, <2>3, <4>1, <4>2
    <3> QED
      BY <3>1, <3>2
  <2> QED
    BY <2>2, <2>3
<1> QED
  BY <1>3, <1>4

\* Where the map agrees with the tables, the loop of EvaluateVariant finds what
\* the tables define, for any rules, priorities, overrides and contexts.
THEOREM EvaluatesTables == Spec => []EvaluationFollowsTables
<1>1. TypeInv => EvaluationFollowsTables
  <2> SUFFICES ASSUME TypeInv, NEW k \in Keys, NEW c \in Contexts, flags[k] \in Loaded(k)
               PROVE  EvaluateVariant(flags[k], c) \in Outcomes(db[k], c)
    BY DEF EvaluationFollowsTables
  <2>1. CASE db[k] = NULL
    BY <2>1 DEF Loaded, EvaluateVariant, Outcomes
  <2>2. CASE db[k] # NULL
    <3>1. db[k] \in DbFlag
      BY <2>2 DEF TypeInv, TypeOK
    <3>2. PICK s \in Orders(db[k].rules) :
             flags[k] = [RowOnly(db[k]) EXCEPT !.rules = s, !.variants = db[k].variants,
                                               !.overrides = db[k].overrides]
      BY <2>2 DEF Loaded
    <3>3. flags[k] \in Flag
      <4>1. flags[k] = [enabled |-> db[k].enabled, default_value |-> db[k].default_value,
                        status |-> db[k].status, rules |-> s,
                        variants |-> db[k].variants, overrides |-> db[k].overrides]
        BY <3>2 DEF RowOnly
      <4>2. s \in Seq(Rules)
        BY <3>1, OrdersType DEF DbFlag
      <4> QED
        BY <3>1, <4>1, <4>2 DEF Flag, DbFlag
    <3>4. /\ flags[k].enabled = db[k].enabled /\ flags[k].status = db[k].status
          /\ flags[k].default_value = db[k].default_value
          /\ flags[k].rules = s /\ flags[k].overrides = db[k].overrides
      BY <3>2 DEF RowOnly
    <3> QED
      BY <3>1, <3>3, <3>4, EntryEvaluates
  <2> QED
    BY <2>1, <2>2
<1>2. Spec => []TypeInv
  BY TypeInvInit, TypeInvNext, PTL DEF Spec
<1> QED
  BY <1>1, <1>2, PTL
=============================================================================
