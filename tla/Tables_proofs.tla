----------------------------- MODULE Tables_proofs -----------------------------
(***************************************************************************)
(* Proofs about Tables, for any tables, requests, column lists and records:*)
(* types, the registry against the physical tables, the truth of what a    *)
(* call has read of a definition, the fate of records written under a flag *)
(* variant, the fit of every record to its schema, and the positions of a  *)
(* list's columns.                                                         *)
(***************************************************************************)
EXTENDS Tables, FunctionTheorems, FiniteSetTheorems, TLAPS

-----------------------------------------------------------------------------
(* Columns.                                                                *)

LEMMA EmptyTuple == DOMAIN <<>> = {} /\ \A S : <<>> \in [{} -> S]
<1>1. DOMAIN <<>> = {}
  OBVIOUS
<1>2. <<>> = [x \in {} |-> x]
  OBVIOUS
<1>3. \A S : [x \in {} |-> x] \in [{} -> S]
  OBVIOUS
<1> QED BY <1>1, <1>2, <1>3

LEMMA NamesFinite == IsFiniteSet(Names)
<1>1. IsFiniteSet({"a"}) /\ IsFiniteSet({"b"})
  BY FS_Singleton
<1>2. Names = {"a"} \cup {"b"}
  BY DEF Names
<1> QED BY <1>1, <1>2, FS_Union

\* A list's name leads back to a column of the list.
LEMMA AtColumn ==
    ASSUME NEW l \in Lists, NEW i \in DOMAIN l
    PROVE  /\ At(l, l[i].name) \in DOMAIN l
           /\ l[At(l, l[i].name)] \in NamedColumn
           /\ l[At(l, l[i].name)].name = l[i].name
           /\ l[i].name \in Names
<1>1. l \in Seq(NamedColumn)
  BY TablesAssumption
<1>2. At(l, l[i].name) \in DOMAIN l /\ l[At(l, l[i].name)].name = l[i].name
  BY DEF At
<1>3. \A j \in DOMAIN l : l[j] \in NamedColumn
  BY <1>1
<1> QED BY <1>2, <1>3 DEF NamedColumn

LEMMA FragmentType ==
    ASSUME NEW c, c.type \in Types, c.kind \in Kinds
    PROVE  colFragment(c) \in Physical
  BY DEF colFragment, Physical, Kinds

\* Positions come from the cardinalities of finite sets.
LEMMA PositionType ==
    ASSUME NEW l \in Lists, NEW snap, NEW i \in DOMAIN l, DOMAIN snap \subseteq Names
    PROVE  position(l, snap, i) \in Nat
<1>1. IsFiniteSet(DOMAIN snap)
  BY NamesFinite, FS_Subset
<1>2. PICK n \in Nat : DOMAIN l = 1..n
  BY TablesAssumption
<1>3. IsFiniteSet({j \in Fresh(l, snap) : j < i})
  <2>1. {j \in Fresh(l, snap) : j < i} \subseteq 1..n
    BY <1>2 DEF Fresh
  <2> QED BY <1>2, <2>1, FS_Interval, FS_Subset
<1> QED BY <1>1, <1>3, FS_CardinalityType DEF position

-----------------------------------------------------------------------------
(* Types, one variable at a time.                                          *)

CallType(c) == c \in Call(DOMAIN c.snap) /\ DOMAIN c.snap \subseteq Names

SchemaType ==
    DOMAIN schema = Keys /\ \A t \in Keys : schema[t] = NULL \/ Partial(schema[t], Column)
PhysicalType ==
    DOMAIN physical = Keys /\ \A t \in Keys : physical[t] = NULL \/ Partial(physical[t], Physical)
RowsType == rows \in [Keys -> [Ids -> Row \cup {NULL}]]
CallsType == DOMAIN call = Procs /\ \A p \in Procs : \E D \in SUBSET Names : call[p] \in Call(D)
RestType ==
    /\ events \subseteq Ids
    /\ {calls, faults} \subseteq Nat
    /\ born \in [Ids -> Contexts \cup {NoContext, NULL}]
    /\ promoted \subseteq Ids /\ unchecked \subseteq Ids /\ lost \subseteq Ids
    /\ outdated \subseteq Keys

LEMMA TypeParts == TypeOK <=> SchemaType /\ PhysicalType /\ RowsType /\ CallsType /\ RestType
  BY DEF TypeOK, SchemaType, PhysicalType, RowsType, CallsType, RestType

LEMMA TypePartsNext ==
    SchemaType' /\ PhysicalType' /\ RowsType' /\ CallsType' /\ RestType' => TypeOK'
  BY DEF TypeOK, SchemaType, PhysicalType, RowsType, CallsType, RestType

\* The fields of a call.
LEMMA CallFields ==
    ASSUME TypeOK, NEW p \in Procs
    PROVE  /\ CallType(call[p])
           /\ call[p].table \in Keys \cup {NULL} /\ call[p].id \in Ids \cup {NULL}
           /\ call[p].ctx \in Contexts \cup {NoContext}
           /\ call[p].arg \in Data \cup {<<>>} /\ call[p].list \in Lists \cup {<<>>}
           /\ call[p].snap \in [DOMAIN call[p].snap -> Column]
<1>1. PICK D \in SUBSET Names : call[p] \in Call(D)
  BY DEF TypeOK
<1>2. DOMAIN call[p].snap = D
  BY <1>1 DEF Call
<1> QED BY <1>1, <1>2 DEF Call, CallType

LEMMA IdleType == Idle \in Call({}) /\ DOMAIN Idle.snap = {}
  BY EmptyTuple DEF Call, Idle

LEMMA TypeInit == Init => TypeOK
<1> SUFFICES ASSUME Init PROVE TypeOK
  OBVIOUS
<1>1. \A p \in Procs : call[p] \in Call({})
  BY IdleType DEF Init
<1>2. CallsType
  BY <1>1 DEF CallsType, Init
<1> QED BY <1>2, TypeParts DEF Init, SchemaType, PhysicalType, RowsType, RestType

-----------------------------------------------------------------------------
(* Every step keeps the types.                                             *)

\* A step of one call that writes c for it.
LEMMA CallStep ==
    ASSUME CallsType, NEW p \in Procs, NEW c, CallType(c),
           call' = [call EXCEPT ![p] = c]
    PROVE  CallsType'
<1>1. call'[p] = c /\ \A q \in Procs \ {p} : call'[q] = call[q]
  BY DEF CallsType
<1>2. \A q \in Procs : \E D \in SUBSET Names : call'[q] \in Call(D)
  <2>1. DOMAIN c.snap \in SUBSET Names /\ c \in Call(DOMAIN c.snap)
    BY DEF CallType
  <2> QED BY <1>1, <2>1 DEF CallsType
<1> QED BY <1>2 DEF CallsType

LEMMA ReturnType ==
    ASSUME CallsType, NEW p \in Procs, Return(p)
    PROVE  CallsType'
<1>1. CallType(Idle)
  BY IdleType DEF CallType
<1> QED BY <1>1, CallStep DEF Return

LEMMA CallUpdate ==
    ASSUME NEW c, CallType(c), NEW l \in {"columns", "write", "definition", "again", "select"}
    PROVE  /\ CallType([c EXCEPT !.at = l])
           /\ \A i \in Ids \cup {NULL} : CallType([c EXCEPT !.at = l, !.id = i])
<1>1. CallType([c EXCEPT !.at = l])
  BY DEF Call, CallType
<1>2. ASSUME NEW i \in Ids \cup {NULL} PROVE CallType([c EXCEPT !.at = l, !.id = i])
  BY DEF Call, CallType
<1> QED BY <1>1, <1>2

LEMMA CallRead ==
    ASSUME NEW c, CallType(c), NEW l \in {"columns", "write", "definition", "again", "select"},
           NEW cols, NEW D \in SUBSET Names, cols \in [D -> Column], NEW b \in BOOLEAN
    PROVE  CallType([c EXCEPT !.at = l, !.snap = cols, !.dropped = b])
<1>1. [c EXCEPT !.at = l, !.snap = cols, !.dropped = b] \in Call(D)
  BY DEF Call, CallType
<1>2. DOMAIN [c EXCEPT !.at = l, !.snap = cols, !.dropped = b].snap = D
  BY DEF Call, CallType
<1> QED BY <1>1, <1>2 DEF CallType

LEMMA DroppedType ==
    ASSUME CallsType, NEW t,
           call' = [p \in Procs |-> [call[p] EXCEPT !.dropped = @ \/ call[p].table = t]]
    PROVE  CallsType'
<1> SUFFICES ASSUME NEW p \in Procs PROVE \E D \in SUBSET Names : call'[p] \in Call(D)
  BY DEF CallsType
<1>1. PICK D \in SUBSET Names : call[p] \in Call(D)
  BY DEF CallsType
<1>2. (call[p].dropped \/ call[p].table = t) \in BOOLEAN
  OBVIOUS
<1>3. [call[p] EXCEPT !.dropped = @ \/ call[p].table = t] \in Call(D)
  BY <1>1, <1>2 DEF Call
<1> QED BY <1>3

\* A request a client may make begins well-typed.
LEMMA BeginType ==
    ASSUME CallsType, NEW p \in Procs, NEW o \in {"insert", "update", "get", "query", "alter"},
           NEW t \in Keys, NEW i \in Ids \cup {NULL}, NEW x \in Contexts \cup {NoContext},
           NEW d \in Data \cup {<<>>}, NEW l \in Lists \cup {<<>>}, Begin(p, o, t, i, x, d, l)
    PROVE  CallsType'
<1> DEFINE c == [Idle EXCEPT !.at = "columns", !.op = o, !.table = t,
                             !.id = i, !.ctx = x, !.arg = d, !.list = l]
<1>1. c \in Call({})
  BY IdleType DEF Call
<1>2. c.snap = Idle.snap
  BY DEF Idle
<1>3. CallType(c)
  BY <1>1, <1>2, IdleType DEF CallType
<1>4. call' = [call EXCEPT ![p] = c]
  BY DEF Begin
<1> QED BY <1>3, <1>4, CallStep

LEMMA WrittenType ==
    ASSUME TypeOK, NEW t, NEW v \in [Names -> Values], NEW d \in Data \cup {<<>>}
    PROVE  Written(t, v, d) \in [Names -> Values]
<1>1. \A n \in DOMAIN d : d[n] \in Values
  BY TablesAssumption, EmptyTuple DEF Partial
<1>2. \A n \in DOMAIN d : Stored(physical[t][n], d[n]) \in Values
  BY <1>1 DEF Stored, Values, Types
<1> QED BY <1>2 DEF Written

LEMMA BlankType ==
    ASSUME TypeOK, NEW t \in Keys, physical[t] # NULL
    PROVE  Blank(t) \in [Names -> Values]
<1>1. \A n \in DOMAIN physical[t] : physical[t][n] \in Physical
  BY DEF TypeOK, Partial
<1>2. \A n \in DOMAIN physical[t] : Default(physical[t][n]) \in Values
  BY <1>1 DEF Default, Physical, Values
<1> QED BY <1>2 DEF Blank, Values

\* The columns a request lists, as CreateTable registers and declares them.
LEMMA ListedType ==
    ASSUME NEW l \in Lists
    PROVE  LET names == {l[i].name : i \in DOMAIN l}
           IN /\ names \in SUBSET Names
              /\ [n \in names |-> [type |-> l[At(l, n)].type, kind |-> l[At(l, n)].kind,
                                   position |-> At(l, n) - 1]] \in [names -> Column]
              /\ [n \in names |-> colFragment(l[At(l, n)])] \in [names -> Physical]
<1> DEFINE names == {l[i].name : i \in DOMAIN l}
<1>1. names \in SUBSET Names
  BY AtColumn
<1>2. \A n \in names : At(l, n) \in DOMAIN l /\ l[At(l, n)] \in NamedColumn
  BY AtColumn
<1>3. \A j \in DOMAIN l : j - 1 \in Nat
  BY TablesAssumption
<1>4. \A n \in names : [type |-> l[At(l, n)].type, kind |-> l[At(l, n)].kind,
                        position |-> At(l, n) - 1] \in Column
  BY <1>2, <1>3 DEF Column, NamedColumn
<1>5. \A n \in names : colFragment(l[At(l, n)]) \in Physical
  BY <1>2, FragmentType DEF NamedColumn
<1> QED BY <1>1, <1>4, <1>5

\* The columns AddColumns adds.
Added(c, n) == c.list[At(c.list, n)]
NewNames(c) == {c.list[i].name : i \in Fresh(c.list, c.snap)}

LEMMA AddedType ==
    ASSUME NEW c, c.list \in Lists, DOMAIN c.snap \subseteq Names, NEW n \in NewNames(c)
    PROVE  /\ n \in Names
           /\ Added(c, n) \in NamedColumn
           /\ [type |-> Added(c, n).type, kind |-> Added(c, n).kind,
               position |-> position(c.list, c.snap, At(c.list, n))] \in Column
           /\ colFragment(Added(c, n)) \in Physical
           /\ Default(Added(c, n)) \in Values
<1>1. PICK i \in DOMAIN c.list : n = c.list[i].name
  BY DEF NewNames, Fresh
<1>2. /\ At(c.list, n) \in DOMAIN c.list
      /\ Added(c, n) \in NamedColumn
      /\ n \in Names
  BY <1>1, AtColumn DEF Added
<1>3. position(c.list, c.snap, At(c.list, n)) \in Nat
  BY <1>2, PositionType
<1>4. [type |-> Added(c, n).type, kind |-> Added(c, n).kind,
       position |-> position(c.list, c.snap, At(c.list, n))] \in Column
  BY <1>2, <1>3 DEF Column, NamedColumn
<1>5. colFragment(Added(c, n)) \in Physical
  BY <1>2, FragmentType DEF NamedColumn
<1>6. Default(Added(c, n)) \in Values
  BY <1>2 DEF NamedColumn, Default, Values
<1> QED BY <1>2, <1>4, <1>5, <1>6

\* What AddColumns does when it succeeds.
Alters(p) ==
    LET c == call[p]
        t == c.table
        new == NewNames(c)
    IN
    /\ Addable(t, c.list, c.snap)
    /\ new # {}
    /\ schema' = [schema EXCEPT ![t] =
          [n \in DOMAIN @ \cup new |->
             IF n \in DOMAIN @ THEN @[n]
             ELSE [type |-> Added(c, n).type, kind |-> Added(c, n).kind,
                   position |-> position(c.list, c.snap, At(c.list, n))]]]
    /\ physical' = [physical EXCEPT ![t] =
          [n \in DOMAIN @ \cup new |->
             IF n \in DOMAIN @ THEN @[n] ELSE colFragment(Added(c, n))]]
    /\ rows' = [rows EXCEPT ![t] = [i \in Ids |->
          LET r == rows[t][i]
          IN IF r = NULL THEN NULL
             ELSE [r EXCEPT !.vals = [n \in Names |->
                     IF n \in new THEN Default(Added(c, n)) ELSE r.vals[n]]]]]
    /\ outdated' = IF DOMAIN c.snap # DOMAIN schema[t] THEN outdated \cup {t} ELSE outdated

LEMMA AlterCases ==
    ASSUME NEW p, alter(p)
    PROVE  Alters(p) \/ UNCHANGED <<schema, physical, rows, outdated>>
  BY DEF alter, Alters, NewNames, Added, stored

\* It runs on a table that is registered, with columns in its list.
LEMMA AltersTable ==
    ASSUME TypeOK, NEW p \in Procs, Alters(p)
    PROVE  /\ call[p].list \in Lists /\ DOMAIN call[p].snap \subseteq Names
           /\ schema[call[p].table] # NULL
<1>1. PICK i \in Fresh(call[p].list, call[p].snap) : TRUE
  BY DEF Alters, NewNames
<1>2. schema[call[p].table] # NULL
  BY <1>1 DEF Alters, Addable
<1>3. call[p].list # <<>>
  BY <1>1, EmptyTuple DEF Fresh
<1> QED BY <1>2, <1>3, CallFields DEF CallType

Ops == {"insert", "update", "get", "query", "alter"}

\* A call under way is one of the five, on a table, and an update has its record.
Sound(c) == c.table \in Keys /\ c.op \in Ops /\ (c.op = "update" => c.id \in Ids)
BusyTables == \A p \in Procs : call[p].at # "idle" => Sound(call[p])

Inv == TypeOK /\ BusyTables

LEMMA CreateType ==
    ASSUME Inv, NEW t \in Keys, NEW l \in Lists, CreateTable(t, l)
    PROVE  Inv'
<1> DEFINE names == {l[i].name : i \in DOMAIN l}
           S == [n \in names |-> [type |-> l[At(l, n)].type, kind |-> l[At(l, n)].kind,
                                  position |-> At(l, n) - 1]]
           P == [n \in names |-> colFragment(l[At(l, n)])]
<1>1. names \in SUBSET Names /\ S \in [names -> Column] /\ P \in [names -> Physical]
  BY ListedType
<1>2. Partial(S, Column) /\ Partial(P, Physical)
  BY <1>1 DEF Partial
<1>3. schema' = [schema EXCEPT ![t] = S]
  BY DEF CreateTable
<1>4. SchemaType'
  BY <1>2, <1>3, TypeParts DEF Inv, SchemaType
<1>5. physical' = [physical EXCEPT ![t] = IF @ = NULL THEN P ELSE @]
  BY DEF CreateTable
<1>6. PhysicalType'
  BY <1>2, <1>5, TypeParts DEF Inv, PhysicalType
<1>7. RowsType' /\ CallsType' /\ RestType' /\ BusyTables'
  BY TypeParts DEF Inv, CreateTable, RowsType, CallsType, RestType, BusyTables, history, Count
<1> QED BY <1>4, <1>6, <1>7, TypePartsNext DEF Inv

LEMMA DeleteTableType ==
    ASSUME Inv, NEW t \in Keys, DeleteTable(t)
    PROVE  Inv'
<1>1. SchemaType' /\ PhysicalType' /\ RowsType'
  BY TypeParts DEF Inv, DeleteTable, SchemaType, PhysicalType, RowsType
<1>2. CallsType'
  BY TypeParts, DroppedType DEF Inv, DeleteTable
<1>3. BusyTables'
  <2> SUFFICES ASSUME NEW p \in Procs, call'[p].at # "idle"
                 PROVE  Sound(call'[p])
    BY DEF BusyTables
  <2>1. call'[p] = [call[p] EXCEPT !.dropped = @ \/ call[p].table = t]
    BY DEF DeleteTable
  <2>2. /\ call'[p].at = call[p].at /\ call'[p].table = call[p].table
        /\ call'[p].op = call[p].op /\ call'[p].id = call[p].id
    BY <2>1, CallFields DEF Inv, Call, CallType
  <2> QED BY <2>2 DEF Inv, BusyTables, Sound
<1>4. RestType'
  BY TypeParts DEF Inv, DeleteTable, RestType, Count
<1> QED BY <1>1, <1>2, <1>3, <1>4, TypePartsNext DEF Inv

\* The other calls that are one statement change rows only.
LEMMA StatementType ==
    ASSUME Inv, NEW t \in Keys,
           \/ \E i \in Ids : DeleteRecord(t, i)
           \/ \E x \in Contexts : RollbackByFlagCtx(t, x) \/ PromoteByFlagCtx(t, x)
    PROVE  Inv'
<1>1. CASE \E i \in Ids : DeleteRecord(t, i)
  <2>1. RowsType'
    BY <1>1, TypeParts DEF Inv, DeleteRecord, RowsType
  <2> QED BY <1>1, <2>1, TypeParts, TypePartsNext DEF Inv, DeleteRecord, SchemaType, PhysicalType,
             CallsType, RestType, BusyTables, history, Count
<1>2. CASE \E x \in Contexts : RollbackByFlagCtx(t, x)
  <2>1. RowsType'
    BY <1>2, TypeParts DEF Inv, RollbackByFlagCtx, RowsType
  <2> QED BY <1>2, <2>1, TypeParts, TypePartsNext DEF Inv, RollbackByFlagCtx, SchemaType, PhysicalType,
             CallsType, RestType, BusyTables, history, Count
<1>3. CASE \E x \in Contexts : PromoteByFlagCtx(t, x)
  <2>1. PICK x \in Contexts : PromoteByFlagCtx(t, x)
    BY <1>3
  <2>2. \A i \in Ids : i \in Tagged(t, x) => [rows[t][i] EXCEPT !.tag = NoContext] \in Row
    BY TypeParts DEF Inv, RowsType, Tagged, Row
  <2>3. RowsType'
    BY <2>1, <2>2, TypeParts DEF Inv, PromoteByFlagCtx, RowsType
  <2>4. promoted' \subseteq Ids
    BY <2>1 DEF Inv, TypeOK, PromoteByFlagCtx, Tagged
  <2> QED BY <2>1, <2>3, <2>4, TypeParts, TypePartsNext DEF Inv, PromoteByFlagCtx, SchemaType, PhysicalType,
             CallsType, RestType, BusyTables, Count
<1> QED BY <1>1, <1>2, <1>3

LEMMA BeginInv ==
    ASSUME Inv, NEW p \in Procs, NEW o \in {"insert", "update", "get", "query", "alter"},
           NEW t \in Keys, NEW i \in Ids \cup {NULL}, NEW x \in Contexts \cup {NoContext},
           NEW d \in Data \cup {<<>>}, NEW l \in Lists \cup {<<>>}, Begin(p, o, t, i, x, d, l),
           o = "update" => i \in Ids
    PROVE  Inv'
<1>1. CallsType'
  BY TypeParts, BeginType DEF Inv
<1>2. BusyTables'
  BY TypeParts DEF Inv, CallsType, BusyTables, Sound, Begin, Idle, Ops
<1> QED BY <1>1, <1>2, TypeParts, TypePartsNext DEF Inv, Begin, SchemaType, PhysicalType, RowsType,
           RestType, history, Count

LEMMA RequestType ==
    ASSUME Inv, NEW p \in Procs, Request(p)
    PROVE  Inv'
<1> PICK t \in Keys :
       \/ \E d \in Data :
             \/ InsertRecord(p, t, d)
             \/ \E x \in Contexts : InsertRecordFlagged(p, t, d, x)
             \/ \E i \in Ids : UpdateRecord(p, t, i, d)
       \/ \E i \in Ids : GetRecord(p, t, i)
       \/ QueryRecords(p, t)
       \/ \E l \in Lists : AddColumns(p, t, l)
  BY DEF Request
<1>1. ASSUME NEW d \in Data, InsertRecord(p, t, d) PROVE Inv'
  BY <1>1, BeginInv DEF InsertRecord
<1>2. ASSUME NEW d \in Data, NEW x \in Contexts, InsertRecordFlagged(p, t, d, x) PROVE Inv'
  BY <1>2, BeginInv DEF InsertRecordFlagged
<1>3. ASSUME NEW d \in Data, NEW i \in Ids, UpdateRecord(p, t, i, d) PROVE Inv'
  BY <1>3, BeginInv DEF UpdateRecord
<1>4. ASSUME NEW i \in Ids, GetRecord(p, t, i) PROVE Inv'
  BY <1>4, BeginInv DEF GetRecord
<1>5. CASE QueryRecords(p, t)
  BY <1>5, BeginInv DEF QueryRecords
<1>6. ASSUME NEW l \in Lists, AddColumns(p, t, l) PROVE Inv'
  BY <1>6, BeginInv DEF AddColumns
<1> QED BY <1>1, <1>2, <1>3, <1>4, <1>5, <1>6

\* A step of call p, to c, that leaves the tables alone or keeps them typed.
LEMMA BusyStep ==
    ASSUME Inv, NEW p \in Procs, NEW c, call' = [call EXCEPT ![p] = c],
           c.at # "idle" => Sound(c)
    PROVE  BusyTables'
  BY DEF Inv, BusyTables, TypeOK

LEMMA ReturnBusy ==
    ASSUME Inv, NEW p \in Procs, Return(p)
    PROVE  BusyTables'
  BY BusyStep DEF Return, Idle

\* Going on with l keeps a call typed and its table in place.
LEMMA GotoInv ==
    ASSUME Inv, NEW p \in Procs, call[p].at # "idle",
           NEW l \in {"columns", "write", "definition", "again", "select"},
           \/ Goto(p, l)
           \/ \E i \in Ids : call' = [call EXCEPT ![p].at = l, ![p].id = i]
    PROVE  CallsType' /\ BusyTables'
<1>1. CallType(call[p]) /\ Sound(call[p])
  BY CallFields DEF Inv, BusyTables
<1>2. CASE Goto(p, l)
  <2>1. call' = [call EXCEPT ![p] = [call[p] EXCEPT !.at = l]]
    BY <1>2 DEF Goto
  <2>2. CallType([call[p] EXCEPT !.at = l])
    BY <1>1, CallUpdate
  <2>3. Sound([call[p] EXCEPT !.at = l])
    BY <1>1 DEF Call, CallType, Sound
  <2> QED BY <1>1, <2>1, <2>2, <2>3, TypeParts, CallStep, BusyStep DEF Inv
<1>3. ASSUME NEW i \in Ids, call' = [call EXCEPT ![p].at = l, ![p].id = i]
      PROVE  CallsType' /\ BusyTables'
  <2>1. call' = [call EXCEPT ![p] = [call[p] EXCEPT !.at = l, !.id = i]]
    BY <1>3 DEF Inv, TypeOK
  <2>2. CallType([call[p] EXCEPT !.at = l, !.id = i])
    BY <1>1, CallUpdate
  <2>3. Sound([call[p] EXCEPT !.at = l, !.id = i])
    BY <1>1 DEF Call, CallType, Sound
  <2> QED BY <1>1, <2>1, <2>2, <2>3, TypeParts, CallStep, BusyStep DEF Inv
<1> QED BY <1>2, <1>3

LEMMA AfterType ==
    ASSUME NEW c, c.op \in Ops, NEW cols
    PROVE  AfterColumns(c, cols) \in {"select", "write", "idle", "definition"}
  BY DEF AfterColumns, Ops

\* What loadColumns does to its call.
LEMMA LoadCases ==
    ASSUME Inv, NEW p \in Procs, loadColumns(p)
    PROVE  LET c == call[p]
               cols == IF schema[c.table] = NULL THEN <<>> ELSE schema[c.table]
               l == AfterColumns(c, cols)
           IN /\ c.at \in {"columns", "again"} /\ Sound(c)
              /\ \E D \in SUBSET Names : cols \in [D -> Column]
              /\ call' = [call EXCEPT ![p] =
                    IF l = "idle" THEN Idle
                    ELSE [c EXCEPT !.at = l, !.snap = cols, !.dropped = (schema[c.table] = NULL)]]
<1>1. /\ call[p].at \in {"columns", "again"}
      /\ Sound(call[p]) /\ call[p].table \in Keys
  BY DEF loadColumns, Inv, BusyTables, Sound
<1>2. CASE schema[call[p].table] = NULL
  BY <1>1, <1>2, EmptyTuple DEF loadColumns
<1>3. CASE schema[call[p].table] # NULL
  BY <1>1, <1>3 DEF loadColumns, Inv, TypeOK, Partial
<1> QED BY <1>2, <1>3

LEMMA LoadType ==
    ASSUME Inv, NEW p \in Procs, loadColumns(p)
    PROVE  Inv'
<1> DEFINE c == call[p]
           cols == IF schema[c.table] = NULL THEN <<>> ELSE schema[c.table]
           l == AfterColumns(c, cols)
           r == IF l = "idle" THEN Idle
                ELSE [c EXCEPT !.at = l, !.snap = cols, !.dropped = (schema[c.table] = NULL)]
<1>1. /\ Sound(c)
      /\ \E D \in SUBSET Names : cols \in [D -> Column]
      /\ call' = [call EXCEPT ![p] = r]
  BY LoadCases
<1>2. CASE l = "idle"
  <2>1. Return(p)
    BY <1>1, <1>2 DEF Return
  <2>2. CallsType' /\ BusyTables'
    BY <2>1, ReturnType, ReturnBusy, TypeParts DEF Inv
  <2> QED BY <2>2, TypeParts, TypePartsNext DEF Inv, loadColumns, SchemaType, PhysicalType,
             RowsType, RestType, history
<1>3. CASE l # "idle"
  <2>1. CallType(c)
    BY CallFields DEF Inv
  <2>2. l \in {"select", "write", "definition"}
    BY <1>1, <1>3, AfterType DEF Sound
  <2>3. CallType(r)
    BY <1>1, <1>3, <2>1, <2>2, CallRead
  <2>4. Sound(r)
    BY <1>1, <1>3, <2>1 DEF CallType, Call, Sound
  <2>5. CallsType' /\ BusyTables'
    BY <1>1, <2>3, <2>4, CallStep, BusyStep, TypeParts DEF Inv
  <2> QED BY <2>5, TypeParts, TypePartsNext DEF Inv, loadColumns, SchemaType, PhysicalType,
             RowsType, RestType, history
<1> QED BY <1>2, <1>3

LEMMA InsertType ==
    ASSUME Inv, NEW p \in Procs, insert(p)
    PROVE  Inv'
<1> DEFINE c == call[p]
<1>1. CASE Return(p) /\ UNCHANGED <<rows, born, unchecked>>
  <2>1. CallsType' /\ BusyTables'
    BY <1>1, ReturnType, ReturnBusy, TypeParts DEF Inv
  <2> QED BY <1>1, <2>1, TypeParts, TypePartsNext DEF Inv, insert, SchemaType, PhysicalType,
             RowsType, RestType
<1>2. ASSUME NEW i \in Ids,
             Known(c.table, DOMAIN c.arg),
             rows' = [rows EXCEPT ![c.table][i] =
                [tag |-> c.ctx, vals |-> Written(c.table, Blank(c.table), c.arg)]],
             born' = [born EXCEPT ![i] = c.ctx],
             unchecked' = IF c.dropped THEN unchecked \cup {i} ELSE unchecked,
             call' = [call EXCEPT ![p].at = "definition", ![p].id = i]
      PROVE  Inv'
  <2>1. c.table \in Keys /\ c.at # "idle"
    BY DEF insert, Inv, BusyTables, Sound
  <2>2. Written(c.table, Blank(c.table), c.arg) \in [Names -> Values]
    BY <1>2, <2>1, CallFields, BlankType, WrittenType DEF Inv, Known
  <2>3. [tag |-> c.ctx, vals |-> Written(c.table, Blank(c.table), c.arg)] \in Row
    BY <2>2, CallFields DEF Inv, Row
  <2>4. RowsType'
    BY <1>2, <2>1, <2>3, TypeParts DEF Inv, RowsType
  <2>5. CallsType' /\ BusyTables'
    BY <1>2, <2>1, GotoInv
  <2>6. RestType'
    BY <1>2, CallFields, TypeParts DEF Inv, RestType, insert
  <2> QED BY <2>4, <2>5, <2>6, TypeParts, TypePartsNext DEF Inv, insert, SchemaType, PhysicalType
<1> QED BY <1>1, <1>2 DEF insert

LEMMA UpdateType ==
    ASSUME Inv, NEW p \in Procs, update(p)
    PROVE  Inv'
<1> DEFINE c == call[p]
<1>1. CASE Return(p) /\ UNCHANGED <<rows, unchecked>>
  <2>1. CallsType' /\ BusyTables'
    BY <1>1, ReturnType, ReturnBusy, TypeParts DEF Inv
  <2> QED BY <1>1, <2>1, TypeParts, TypePartsNext DEF Inv, update, SchemaType, PhysicalType,
             RowsType, RestType
<1>2. CASE /\ rows[c.table][c.id] # NULL
           /\ rows' = [rows EXCEPT ![c.table][c.id] = Updated(c.table, c.id, c.arg)]
           /\ unchecked' = IF c.dropped THEN unchecked \cup {c.id} ELSE unchecked
           /\ Goto(p, "definition")
  <2>1. c.table \in Keys /\ c.id \in Ids /\ c.at # "idle"
    BY DEF update, Inv, BusyTables, Sound
  <2>2. Updated(c.table, c.id, c.arg) \in Row
    <3>1. rows[c.table][c.id] \in Row
      BY <1>2, <2>1 DEF Inv, TypeOK
    <3>2. Written(c.table, rows[c.table][c.id].vals, c.arg) \in [Names -> Values]
      BY <3>1, CallFields, WrittenType DEF Inv, Row
    <3> QED BY <3>1, <3>2 DEF Updated, Row
  <2>3. RowsType'
    BY <1>2, <2>1, <2>2, TypeParts DEF Inv, RowsType
  <2>4. CallsType' /\ BusyTables'
    BY <1>2, <2>1, GotoInv
  <2>5. RestType'
    BY <1>2, <2>1, TypeParts DEF Inv, RestType, update
  <2> QED BY <2>3, <2>4, <2>5, TypeParts, TypePartsNext DEF Inv, update, SchemaType, PhysicalType
<1> QED BY <1>1, <1>2 DEF update

LEMMA AlterType ==
    ASSUME Inv, RegistryMatchesTable, NEW p \in Procs, alter(p)
    PROVE  Inv'
<1> DEFINE c == call[p]
           t == c.table
<1>1. CallsType' /\ BusyTables'
  BY ReturnType, ReturnBusy, TypeParts DEF Inv, alter
<1>2. CASE UNCHANGED <<schema, physical, rows, outdated>>
  BY <1>1, <1>2, TypeParts, TypePartsNext DEF Inv, alter, SchemaType, PhysicalType,
     RowsType, RestType
<1>3. CASE Alters(p)
  <2>1. t \in Keys
    BY DEF alter, Inv, BusyTables, Sound
  <2>2. c.list \in Lists /\ DOMAIN c.snap \subseteq Names /\ schema[t] # NULL
    BY <1>3, AltersTable DEF Inv
  <2>3. \A n \in NewNames(c) :
          /\ n \in Names
          /\ [type |-> Added(c, n).type, kind |-> Added(c, n).kind,
              position |-> position(c.list, c.snap, At(c.list, n))] \in Column
          /\ colFragment(Added(c, n)) \in Physical
          /\ Default(Added(c, n)) \in Values
    BY <2>2, AddedType
  <2>4. SchemaType'
    <3> DEFINE S == [n \in DOMAIN schema[t] \cup NewNames(c) |->
                       IF n \in DOMAIN schema[t] THEN schema[t][n]
                       ELSE [type |-> Added(c, n).type, kind |-> Added(c, n).kind,
                             position |-> position(c.list, c.snap, At(c.list, n))]]
    <3>1. PICK D \in SUBSET Names : schema[t] \in [D -> Column]
      BY <2>1, <2>2 DEF Inv, TypeOK, Partial
    <3>2. S \in [D \cup NewNames(c) -> Column] /\ D \cup NewNames(c) \in SUBSET Names
      BY <2>3, <3>1
    <3>3. Partial(S, Column)
      BY <3>2 DEF Partial
    <3>4. schema' = [schema EXCEPT ![t] = S]
      BY <1>3 DEF Alters
    <3> HIDE DEF S
    <3> QED BY <2>1, <3>3, <3>4, TypeParts DEF Inv, SchemaType
  <2>5. PhysicalType'
    <3> DEFINE P == [n \in DOMAIN physical[t] \cup NewNames(c) |->
                       IF n \in DOMAIN physical[t] THEN physical[t][n] ELSE colFragment(Added(c, n))]
    <3>1. physical' = [physical EXCEPT ![t] = P]
      BY <1>3 DEF Alters
    <3>2. PICK D \in SUBSET Names : physical[t] \in [D -> Physical]
      <4>1. PICK D \in SUBSET Names : schema[t] \in [D -> Column]
        BY <2>1, <2>2 DEF Inv, TypeOK, Partial
      <4>2. \A n \in D : colFragment(schema[t][n]) \in Physical
        BY <4>1, FragmentType DEF Column
      <4>3. physical[t] = [n \in D |-> colFragment(schema[t][n])]
        BY <2>1, <2>2, <4>1 DEF RegistryMatchesTable
      <4> QED BY <4>2, <4>3
    <3>3. P \in [D \cup NewNames(c) -> Physical] /\ D \cup NewNames(c) \in SUBSET Names
      BY <2>3, <3>2
    <3>4. Partial(P, Physical)
      BY <3>3 DEF Partial
    <3> HIDE DEF P
    <3> QED BY <2>1, <3>1, <3>4, TypeParts DEF Inv, PhysicalType
  <2>6. RowsType'
    <3> DEFINE V(r) == [n \in Names |-> IF n \in NewNames(c) THEN Default(Added(c, n))
                                                            ELSE r.vals[n]]
               N(r) == [r EXCEPT !.vals = V(r)]
               R == [i \in Ids |-> IF rows[t][i] = NULL THEN NULL ELSE N(rows[t][i])]
    <3>1. ASSUME NEW r \in Row PROVE N(r) \in Row
      <4>1. V(r) \in [Names -> Values]
        BY <2>3 DEF Row
      <4>2. \A v \in [Names -> Values] : [r EXCEPT !.vals = v] \in Row
        BY DEF Row
      <4> HIDE DEF V
      <4> QED BY <4>1, <4>2
    <3>2. rows' = [rows EXCEPT ![t] = R]
      BY <1>3 DEF Alters
    <3> HIDE DEF N, V
    <3>3. R \in [Ids -> Row \cup {NULL}]
      BY <2>1, <3>1 DEF Inv, TypeOK
    <3> HIDE DEF R
    <3> QED BY <2>1, <3>2, <3>3, TypeParts DEF Inv, RowsType
  <2>7. RestType'
    BY <1>3, <2>1, TypeParts DEF Inv, Alters, alter, RestType
  <2> QED BY <1>1, <2>4, <2>5, <2>6, <2>7, TypePartsNext DEF Inv
<1> QED BY <1>2, <1>3, AlterCases

LEMMA TypeStep == Inv /\ RegistryMatchesTable /\ [Next]_vars => Inv'
<1> SUFFICES ASSUME Inv, RegistryMatchesTable, [Next]_vars PROVE Inv'
  OBVIOUS
<1>1. CASE Transaction
  BY <1>1, CreateType, DeleteTableType, StatementType DEF Transaction
<1>2. ASSUME NEW p \in Procs, Request(p) PROVE Inv'
  BY <1>2, RequestType
<1>3. ASSUME NEW p \in Procs, definition(p) PROVE Inv'
  <2>1. CallsType' /\ BusyTables'
    BY <1>3, ReturnType, ReturnBusy, GotoInv, TypeParts DEF Inv, definition
  <2> QED BY <1>3, <2>1, TypeParts, TypePartsNext DEF Inv, definition, SchemaType, PhysicalType,
             RowsType, RestType, history
<1>4. ASSUME NEW p \in Procs, select(p) PROVE Inv'
  <2>1. CallsType' /\ BusyTables'
    BY <1>4, ReturnType, ReturnBusy, TypeParts DEF Inv, select
  <2>2. events' \subseteq Ids
    BY <1>4, CallFields DEF Inv, TypeOK, select
  <2> QED BY <1>4, <2>1, <2>2, TypeParts, TypePartsNext DEF Inv, select, SchemaType, PhysicalType,
             RowsType, RestType, history
<1>5. ASSUME NEW p \in Procs, Abandon(p) PROVE Inv'
  <2>1. CallsType' /\ BusyTables'
    BY <1>5, ReturnType, ReturnBusy, TypeParts DEF Inv, Abandon
  <2>2. lost' \subseteq Ids
    BY <1>5, CallFields DEF Inv, TypeOK, Abandon
  <2> QED BY <1>5, <2>1, <2>2, TypeParts, TypePartsNext DEF Inv, Abandon, SchemaType, PhysicalType,
             RowsType, RestType
<1>6. CASE UNCHANGED vars
  BY <1>6, TypeParts, TypePartsNext DEF Inv, vars, SchemaType, PhysicalType, RowsType, CallsType,
     RestType, BusyTables
<1>7. ASSUME NEW p \in Procs, Continue(p) PROVE Inv'
  BY <1>3, <1>4, <1>7, LoadType, InsertType, UpdateType, AlterType DEF Continue
<1> QED BY <1>1, <1>2, <1>5, <1>6, <1>7 DEF Next

LEMMA InvInit == Init => Inv
<1> SUFFICES ASSUME Init PROVE Inv
  OBVIOUS
<1>1. BusyTables
  BY DEF Init, Idle, BusyTables
<1> QED BY <1>1, TypeInit DEF Inv

-----------------------------------------------------------------------------
(* The registry and the physical tables.                                   *)

LEMMA PartialNotNull ==
    ASSUME NEW f, Partial(f, Column)
    PROVE  f # NULL
  BY TablesAssumption

\* AddColumns does not unregister its table.
LEMMA AlterKeeps ==
    ASSUME Inv, NEW p \in Procs, alter(p), Alters(p)
    PROVE  schema'[call[p].table] # NULL
<1> DEFINE c == call[p]
           t == c.table
           S == [n \in DOMAIN schema[t] \cup NewNames(c) |->
                   IF n \in DOMAIN schema[t] THEN schema[t][n]
                   ELSE [type |-> Added(c, n).type, kind |-> Added(c, n).kind,
                         position |-> position(c.list, c.snap, At(c.list, n))]]
<1>1. t \in Keys /\ schema[t] # NULL
  BY AltersTable DEF alter, Inv, BusyTables, Sound
<1>2. schema' = [schema EXCEPT ![t] = S]
  BY DEF Alters
<1>3. PICK D \in SUBSET Names : schema[t] \in [D -> Column]
  BY <1>1 DEF Inv, TypeOK, Partial
<1>4. \A n \in NewNames(c) :
        /\ n \in Names
        /\ [type |-> Added(c, n).type, kind |-> Added(c, n).kind,
            position |-> position(c.list, c.snap, At(c.list, n))] \in Column
  BY AltersTable, AddedType DEF Inv
<1>5. S \in [D \cup NewNames(c) -> Column] /\ D \cup NewNames(c) \in SUBSET Names
  BY <1>3, <1>4
<1>6. Partial(S, Column)
  BY <1>5 DEF Partial
<1> QED BY <1>1, <1>2, <1>6, PartialNotNull DEF Inv, TypeOK

LEMMA RegistryStep == Inv /\ RegistryMatchesTable /\ [Next]_vars => RegistryMatchesTable'
<1> SUFFICES ASSUME Inv, RegistryMatchesTable, [Next]_vars PROVE RegistryMatchesTable'
  OBVIOUS
<1>1. ASSUME NEW t \in Keys, NEW l \in Lists, CreateTable(t, l) PROVE RegistryMatchesTable'
  <2> DEFINE names == {l[i].name : i \in DOMAIN l}
             S == [n \in names |-> [type |-> l[At(l, n)].type, kind |-> l[At(l, n)].kind,
                                    position |-> At(l, n) - 1]]
             P == [n \in names |-> colFragment(l[At(l, n)])]
  <2>1. S # NULL
    <3>1. S \in [names -> Column] /\ names \in SUBSET Names
      BY ListedType
    <3>2. Partial(S, Column)
      BY <3>1 DEF Partial
    <3> QED BY <3>2, PartialNotNull
  <2>2. physical[t] = NULL
    BY <1>1 DEF CreateTable, Creatable, RegistryMatchesTable
  <2>3. P = [n \in DOMAIN S |-> colFragment(S[n])]
    BY DEF colFragment
  <2>4. schema' = [schema EXCEPT ![t] = S] /\ physical' = [physical EXCEPT ![t] = P]
    BY <1>1, <2>2 DEF CreateTable, Inv, TypeOK
  <2> HIDE DEF S, P
  <2> QED BY <2>1, <2>3, <2>4 DEF RegistryMatchesTable, Inv, TypeOK
<1>2. ASSUME NEW t \in Keys, DeleteTable(t) PROVE RegistryMatchesTable'
  BY <1>2 DEF DeleteTable, RegistryMatchesTable, Inv, TypeOK
<1>3. ASSUME NEW p \in Procs, alter(p) PROVE RegistryMatchesTable'
  <2>1. CASE UNCHANGED <<schema, physical, rows, outdated>>
    BY <2>1 DEF RegistryMatchesTable
  <2>2. CASE Alters(p)
    <3> DEFINE c == call[p]
               t == c.table
               S == [n \in DOMAIN schema[t] \cup NewNames(c) |->
                       IF n \in DOMAIN schema[t] THEN schema[t][n]
                       ELSE [type |-> Added(c, n).type, kind |-> Added(c, n).kind,
                             position |-> position(c.list, c.snap, At(c.list, n))]]
               P == [n \in DOMAIN physical[t] \cup NewNames(c) |->
                       IF n \in DOMAIN physical[t] THEN physical[t][n] ELSE colFragment(Added(c, n))]
    <3>1. t \in Keys /\ schema[t] # NULL
      BY <1>3, <2>2, AltersTable DEF alter, Inv, BusyTables, Sound
    <3>2. physical[t] = [n \in DOMAIN schema[t] |-> colFragment(schema[t][n])]
      BY <3>1 DEF RegistryMatchesTable
    <3>3. P = [n \in DOMAIN S |-> colFragment(S[n])]
      BY <3>2 DEF colFragment
    <3>4. schema' = [schema EXCEPT ![t] = S] /\ physical' = [physical EXCEPT ![t] = P]
      BY <2>2 DEF Alters
    <3>5. schema'[t] # NULL
      BY <1>3, <2>2, AlterKeeps
    <3> HIDE DEF S, P
    <3> QED BY <3>1, <3>3, <3>4, <3>5 DEF RegistryMatchesTable, Inv, TypeOK
  <2> QED BY <1>3, <2>1, <2>2, AlterCases
<1>4. ASSUME NEW p \in Procs, Continue(p), ~alter(p) PROVE UNCHANGED <<schema, physical>>
  BY <1>4 DEF Continue, loadColumns, insert, update, definition, select
<1>5. ASSUME NEW p \in Procs, Request(p) PROVE UNCHANGED <<schema, physical>>
  BY <1>5 DEF Request, InsertRecord, InsertRecordFlagged, UpdateRecord, GetRecord,
     QueryRecords, AddColumns, Begin
<1>6. ASSUME NEW p \in Procs, Abandon(p) PROVE UNCHANGED <<schema, physical>>
  BY <1>6 DEF Abandon
<1>7. CASE Transaction
  <2>1. ASSUME NEW t \in Keys, NEW i, DeleteRecord(t, i) PROVE UNCHANGED <<schema, physical>>
    BY <2>1 DEF DeleteRecord
  <2>2. ASSUME NEW t \in Keys, NEW x, RollbackByFlagCtx(t, x) \/ PromoteByFlagCtx(t, x)
        PROVE  UNCHANGED <<schema, physical>>
    BY <2>2 DEF RollbackByFlagCtx, PromoteByFlagCtx
  <2> QED BY <1>1, <1>2, <1>7, <2>1, <2>2 DEF Transaction, RegistryMatchesTable
<1>8. UNCHANGED <<schema, physical>> => RegistryMatchesTable'
  BY DEF RegistryMatchesTable
<1> QED BY <1>3, <1>4, <1>5, <1>6, <1>7, <1>8 DEF Next, vars

LEMMA RegistryInit == Init => RegistryMatchesTable
  BY DEF Init, RegistryMatchesTable

\* State is well-typed: internal/table/engine.go and records.go.
THEOREM TypeCorrect == Spec => []TypeOK
<1>1. Inv => TypeOK
  BY DEF Inv
<1> QED BY <1>1, InvInit, TypeStep, RegistryInit, RegistryStep, PTL DEF Spec

\* Whatever calls overlap, statements fail or requests are refused, the
\* registered columns of a table are those of the physical table:
\* CreateTable, AddColumns and DeleteTable change both in one transaction.
THEOREM RegistryTrue == Spec => []RegistryMatchesTable
  BY InvInit, TypeStep, RegistryInit, RegistryStep, PTL DEF Spec

-----------------------------------------------------------------------------
(* What a call has read of a definition.                                   *)

\* Its columns are registered as it read them.
StillTrue(c) ==
    c.at \in {"write", "select"} /\ ~c.dropped =>
       /\ schema[c.table] # NULL
       /\ \A n \in DOMAIN c.snap : n \in DOMAIN schema[c.table] /\ schema[c.table][n] = c.snap[n]

LEMMA ReadDef == ReadColumnsStayTrue <=> \A p \in Procs : StillTrue(call[p])
  BY DEF ReadColumnsStayTrue, StillTrue

LEMMA ReadDefNext ==
    ASSUME \A p \in Procs : StillTrue(call[p])'
    PROVE  ReadColumnsStayTrue'
  BY DEF ReadColumnsStayTrue, StillTrue

\* A call that leaves the definitions alone, and where to they take its call.
LEMMA ReadKept ==
    ASSUME Inv, ReadColumnsStayTrue, UNCHANGED schema, NEW p \in Procs, NEW c,
           call' = [call EXCEPT ![p] = c], c.at \notin {"write", "select"} \/ StillTrue(c)
    PROVE  ReadColumnsStayTrue'
<1>1. ASSUME NEW q \in Procs, q # p PROVE StillTrue(call[q])'
  <2>1. call'[q] = call[q]
    BY <1>1 DEF Inv, TypeOK
  <2> QED BY <2>1, ReadDef DEF StillTrue
<1>2. StillTrue(call[p])'
  <2>1. call'[p] = c
    BY DEF Inv, TypeOK
  <2> QED BY <2>1 DEF StillTrue
<1> QED BY <1>1, <1>2, ReadDefNext

LEMMA ReadReturn ==
    ASSUME Inv, ReadColumnsStayTrue, UNCHANGED schema, NEW p \in Procs, Return(p)
    PROVE  ReadColumnsStayTrue'
  BY ReadKept DEF Return, Idle

LEMMA ReadGoto ==
    ASSUME Inv, ReadColumnsStayTrue, UNCHANGED schema, NEW p \in Procs,
           NEW l \in {"columns", "definition", "again"},
           Goto(p, l) \/ \E i \in Ids : call' = [call EXCEPT ![p].at = l, ![p].id = i]
    PROVE  ReadColumnsStayTrue'
<1>1. CallType(call[p])
  BY CallFields DEF Inv
<1>2. CASE Goto(p, l)
  <2>1. call' = [call EXCEPT ![p] = [call[p] EXCEPT !.at = l]]
    BY <1>2 DEF Goto
  <2>2. [call[p] EXCEPT !.at = l].at = l
    BY <1>1 DEF CallType, Call
  <2> QED BY <2>1, <2>2, ReadKept
<1>3. ASSUME NEW i \in Ids, call' = [call EXCEPT ![p].at = l, ![p].id = i]
      PROVE  ReadColumnsStayTrue'
  <2>1. call' = [call EXCEPT ![p] = [call[p] EXCEPT !.at = l, !.id = i]]
    BY <1>3 DEF Inv, TypeOK
  <2>2. [call[p] EXCEPT !.at = l, !.id = i].at = l
    BY <1>1 DEF CallType, Call
  <2> QED BY <2>1, <2>2, ReadKept
<1> QED BY <1>2, <1>3

\* A change of the definitions that leaves the calls alone and only adds.
LEMMA ReadGrows ==
    ASSUME Inv, ReadColumnsStayTrue, NEW P \in SUBSET Procs,
           \A p \in P : call'[p] = call[p],
           \A p \in Procs \ P : call'[p].at \notin {"write", "select"},
           \A t \in Keys : schema[t] # NULL =>
              /\ schema'[t] # NULL
              /\ \A n \in DOMAIN schema[t] : n \in DOMAIN schema'[t] /\ schema'[t][n] = schema[t][n]
    PROVE  ReadColumnsStayTrue'
<1> SUFFICES ASSUME NEW p \in Procs PROVE StillTrue(call[p])'
  BY ReadDefNext
<1>1. CASE p \in P
  <2>1. call[p].at \in {"write", "select"} => call[p].table \in Keys
    BY DEF Inv, BusyTables, Sound
  <2> QED BY <1>1, <2>1, ReadDef DEF StillTrue
<1>2. CASE p \notin P
  BY <1>2 DEF StillTrue
<1> QED BY <1>1, <1>2

LEMMA ReadStep ==
    Inv /\ RegistryMatchesTable /\ ReadColumnsStayTrue /\ [Next]_vars => ReadColumnsStayTrue'
<1> SUFFICES ASSUME Inv, Inv', RegistryMatchesTable, ReadColumnsStayTrue, [Next]_vars
             PROVE  ReadColumnsStayTrue'
  BY TypeStep
<1>1. ASSUME NEW t \in Keys, NEW l \in Lists, CreateTable(t, l) PROVE ReadColumnsStayTrue'
  <2>1. schema[t] = NULL /\ \A u \in Keys \ {t} : schema'[u] = schema[u]
    BY <1>1 DEF CreateTable, Creatable, Inv, TypeOK
  <2>2. call' = call
    BY <1>1 DEF CreateTable
  <2> QED BY <2>1, <2>2, ReadGrows
<1>2. ASSUME NEW t \in Keys, DeleteTable(t) PROVE ReadColumnsStayTrue'
  <2> SUFFICES ASSUME NEW p \in Procs PROVE StillTrue(call[p])'
    BY ReadDefNext
  <2>1. call'[p] = [call[p] EXCEPT !.dropped = @ \/ call[p].table = t]
    BY <1>2 DEF DeleteTable
  <2>2. CallType(call[p]) /\ (call[p].at \in {"write", "select"} => call[p].table \in Keys)
    BY CallFields DEF Inv, BusyTables, Sound
  <2>3. /\ call'[p].at = call[p].at /\ call'[p].table = call[p].table
        /\ call'[p].snap = call[p].snap
        /\ call'[p].dropped = (call[p].dropped \/ call[p].table = t)
    BY <2>1, <2>2 DEF CallType, Call
  <2>4. \A u \in Keys \ {t} : schema'[u] = schema[u]
    BY <1>2 DEF DeleteTable, Inv, TypeOK
  <2>5. ~call'[p].dropped => ~call[p].dropped /\ call[p].table # t
    BY <2>3
  <2>6. StillTrue(call[p])
    BY ReadDef
  <2>7. CASE call'[p].at \in {"write", "select"} /\ ~call'[p].dropped
    <3>1. schema'[call[p].table] = schema[call[p].table]
      BY <2>2, <2>3, <2>4, <2>5, <2>7
    <3> QED BY <2>3, <2>5, <2>6, <2>7, <3>1 DEF StillTrue
  <2> QED BY <2>7 DEF StillTrue
<1>3. ASSUME NEW t \in Keys,
             \/ \E i \in Ids : DeleteRecord(t, i)
             \/ \E x \in Contexts : RollbackByFlagCtx(t, x) \/ PromoteByFlagCtx(t, x)
      PROVE  ReadColumnsStayTrue'
  BY <1>3 DEF DeleteRecord, RollbackByFlagCtx, PromoteByFlagCtx, ReadColumnsStayTrue
<1>4. ASSUME NEW p \in Procs, NEW o, NEW t, NEW i, NEW x, NEW d, NEW l, Begin(p, o, t, i, x, d, l)
      PROVE  ReadColumnsStayTrue'
  BY <1>4, ReadKept DEF Begin, Idle
<1>5. ASSUME NEW p \in Procs, loadColumns(p) PROVE ReadColumnsStayTrue'
  <2> DEFINE c == call[p]
             cols == IF schema[c.table] = NULL THEN <<>> ELSE schema[c.table]
             l == AfterColumns(c, cols)
             r == [c EXCEPT !.at = l, !.snap = cols, !.dropped = (schema[c.table] = NULL)]
  <2>1. CASE l = "idle"
    <3>1. Return(p)
      BY <1>5, <2>1, LoadCases DEF Return
    <3> QED BY <1>5, <3>1, ReadReturn DEF loadColumns
  <2>2. CASE l # "idle"
    <3>1. call' = [call EXCEPT ![p] = r] /\ UNCHANGED schema
      BY <1>5, <2>2, LoadCases DEF loadColumns
    <3>2. CallType(c)
      BY CallFields DEF Inv
    <3>3. r.snap = cols /\ r.dropped = (schema[c.table] = NULL) /\ r.table = c.table
      BY <3>2 DEF CallType, Call
    <3>4. StillTrue(r)
      BY <3>3 DEF StillTrue
    <3> QED BY <3>1, <3>4, ReadKept
  <2> QED BY <2>1, <2>2
<1>6. ASSUME NEW p \in Procs, insert(p) \/ update(p) \/ definition(p) \/ select(p) \/ Abandon(p)
      PROVE  ReadColumnsStayTrue'
  <2>1. CASE insert(p)
    BY <2>1, ReadReturn, ReadGoto DEF insert
  <2>2. CASE update(p)
    BY <2>2, ReadReturn, ReadGoto DEF update
  <2>3. CASE definition(p)
    BY <2>3, ReadReturn, ReadGoto DEF definition
  <2>4. CASE select(p)
    BY <2>4, ReadReturn DEF select
  <2>5. CASE Abandon(p)
    BY <2>5, ReadReturn DEF Abandon
  <2> QED BY <1>6, <2>1, <2>2, <2>3, <2>4, <2>5
<1>7. ASSUME NEW p \in Procs, alter(p) PROVE ReadColumnsStayTrue'
  <2>1. CASE UNCHANGED <<schema, physical, rows, outdated>>
    BY <1>7, <2>1, ReadReturn DEF alter
  <2>2. CASE Alters(p)
    <3> DEFINE t == call[p].table
    <3>1. t \in Keys /\ schema[t] # NULL
      BY <1>7, <2>2, AltersTable DEF alter, Inv, BusyTables, Sound
    <3>2. \A u \in Keys \ {t} : schema'[u] = schema[u]
      BY <2>2 DEF Alters, Inv, TypeOK
    <3>3. /\ schema'[t] # NULL
          /\ \A n \in DOMAIN schema[t] : n \in DOMAIN schema'[t] /\ schema'[t][n] = schema[t][n]
      <4>1. schema'[t] # NULL
        BY <1>7, <2>2, <3>1, AlterKeeps
      <4> QED BY <2>2, <3>1, <4>1 DEF Alters, Inv, TypeOK
    <3>4. \A q \in Procs \ {p} : call'[q] = call[q]
      BY <1>7 DEF alter, Return, Inv, TypeOK
    <3>5. call'[p].at = "idle"
      BY <1>7 DEF alter, Return, Idle, Inv, TypeOK
    <3> QED BY <3>2, <3>3, <3>4, <3>5, ReadGrows
  <2> QED BY <1>7, <2>1, <2>2, AlterCases
<1>8. CASE UNCHANGED vars
  BY <1>8 DEF vars, ReadColumnsStayTrue
<1>9. ASSUME NEW p \in Procs, Request(p) PROVE ReadColumnsStayTrue'
  BY <1>4, <1>9 DEF Request, InsertRecord, InsertRecordFlagged, UpdateRecord, GetRecord,
     QueryRecords, AddColumns
<1> QED BY <1>1, <1>2, <1>3, <1>5, <1>6, <1>7, <1>8, <1>9 DEF Next, Transaction, Continue

LEMMA ReadInit == Init => ReadColumnsStayTrue
  BY DEF Init, Idle, ReadColumnsStayTrue

\* For any calls, a definition that GetTable read stays true of the table
\* until the table is deleted: AddColumns only adds columns.
THEOREM ReadsStayTrue == Spec => []ReadColumnsStayTrue
  BY InvInit, TypeStep, RegistryInit, RegistryStep, ReadInit, ReadStep, PTL DEF Spec

-----------------------------------------------------------------------------
(* Records written under a flag variant.                                   *)

\* An id is given out once, for one record.
OneTable ==
    \A t, u \in Keys : \A i \in Ids : rows[t][i] # NULL /\ rows[u][i] # NULL => t = u

Tags ==
    /\ FlaggedUntilPromoted
    /\ \A i \in promoted : born[i] # NULL
    /\ OneTable

LEMMA RowType ==
    ASSUME Inv, NEW t \in Keys, NEW i \in Ids, rows[t][i] # NULL
    PROVE  rows[t][i] \in Row /\ rows[t][i].tag \in Contexts \cup {NoContext}
  BY DEF Inv, TypeOK, Row

\* A record has been inserted.
LEMMA RowBorn ==
    ASSUME Inv, Tags, NEW t \in Keys, NEW i \in Ids, rows[t][i] # NULL
    PROVE  born[i] # NULL
<1>1. CASE i \in promoted
  BY <1>1 DEF Tags
<1>2. CASE i \notin promoted
  <2>1. rows[t][i].tag = born[i]
    BY <1>2 DEF Tags, FlaggedUntilPromoted
  <2> QED BY <2>1, RowType, TablesAssumption
<1> QED BY <1>1, <1>2

\* Steps that insert nothing and leave the tags alone.
LEMMA TagsKept ==
    ASSUME Tags, UNCHANGED <<born, promoted>>,
           \A t \in Keys : \A i \in Ids : rows'[t][i] # NULL =>
              rows[t][i] # NULL /\ rows'[t][i].tag = rows[t][i].tag
    PROVE  Tags'
  BY DEF Tags, FlaggedUntilPromoted, OneTable

\* The cases of insert and update.
Inserts(p) ==
    LET c == call[p] IN
    /\ c.at = "write" /\ c.op = "insert"
    /\ Known(c.table, DOMAIN c.arg)
    /\ \E i \in Ids :
          /\ born[i] = NULL
          /\ rows' = [rows EXCEPT ![c.table][i] =
                [tag |-> c.ctx, vals |-> Written(c.table, Blank(c.table), c.arg)]]
          /\ born' = [born EXCEPT ![i] = c.ctx]
          /\ call' = [call EXCEPT ![p].at = "definition", ![p].id = i]
    /\ UNCHANGED <<schema, physical, events, promoted, lost>>

LEMMA InsertCases ==
    ASSUME NEW p, insert(p)
    PROVE  Inserts(p) \/ (Return(p) /\ UNCHANGED <<schema, physical, rows, born, events, promoted, lost>>)
  BY DEF insert, Inserts

LEMMA UpdateTags ==
    ASSUME Inv, NEW p \in Procs, update(p)
    PROVE  \A t \in Keys : \A i \in Ids : rows'[t][i] # NULL =>
              rows[t][i] # NULL /\ rows'[t][i].tag = rows[t][i].tag
<1> DEFINE c == call[p]
<1>1. CASE UNCHANGED rows
  BY <1>1
<1>2. CASE /\ rows[c.table][c.id] # NULL
           /\ rows' = [rows EXCEPT ![c.table][c.id] = Updated(c.table, c.id, c.arg)]
  <2>1. c.table \in Keys /\ c.id \in Ids
    BY DEF update, Inv, BusyTables, Sound
  <2>2. rows[c.table][c.id] \in Row
    BY <1>2, <2>1, RowType
  <2>3. Updated(c.table, c.id, c.arg).tag = rows[c.table][c.id].tag
    BY <2>2 DEF Updated, Row
  <2> QED BY <1>2, <2>1, <2>3 DEF Inv, TypeOK
<1> QED BY <1>1, <1>2 DEF update

LEMMA AlterTags ==
    ASSUME Inv, NEW p \in Procs, alter(p)
    PROVE  \A t \in Keys : \A i \in Ids : rows'[t][i] # NULL =>
              rows[t][i] # NULL /\ rows'[t][i].tag = rows[t][i].tag
<1> DEFINE c == call[p]
           u == c.table
<1>1. CASE UNCHANGED <<schema, physical, rows, outdated>>
  BY <1>1
<1>2. CASE Alters(p)
  <2>1. u \in Keys
    BY DEF alter, Inv, BusyTables, Sound
  <2>2. \A t \in Keys \ {u} : rows'[t] = rows[t]
    BY <1>2 DEF Alters, Inv, TypeOK
  <2>3. ASSUME NEW i \in Ids, rows'[u][i] # NULL
        PROVE  rows[u][i] # NULL /\ rows'[u][i].tag = rows[u][i].tag
    <3> DEFINE V == [n \in Names |-> IF n \in NewNames(c) THEN Default(Added(c, n))
                                                         ELSE rows[u][i].vals[n]]
    <3>1. rows'[u][i] = IF rows[u][i] = NULL THEN NULL ELSE [rows[u][i] EXCEPT !.vals = V]
      BY <1>2, <2>1 DEF Alters, Inv, TypeOK
    <3>2. rows[u][i] # NULL /\ rows'[u][i] = [rows[u][i] EXCEPT !.vals = V]
      BY <2>3, <3>1
    <3>3. rows[u][i] \in Row
      BY <2>1, <3>2, RowType
    <3> HIDE DEF V
    <3> QED BY <3>2, <3>3 DEF Row
  <2> QED BY <2>2, <2>3
<1> QED BY <1>1, <1>2, AlterCases

LEMMA PromoteTags ==
    ASSUME Inv, Tags, NEW t \in Keys, NEW x \in Contexts, PromoteByFlagCtx(t, x)
    PROVE  Tags'
<1>1. \A u \in Keys \ {t} : rows'[u] = rows[u]
  BY DEF PromoteByFlagCtx, Inv, TypeOK
<1>2. ASSUME NEW i \in Ids, rows'[t][i] # NULL
      PROVE  /\ rows[t][i] # NULL
             /\ rows'[t][i].tag = IF i \in Tagged(t, x) THEN NoContext ELSE rows[t][i].tag
  <2>1. rows'[t][i] = IF i \in Tagged(t, x) THEN [rows[t][i] EXCEPT !.tag = NoContext]
                                            ELSE rows[t][i]
    BY DEF PromoteByFlagCtx, Inv, TypeOK
  <2>2. rows[t][i] # NULL
    BY <1>2, <2>1 DEF Tagged
  <2>3. rows[t][i] \in Row
    BY <2>2, RowType
  <2> QED BY <2>1, <2>2, <2>3 DEF Row
<1>3. promoted' = promoted \cup Tagged(t, x) /\ born' = born
  BY DEF PromoteByFlagCtx
<1>4. \A i \in Tagged(t, x) : i \in Ids /\ rows[t][i] # NULL
  BY DEF Tagged
<1>5. \A i \in promoted' : born'[i] # NULL
  BY <1>3, <1>4, RowBorn DEF Tags
<1>6. OneTable'
  BY <1>1, <1>2 DEF Tags, OneTable
<1>7. FlaggedUntilPromoted'
  <2> SUFFICES ASSUME NEW u \in Keys, NEW i \in Ids, rows'[u][i] # NULL
               PROVE  rows'[u][i].tag = (IF i \in promoted' THEN NoContext ELSE born'[i])
    BY DEF FlaggedUntilPromoted
  <2>1. CASE u = t
    BY <1>2, <1>3, <2>1 DEF Tags, FlaggedUntilPromoted
  <2>2. CASE u # t
    <3>1. i \notin Tagged(t, x)
      BY <1>1, <1>4, <2>2 DEF Tags, OneTable
    <3> QED BY <1>1, <1>3, <2>2, <3>1 DEF Tags, FlaggedUntilPromoted
  <2> QED BY <2>1, <2>2
<1> QED BY <1>5, <1>6, <1>7 DEF Tags

\* A new record.
LEMMA InsertRow ==
    ASSUME Inv, NEW p \in Procs, NEW i \in Ids,
           call[p].at = "write",
           rows' = [rows EXCEPT ![call[p].table][i] =
              [tag |-> call[p].ctx,
               vals |-> Written(call[p].table, Blank(call[p].table), call[p].arg)]]
    PROVE  /\ call[p].table \in Keys
           /\ rows'[call[p].table][i].tag = call[p].ctx
           /\ \A u \in Keys : \A j \in Ids :
                 u # call[p].table \/ j # i => rows'[u][j] = rows[u][j]
<1>1. call[p].table \in Keys
  BY DEF Inv, BusyTables, Sound
<1> QED BY <1>1 DEF Inv, TypeOK

LEMMA InsertTags ==
    ASSUME Inv, Tags, NEW p \in Procs, Inserts(p)
    PROVE  Tags'
<1> DEFINE c == call[p]
           t == c.table
<1>1. PICK i \in Ids :
          /\ born[i] = NULL
          /\ rows' = [rows EXCEPT ![c.table][i] =
                [tag |-> c.ctx, vals |-> Written(c.table, Blank(c.table), c.arg)]]
          /\ born' = [born EXCEPT ![i] = c.ctx]
  BY DEF Inserts
<1>2. /\ t \in Keys
      /\ rows'[t][i].tag = c.ctx
      /\ \A u \in Keys : \A j \in Ids : u # t \/ j # i => rows'[u][j] = rows[u][j]
  BY <1>1, InsertRow DEF Inserts
<1>3. c.ctx # NULL
  BY CallFields, TablesAssumption DEF Inv
<1>4. \A u \in Keys : rows[u][i] = NULL
  BY <1>1, RowBorn
<1>5. i \notin promoted
  BY <1>1 DEF Tags
<1>6. promoted' = promoted /\ born'[i] = c.ctx /\ \A j \in Ids \ {i} : born'[j] = born[j]
  BY <1>1 DEF Inserts, Inv, TypeOK
<1>7. promoted \subseteq Ids
  BY DEF Inv, TypeOK
<1>8. OneTable'
  BY <1>2, <1>4 DEF Tags, OneTable
<1>9. FlaggedUntilPromoted'
  BY <1>2, <1>4, <1>5, <1>6 DEF Tags, FlaggedUntilPromoted
<1>10. \A j \in promoted' : born'[j] # NULL
  BY <1>5, <1>6, <1>7 DEF Tags
<1> QED BY <1>8, <1>9, <1>10 DEF Tags

LEMMA TagsStep == Inv /\ Tags /\ [Next]_vars => Tags'
<1> SUFFICES ASSUME Inv, Tags, [Next]_vars PROVE Tags'
  OBVIOUS
<1>1. CASE Transaction
  <2>1. ASSUME NEW t \in Keys, NEW l, CreateTable(t, l) PROVE Tags'
    BY <2>1, TagsKept DEF CreateTable, history
  <2>2. ASSUME NEW t \in Keys, DeleteTable(t) PROVE Tags'
    BY <2>2, TagsKept DEF DeleteTable, Inv, TypeOK
  <2>3. ASSUME NEW t \in Keys, NEW i \in Ids, DeleteRecord(t, i) PROVE Tags'
    BY <2>3, TagsKept DEF DeleteRecord, history, Inv, TypeOK
  <2>4. ASSUME NEW t \in Keys, NEW x \in Contexts, RollbackByFlagCtx(t, x) PROVE Tags'
    BY <2>4, TagsKept DEF RollbackByFlagCtx, history, Inv, TypeOK
  <2> QED BY <1>1, <2>1, <2>2, <2>3, <2>4, PromoteTags DEF Transaction
<1>2. ASSUME NEW p \in Procs, Request(p) PROVE Tags'
  <2>1. UNCHANGED <<rows, born, promoted>>
    BY <1>2 DEF Request, InsertRecord, InsertRecordFlagged, UpdateRecord, GetRecord,
       QueryRecords, AddColumns, Begin, history
  <2> QED BY <2>1, TagsKept
<1>3. ASSUME NEW p \in Procs, insert(p) PROVE Tags'
  BY <1>3, InsertCases, InsertTags, TagsKept
<1>4. ASSUME NEW p \in Procs, update(p) PROVE Tags'
  <2>1. UNCHANGED <<born, promoted>>
    BY <1>4 DEF update
  <2> QED BY <1>4, <2>1, UpdateTags, TagsKept
<1>5. ASSUME NEW p \in Procs, alter(p) PROVE Tags'
  <2>1. UNCHANGED <<born, promoted>>
    BY <1>5 DEF alter
  <2> QED BY <1>5, <2>1, AlterTags, TagsKept
<1>6. ASSUME NEW p \in Procs, loadColumns(p) \/ definition(p) \/ select(p) \/ Abandon(p) PROVE Tags'
  <2>1. UNCHANGED <<rows, born, promoted>>
    BY <1>6 DEF loadColumns, definition, select, Abandon, history
  <2> QED BY <2>1, TagsKept
<1>7. CASE UNCHANGED vars
  BY <1>7, TagsKept DEF vars
<1> QED BY <1>1, <1>2, <1>3, <1>4, <1>5, <1>6, <1>7 DEF Next, Continue

LEMMA TagsInit == Init => Tags
  BY DEF Init, Tags, FlaggedUntilPromoted, OneTable

\* Whatever calls overlap, an update or a change of the schema never moves a
\* record out of its flag variant or into one: InsertRecordFlagged sets
\* _flag_ctx and only PromoteByFlagCtx clears it.
THEOREM FlagContextKept == Spec => []FlaggedUntilPromoted
<1>1. Tags => FlaggedUntilPromoted
  BY DEF Tags
<1> QED BY <1>1, InvInit, TypeStep, RegistryInit, RegistryStep, TagsInit, TagsStep, PTL DEF Spec

-----------------------------------------------------------------------------
(* Announcements.                                                          *)

\* Records are in tables that exist.
Live == \A t \in Keys : \A i \in Ids : rows[t][i] # NULL => schema[t] # NULL

\* An insertion that has written its record i, and has not announced it yet.
Pending(c) == c.op = "insert" /\ c.id # NULL

Pend(c) ==
    /\ c.at \in {"definition", "again", "select"}
    /\ c.id \in Ids
    /\ born[c.id] = c.ctx
    /\ c.id \notin events
    /\ \A t \in Keys : rows[t][c.id] # NULL => t = c.table /\ ~(c.at = "select" /\ c.dropped)

AnnInv ==
    /\ Live
    /\ \A i \in events : born[i] = NoContext
    /\ \A p \in Procs : Pending(call[p]) => Pend(call[p])
    /\ \A p, q \in Procs : Pending(call[p]) /\ Pending(call[q]) /\ call[p].id = call[q].id => p = q
    /\ AnnouncedUnlessFlagged

LEMMA AnnDef ==
    AnnouncedUnlessFlagged <=>
       \A t \in Keys : \A i \in Ids \ lost :
          rows[t][i] # NULL /\ ~(\E p \in Procs : Pending(call[p]) /\ call[p].id = i) =>
             (i \in events) = (born[i] = NoContext)
  BY TablesAssumption DEF AnnouncedUnlessFlagged, Pending

LEMMA AnnDefNext ==
    ASSUME \A t \in Keys : \A i \in Ids \ lost' :
              rows'[t][i] # NULL /\ ~(\E p \in Procs : Pending(call'[p]) /\ call'[p].id = i) =>
                 (i \in events') = (born'[i] = NoContext)
    PROVE  AnnouncedUnlessFlagged'
  BY TablesAssumption DEF AnnouncedUnlessFlagged, Pending

\* No record appears.
Shrinks == \A t \in Keys : \A i \in Ids : rows'[t][i] # NULL => rows[t][i] # NULL

\* What call p becomes in a step that announces nothing.
Continues(p) ==
    /\ Pending(call[p]) /\ Pending(call'[p]) /\ call'[p].id = call[p].id
    /\ call'[p].ctx = call[p].ctx /\ call'[p].table = call[p].table
    /\ call'[p].at \in {"definition", "again", "select"}
    /\ call'[p].at = "select" /\ call'[p].dropped =>
          \/ call[p].at = "select" /\ call[p].dropped
          \/ \A t \in Keys : rows'[t][call[p].id] = NULL
Unconcerned(p) == ~Pending(call[p]) /\ ~Pending(call'[p])
GivesUp(p) ==
    /\ Pending(call[p]) /\ ~Pending(call'[p])
    /\ call[p].id \in lost' \/ \A t \in Keys : rows'[t][call[p].id] = NULL

LEMMA AnnKept ==
    ASSUME AnnInv, UNCHANGED <<events, born>>, lost \subseteq lost', Shrinks, Live',
           \A p \in Procs : Continues(p) \/ Unconcerned(p) \/ GivesUp(p)
    PROVE  AnnInv'
<1>1. \A i \in events' : born'[i] = NoContext
  BY DEF AnnInv
<1>2. ASSUME NEW p \in Procs, Pending(call'[p]) PROVE Pend(call[p])'
  <2>1. Continues(p)
    BY <1>2 DEF Unconcerned, GivesUp
  <2>2. Pend(call[p])
    BY <2>1 DEF Continues, AnnInv
  <2> QED BY <2>1, <2>2 DEF Continues, Pend, Shrinks
<1>3. ASSUME NEW p \in Procs, NEW q \in Procs, Pending(call'[p]), Pending(call'[q]),
             call'[p].id = call'[q].id
      PROVE  p = q
  <2>1. Continues(p) /\ Continues(q)
    BY <1>3 DEF Unconcerned, GivesUp
  <2> QED BY <1>3, <2>1 DEF Continues, AnnInv
<1>4. AnnouncedUnlessFlagged'
  <2> SUFFICES ASSUME NEW t \in Keys, NEW i \in Ids \ lost', rows'[t][i] # NULL,
                      ~(\E p \in Procs : Pending(call'[p]) /\ call'[p].id = i)
               PROVE  (i \in events') = (born'[i] = NoContext)
    BY AnnDefNext
  <2>1. ~(\E p \in Procs : Pending(call[p]) /\ call[p].id = i)
    BY DEF Continues, Unconcerned, GivesUp
  <2>2. rows[t][i] # NULL /\ i \in Ids \ lost
    BY DEF Shrinks
  <2>3. (i \in events) = (born[i] = NoContext)
    BY <2>1, <2>2, AnnDef DEF AnnInv
  <2> QED BY <2>3
<1>5. (\A p \in Procs : Pending(call[p]) => Pend(call[p]))'
  BY <1>2 DEF Pending
<1>6. (\A p, q \in Procs : Pending(call[p]) /\ Pending(call[q]) /\ call[p].id = call[q].id => p = q)'
  BY <1>3 DEF Pending
<1> QED BY <1>1, <1>4, <1>5, <1>6 DEF AnnInv

\* Steps that leave the calls alone.
LEMMA AnnSame ==
    ASSUME AnnInv, UNCHANGED <<call, events, born, lost>>, Shrinks, Live'
    PROVE  AnnInv'
<1>1. ASSUME NEW p \in Procs PROVE Continues(p) \/ Unconcerned(p)
  <2>1. call'[p] = call[p]
    OBVIOUS
  <2>2. Pending(call[p]) => Pend(call[p])
    BY DEF AnnInv
  <2> QED BY <2>1, <2>2 DEF Continues, Unconcerned, Pend
<1> QED BY <1>1, AnnKept

\* Steps of call p, which leave the others alone.
LEMMA AnnOne ==
    ASSUME AnnInv, UNCHANGED <<events, born>>, lost \subseteq lost', Shrinks, Live',
           NEW p \in Procs, \A q \in Procs \ {p} : call'[q] = call[q],
           Continues(p) \/ Unconcerned(p) \/ GivesUp(p)
    PROVE  AnnInv'
<1>1. ASSUME NEW q \in Procs, q # p PROVE Continues(q) \/ Unconcerned(q)
  <2>1. call'[q] = call[q]
    BY <1>1
  <2>2. Pending(call[q]) => Pend(call[q])
    BY DEF AnnInv
  <2> QED BY <2>1, <2>2 DEF Continues, Unconcerned, Pend
<1> QED BY <1>1, AnnKept

LEMMA ReturnOne ==
    ASSUME Inv, NEW p \in Procs, Return(p)
    PROVE  /\ ~Pending(call'[p])
           /\ \A q \in Procs \ {p} : call'[q] = call[q]
  BY DEF Return, Pending, Idle, Inv, TypeOK

LEMMA AnnTransaction ==
    ASSUME Inv, AnnInv, Transaction
    PROVE  AnnInv'
<1>1. ASSUME NEW t \in Keys, NEW l, CreateTable(t, l), Inv' PROVE AnnInv'
  <2>1. Live'
    BY <1>1 DEF CreateTable, Creatable, AnnInv, Live, Inv, TypeOK
  <2> QED BY <1>1, <2>1, AnnSame DEF CreateTable, history, Shrinks
<1>2. ASSUME NEW t \in Keys, DeleteTable(t) PROVE AnnInv'
  <2>1. Shrinks /\ Live'
    BY <1>2 DEF DeleteTable, AnnInv, Shrinks, Live, Inv, TypeOK
  <2>2. ASSUME NEW p \in Procs PROVE Continues(p) \/ Unconcerned(p)
    <3>1. call'[p] = [call[p] EXCEPT !.dropped = @ \/ call[p].table = t]
      BY <1>2 DEF DeleteTable
    <3>2. CallType(call[p])
      BY CallFields DEF Inv
    <3>3. /\ call'[p].op = call[p].op /\ call'[p].id = call[p].id /\ call'[p].at = call[p].at
          /\ call'[p].ctx = call[p].ctx /\ call'[p].table = call[p].table
          /\ call'[p].dropped = (call[p].dropped \/ call[p].table = t)
      BY <3>1, <3>2 DEF CallType, Call
    <3>4. CASE Pending(call[p])
      <4>1. Pend(call[p])
        BY <3>4 DEF AnnInv
      <4>2. call[p].table = t => \A u \in Keys : rows'[u][call[p].id] = NULL
        BY <1>2, <4>1 DEF Pend, DeleteTable, Inv, TypeOK
      <4>3. call'[p].dropped => call[p].dropped \/ call[p].table = t
        BY <3>3
      <4> QED BY <3>3, <3>4, <4>1, <4>2, <4>3 DEF Continues, Pending, Pend
    <3>5. CASE ~Pending(call[p])
      BY <3>3, <3>5 DEF Unconcerned, Pending
    <3> QED BY <3>4, <3>5
  <2> QED BY <1>2, <2>1, <2>2, AnnKept DEF DeleteTable
<1>3. ASSUME NEW t \in Keys, NEW i \in Ids, DeleteRecord(t, i) PROVE AnnInv'
  <2>1. Shrinks /\ Live'
    BY <1>3 DEF DeleteRecord, AnnInv, Shrinks, Live, Inv, TypeOK
  <2> QED BY <1>3, <2>1, AnnSame DEF DeleteRecord, history
<1>4. ASSUME NEW t \in Keys, NEW x \in Contexts, RollbackByFlagCtx(t, x) PROVE AnnInv'
  <2>1. Shrinks /\ Live'
    BY <1>4 DEF RollbackByFlagCtx, AnnInv, Shrinks, Live, Inv, TypeOK
  <2> QED BY <1>4, <2>1, AnnSame DEF RollbackByFlagCtx, history
<1>5. ASSUME NEW t \in Keys, NEW x \in Contexts, PromoteByFlagCtx(t, x) PROVE AnnInv'
  <2>1. Shrinks
    BY <1>5 DEF PromoteByFlagCtx, Shrinks, Tagged, Inv, TypeOK
  <2>2. Live'
    BY <1>5, <2>1 DEF PromoteByFlagCtx, AnnInv, Shrinks, Live
  <2> QED BY <1>5, <2>1, <2>2, AnnSame DEF PromoteByFlagCtx
<1>6. ASSUME NEW t \in Keys, NEW l \in Lists, CreateTable(t, l) PROVE AnnInv'
  BY <1>1, <1>6, CreateType
<1> QED BY <1>2, <1>3, <1>4, <1>5, <1>6 DEF Transaction

LEMMA AnnLoad ==
    ASSUME Inv, AnnInv, NEW p \in Procs, loadColumns(p)
    PROVE  AnnInv'
<1> DEFINE c == call[p]
           cols == IF schema[c.table] = NULL THEN <<>> ELSE schema[c.table]
           l == AfterColumns(c, cols)
           r == [c EXCEPT !.at = l, !.snap = cols, !.dropped = (schema[c.table] = NULL)]
<1>1. Shrinks /\ Live' /\ lost \subseteq lost' /\ UNCHANGED <<events, born, rows>>
  BY DEF loadColumns, history, AnnInv, Shrinks, Live
<1>2. CallType(c) /\ c.at \in {"columns", "again"}
  BY CallFields DEF Inv, loadColumns
<1>3. CASE Pending(c)
  <2>1. Pend(c) /\ c.at = "again"
    BY <1>2, <1>3 DEF AnnInv, Pend
  <2>2. l = "select"
    BY <2>1 DEF AfterColumns
  <2>3. call' = [call EXCEPT ![p] = r]
    BY <2>2, LoadCases
  <2>4. /\ r.op = c.op /\ r.id = c.id /\ r.ctx = c.ctx /\ r.table = c.table
        /\ r.at = "select" /\ r.dropped = (schema[c.table] = NULL)
    BY <1>2, <2>2 DEF CallType, Call
  <2>5. call'[p] = r /\ \A q \in Procs \ {p} : call'[q] = call[q]
    BY <2>3 DEF Inv, TypeOK
  <2>6. schema[c.table] = NULL => \A t \in Keys : rows'[t][c.id] = NULL
    BY <1>1, <2>1 DEF Pend, AnnInv, Live
  <2>7. Continues(p)
    BY <1>3, <2>4, <2>5, <2>6 DEF Continues, Pending
  <2> QED BY <1>1, <2>5, <2>7, AnnOne
<1>4. CASE ~Pending(c)
  <2>1. call'[p] = (IF l = "idle" THEN Idle ELSE r) /\ \A q \in Procs \ {p} : call'[q] = call[q]
    BY LoadCases DEF Inv, TypeOK
  <2>2. r.op = c.op /\ r.id = c.id
    BY <1>2 DEF CallType, Call
  <2>3. Unconcerned(p)
    BY <1>4, <2>1, <2>2 DEF Unconcerned, Pending, Idle
  <2> QED BY <1>1, <2>1, <2>3, AnnOne
<1> QED BY <1>3, <1>4

LEMMA AnnInsert ==
    ASSUME Inv, RegistryMatchesTable, Tags, AnnInv, NEW p \in Procs, Inserts(p)
    PROVE  AnnInv'
<1> DEFINE c == call[p]
           t == c.table
<1>1. PICK i \in Ids :
          /\ born[i] = NULL
          /\ rows' = [rows EXCEPT ![t][i] =
                [tag |-> c.ctx, vals |-> Written(c.table, Blank(c.table), c.arg)]]
          /\ born' = [born EXCEPT ![i] = c.ctx]
          /\ call' = [call EXCEPT ![p].at = "definition", ![p].id = i]
  BY DEF Inserts
<1>2. /\ t \in Keys
      /\ \A u \in Keys : \A j \in Ids : u # t \/ j # i => rows'[u][j] = rows[u][j]
  BY <1>1, InsertRow DEF Inserts
<1>3. UNCHANGED <<schema, events, lost>> /\ c.op = "insert" /\ c.at = "write"
  BY DEF Inserts
<1>4. born'[i] = c.ctx /\ \A j \in Ids \ {i} : born'[j] = born[j]
  BY <1>1 DEF Inv, TypeOK
<1>5. \A u \in Keys : rows[u][i] = NULL
  BY <1>1, RowBorn
<1>6. schema[t] # NULL
  BY <1>2 DEF Inserts, Known, RegistryMatchesTable
<1>7. i \notin events
  BY <1>1, TablesAssumption DEF AnnInv
<1>8. \A q \in Procs : Pending(call[q]) => call[q].id # i /\ call[q].id \in Ids
  <2> SUFFICES ASSUME NEW q \in Procs, Pending(call[q]) PROVE call[q].id # i /\ call[q].id \in Ids
    OBVIOUS
  <2>1. Pend(call[q])
    BY DEF AnnInv
  <2>2. born[call[q].id] # NULL
    BY <2>1, CallFields, TablesAssumption DEF Inv, Pend
  <2> QED BY <1>1, <2>1, <2>2 DEF Pend
<1>9. /\ call'[p].op = c.op /\ call'[p].id = i /\ call'[p].ctx = c.ctx
      /\ call'[p].table = t /\ call'[p].at = "definition"
  <2>1. call'[p] = [c EXCEPT !.at = "definition", !.id = i]
    BY <1>1 DEF Inv, TypeOK
  <2>2. CallType(c)
    BY CallFields DEF Inv
  <2> QED BY <2>1, <2>2 DEF CallType, Call
<1>10. \A q \in Procs \ {p} : call'[q] = call[q]
  BY <1>1 DEF Inv, TypeOK
<1>11. Live'
  BY <1>2, <1>3, <1>6 DEF AnnInv, Live
<1>12. \A j \in events' : born'[j] = NoContext
  BY <1>3, <1>4, <1>7 DEF AnnInv, Inv, TypeOK
<1>13. ASSUME NEW q \in Procs, Pending(call'[q]) PROVE Pend(call[q])'
  <2>1. CASE q = p
    BY <1>2, <1>3, <1>4, <1>5, <1>7, <1>9, <2>1 DEF Pend
  <2>2. CASE q # p
    <3>1. call'[q] = call[q] /\ Pending(call[q]) /\ Pend(call[q])
      BY <1>10, <1>13, <2>2 DEF AnnInv
    <3>2. call[q].id # i /\ call[q].id \in Ids
      BY <1>8, <3>1
    <3> QED BY <1>2, <1>3, <1>4, <3>1, <3>2 DEF Pend
  <2> QED BY <2>1, <2>2
<1>14. ASSUME NEW q \in Procs, NEW o \in Procs, Pending(call'[q]), Pending(call'[o]),
              call'[q].id = call'[o].id
       PROVE  q = o
  BY <1>8, <1>9, <1>10, <1>14 DEF AnnInv
<1>15. AnnouncedUnlessFlagged'
  <2> SUFFICES ASSUME NEW u \in Keys, NEW j \in Ids \ lost', rows'[u][j] # NULL,
                      ~(\E q \in Procs : Pending(call'[q]) /\ call'[q].id = j)
               PROVE  (j \in events') = (born'[j] = NoContext)
    BY AnnDefNext
  <2>1. j # i
    BY <1>3, <1>9, TablesAssumption DEF Pending
  <2>2. rows[u][j] # NULL
    BY <1>2, <2>1
  <2>3. ~(\E q \in Procs : Pending(call[q]) /\ call[q].id = j)
    <3>1. ~Pending(c)
      BY <1>3 DEF AnnInv, Pend
    <3> QED BY <1>10, <3>1
  <2>4. (j \in events) = (born[j] = NoContext)
    BY <1>3, <2>2, <2>3, AnnDef DEF AnnInv
  <2> QED BY <1>3, <1>4, <2>1, <2>4
<1>16. (\A q \in Procs : Pending(call[q]) => Pend(call[q]))'
  BY <1>13 DEF Pending
<1>17. (\A q, o \in Procs : Pending(call[q]) /\ Pending(call[o]) /\ call[q].id = call[o].id => q = o)'
  BY <1>14 DEF Pending
<1> QED BY <1>11, <1>12, <1>15, <1>16, <1>17 DEF AnnInv

\* The SELECT after an insertion finds the record, if it still is in a table.
LEMMA SelectFinds ==
    ASSUME Inv, RegistryMatchesTable, ReadColumnsStayTrue, AnnInv,
           NEW p \in Procs, call[p].at = "select", Pending(call[p]),
           NEW t \in Keys, rows[t][call[p].id] # NULL
    PROVE  t = call[p].table /\ Known(call[p].table, DOMAIN call[p].snap)
<1> DEFINE c == call[p]
<1>1. t = c.table /\ ~c.dropped
  BY DEF AnnInv, Pend
<1>2. schema[t] # NULL /\ DOMAIN c.snap \subseteq DOMAIN schema[t]
  BY <1>1 DEF ReadColumnsStayTrue
<1>3. physical[t] = [n \in DOMAIN schema[t] |-> colFragment(schema[t][n])]
  BY <1>2 DEF RegistryMatchesTable
<1>4. physical[t] # NULL
  <2>1. PICK D \in SUBSET Names : schema[t] \in [D -> Column]
    BY <1>2 DEF Inv, TypeOK, Partial
  <2>2. \A n \in D : colFragment(schema[t][n]) \in Physical
    BY <2>1, FragmentType DEF Column
  <2>3. physical[t] \in [D -> Physical]
    <3>1. physical[t] = [n \in D |-> colFragment(schema[t][n])]
      BY <1>3, <2>1
    <3> QED BY <2>2, <3>1
  <2>4. Partial(physical[t], Physical)
    BY <2>3 DEF Partial
  <2> QED BY <2>4, TablesAssumption
<1> QED BY <1>1, <1>2, <1>3, <1>4 DEF Known

LEMMA AnnSelect ==
    ASSUME Inv, RegistryMatchesTable, ReadColumnsStayTrue, Tags, AnnInv,
           NEW p \in Procs, select(p)
    PROVE  AnnInv'
<1> DEFINE c == call[p]
           found == Known(c.table, DOMAIN c.snap) /\ c.id # NULL /\ rows[c.table][c.id] # NULL
<1>1. /\ c.at = "select"
      /\ events' = IF found /\ Announces(c) THEN events \cup {c.id} ELSE events
      /\ UNCHANGED <<schema, rows, born, lost>>
  BY DEF select, history
<1>2. ~Pending(call'[p]) /\ \A q \in Procs \ {p} : call'[q] = call[q]
  BY ReturnOne DEF select
<1>3. Shrinks /\ Live'
  BY <1>1 DEF Shrinks, AnnInv, Live
<1>4. CASE ~Pending(c)
  <2>1. events' = events
    BY <1>1, <1>4 DEF Announces, Pending
  <2> QED BY <1>1, <1>2, <1>3, <1>4, <2>1, AnnOne DEF Unconcerned
<1>5. CASE Pending(c)
  <2>1. Pend(c)
    BY <1>5 DEF AnnInv
  <2>2. events' \subseteq events \cup {c.id} /\ events \subseteq events'
    BY <1>1
  <2>3. \A i \in events' : born'[i] = NoContext
    BY <1>1, <2>1 DEF AnnInv, Pend, Announces
  <2>4. ASSUME NEW q \in Procs, Pending(call'[q]) PROVE q # p /\ call'[q] = call[q] /\ Pend(call[q])'
    <3>1. q # p /\ call'[q] = call[q]
      BY <1>2, <2>4
    <3>2. Pend(call[q]) /\ call[q].id # c.id
      BY <1>5, <2>4, <3>1 DEF AnnInv
    <3> QED BY <1>1, <2>2, <3>1, <3>2 DEF Pend
  <2>5. (\A q \in Procs : Pending(call[q]) => Pend(call[q]))'
    BY <2>4 DEF Pending
  <2>6. (\A q, o \in Procs : Pending(call[q]) /\ Pending(call[o]) /\ call[q].id = call[o].id => q = o)'
    <3> SUFFICES ASSUME NEW q \in Procs, NEW o \in Procs, Pending(call'[q]), Pending(call'[o]),
                        call'[q].id = call'[o].id
                 PROVE  q = o
      BY DEF Pending
    <3>1. call'[q] = call[q] /\ call'[o] = call[o]
      BY <2>4
    <3> QED BY <3>1 DEF AnnInv
  <2>7. AnnouncedUnlessFlagged'
    <3> SUFFICES ASSUME NEW t \in Keys, NEW i \in Ids \ lost', rows'[t][i] # NULL,
                        ~(\E q \in Procs : Pending(call'[q]) /\ call'[q].id = i)
                 PROVE  (i \in events') = (born'[i] = NoContext)
      BY AnnDefNext
    <3>1. CASE i = c.id
      <4>1. found
        BY <1>1, <1>5, <3>1, SelectFinds DEF Pending
      <4>2. c.id \in events' <=> c.ctx = NoContext
        BY <1>1, <1>5, <2>1, <4>1 DEF Announces, Pending, Pend
      <4> QED BY <1>1, <2>1, <3>1, <4>2 DEF Pend
    <3>2. CASE i # c.id
      <4>1. ~(\E q \in Procs : Pending(call[q]) /\ call[q].id = i)
        BY <1>2, <3>2
      <4>2. (i \in events) = (born[i] = NoContext)
        BY <1>1, <4>1, AnnDef DEF AnnInv
      <4>3. i \in events' <=> i \in events
        BY <2>2, <3>2
      <4> QED BY <1>1, <4>2, <4>3
    <3> QED BY <3>1, <3>2
  <2> QED BY <1>3, <2>3, <2>5, <2>6, <2>7 DEF AnnInv
<1> QED BY <1>4, <1>5

LEMMA AnnStep ==
    Inv /\ RegistryMatchesTable /\ ReadColumnsStayTrue /\ Tags /\ AnnInv /\ [Next]_vars => AnnInv'
<1> SUFFICES ASSUME Inv, RegistryMatchesTable, ReadColumnsStayTrue, Tags, AnnInv, [Next]_vars
             PROVE  AnnInv'
  OBVIOUS
<1>1. ASSUME UNCHANGED <<schema, rows>> PROVE Shrinks /\ Live'
  BY <1>1 DEF Shrinks, AnnInv, Live
<1>2. ASSUME NEW p \in Procs, NEW o, NEW t, NEW i, NEW x, NEW d, NEW l, Begin(p, o, t, i, x, d, l),
             o = "insert" => i = NULL
      PROVE  AnnInv'
  <2>1. call'[p].op = o /\ call'[p].id = i /\ \A q \in Procs \ {p} : call'[q] = call[q]
    BY <1>2 DEF Begin, Idle, Inv, TypeOK
  <2>2. Unconcerned(p)
    BY <1>2, <2>1 DEF Begin, Idle, Unconcerned, Pending
  <2> QED BY <1>1, <1>2, <2>1, <2>2, AnnOne DEF Begin, history
<1>3. ASSUME NEW p \in Procs, Request(p) PROVE AnnInv'
  BY <1>2, <1>3 DEF Request, InsertRecord, InsertRecordFlagged, UpdateRecord, GetRecord,
     QueryRecords, AddColumns
<1>4. ASSUME NEW p \in Procs, call[p].at = "write", Return(p) PROVE Unconcerned(p)
  BY <1>4, ReturnOne DEF Unconcerned, AnnInv, Pend
<1>5. ASSUME NEW p \in Procs, insert(p) PROVE AnnInv'
  <2>1. CASE Inserts(p)
    BY <2>1, AnnInsert
  <2>2. CASE Return(p) /\ UNCHANGED <<schema, physical, rows, born, events, promoted, lost>>
    BY <1>1, <1>4, <1>5, <2>2, ReturnOne, AnnOne DEF insert
  <2> QED BY <1>5, <2>1, <2>2, InsertCases
<1>6. ASSUME NEW p \in Procs, update(p) PROVE AnnInv'
  <2>1. UNCHANGED <<schema, events, born, lost>> /\ call[p].op = "update" /\ call[p].at = "write"
    BY <1>6 DEF update
  <2>2. Shrinks
    BY <1>6, UpdateTags DEF Shrinks
  <2>3. Live'
    BY <2>1, <2>2 DEF Shrinks, AnnInv, Live
  <2>4. CASE Return(p)
    BY <1>4, <2>1, <2>2, <2>3, <2>4, ReturnOne, AnnOne
  <2>5. CASE Goto(p, "definition")
    <3>1. call'[p] = [call[p] EXCEPT !.at = "definition"] /\ \A q \in Procs \ {p} : call'[q] = call[q]
      BY <2>5 DEF Goto, Inv, TypeOK
    <3>2. CallType(call[p])
      BY CallFields DEF Inv
    <3>3. call'[p].op = "update"
      BY <2>1, <3>1, <3>2 DEF CallType, Call
    <3> QED BY <2>1, <2>2, <2>3, <3>1, <3>3, AnnOne DEF Unconcerned, Pending
  <2> QED BY <1>6, <2>4, <2>5 DEF update
<1>7. ASSUME NEW p \in Procs, alter(p) PROVE AnnInv'
  <2>1. UNCHANGED <<events, born, lost>> /\ call[p].at = "write" /\ Return(p)
    BY <1>7 DEF alter
  <2>2. Shrinks
    BY <1>7, AlterTags DEF Shrinks
  <2>3. \A t \in Keys : schema[t] # NULL => schema'[t] # NULL
    BY <1>7, AlterCases, AlterKeeps DEF Alters, Inv, TypeOK
  <2>4. Live'
    BY <2>2, <2>3 DEF Shrinks, AnnInv, Live
  <2> QED BY <1>4, <2>1, <2>2, <2>4, ReturnOne, AnnOne
<1>8. ASSUME NEW p \in Procs, definition(p) PROVE AnnInv'
  <2>1. UNCHANGED <<schema, rows, events, born, lost>> /\ call[p].at = "definition"
    BY <1>8 DEF definition, history
  <2>2. CASE schema[call[p].table] = NULL
    <3>1. Return(p)
      BY <1>8, <2>2 DEF definition
    <3>2. Pending(call[p]) => \A t \in Keys : rows'[t][call[p].id] = NULL
      BY <2>1, <2>2 DEF AnnInv, Pend, Live
    <3> QED BY <1>1, <2>1, <3>1, <3>2, ReturnOne, AnnOne DEF GivesUp, Unconcerned
  <2>3. CASE schema[call[p].table] # NULL
    <3>1. call'[p] = [call[p] EXCEPT !.at = "again"] /\ \A q \in Procs \ {p} : call'[q] = call[q]
      BY <1>8, <2>3 DEF definition, Goto, Inv, TypeOK
    <3>2. CallType(call[p])
      BY CallFields DEF Inv
    <3>3. /\ call'[p].op = call[p].op /\ call'[p].id = call[p].id /\ call'[p].ctx = call[p].ctx
          /\ call'[p].table = call[p].table /\ call'[p].at = "again"
      BY <3>1, <3>2 DEF CallType, Call
    <3>4. Continues(p) \/ Unconcerned(p)
      BY <3>3 DEF Continues, Unconcerned, Pending
    <3> QED BY <1>1, <2>1, <3>1, <3>4, AnnOne
  <2> QED BY <2>2, <2>3
<1>9. ASSUME NEW p \in Procs, Abandon(p) PROVE AnnInv'
  <2>1. UNCHANGED <<schema, rows, events, born>> /\ Return(p) /\ lost \subseteq lost'
    BY <1>9 DEF Abandon
  <2>2. Pending(call[p]) => call[p].id \in lost'
    BY <1>9 DEF Abandon, Pending
  <2> QED BY <1>1, <2>1, <2>2, ReturnOne, AnnOne DEF GivesUp, Unconcerned
<1>10. CASE UNCHANGED vars
  BY <1>1, <1>10, AnnSame DEF vars
<1> QED BY <1>3, <1>5, <1>6, <1>7, <1>8, <1>9, <1>10, AnnTransaction, AnnLoad, AnnSelect DEF Next, Continue

LEMMA AnnInit == Init => AnnInv
  BY DEF Init, Idle, AnnInv, Live, Pending, AnnouncedUnlessFlagged

\* Whatever calls overlap, a record in a table was announced exactly if it was
\* inserted outside every flag variant, once its insertion is over and unless
\* that was cut short: InsertRecord publishes after it has read the record.
THEOREM Announced == Spec => []AnnouncedUnlessFlagged
<1>1. AnnInv => AnnouncedUnlessFlagged
  BY DEF AnnInv
<1> QED BY <1>1, InvInit, TypeStep, RegistryInit, RegistryStep, ReadInit, ReadStep,
           TagsInit, TagsStep, AnnInit, AnnStep, PTL DEF Spec

-----------------------------------------------------------------------------
(* Records and the schema.                                                 *)

\* A call about to write has checked its fields against the columns it read.
Checked(c) ==
    c.at = "write" => /\ c.op = "insert" => buildInsertData(c.snap, c.arg)
                      /\ c.op = "update" => buildSetClauses(c.snap, c.arg)
CheckedCalls == \A p \in Procs : Checked(call[p])

LEMMA CheckedOne ==
    ASSUME Inv, CheckedCalls, NEW p \in Procs, NEW c, Checked(c),
           call' = [call EXCEPT ![p] = c]
    PROVE  CheckedCalls'
<1> SUFFICES ASSUME NEW q \in Procs PROVE Checked(call'[q])
  BY DEF CheckedCalls, Checked
<1>1. call'[q] = IF q = p THEN c ELSE call[q]
  BY DEF Inv, TypeOK
<1> QED BY <1>1 DEF CheckedCalls

LEMMA CheckedIdle == Checked(Idle)
  BY DEF Checked, Idle

LEMMA CheckedGoto ==
    ASSUME Inv, CheckedCalls, NEW p \in Procs, NEW l \in {"definition", "again"},
           \/ Goto(p, l)
           \/ \E i \in Ids : call' = [call EXCEPT ![p].at = l, ![p].id = i]
    PROVE  CheckedCalls'
<1>1. CallType(call[p])
  BY CallFields DEF Inv
<1>2. CASE Goto(p, l)
  <2>1. call' = [call EXCEPT ![p] = [call[p] EXCEPT !.at = l]]
    BY <1>2 DEF Goto
  <2>2. Checked([call[p] EXCEPT !.at = l])
    BY <1>1 DEF Call, CallType, Checked
  <2> QED BY <2>1, <2>2, CheckedOne
<1>3. ASSUME NEW i \in Ids, call' = [call EXCEPT ![p].at = l, ![p].id = i]
      PROVE  CheckedCalls'
  <2>1. call' = [call EXCEPT ![p] = [call[p] EXCEPT !.at = l, !.id = i]]
    BY <1>3 DEF Inv, TypeOK
  <2>2. Checked([call[p] EXCEPT !.at = l, !.id = i])
    BY <1>1 DEF Call, CallType, Checked
  <2> QED BY <2>1, <2>2, CheckedOne
<1> QED BY <1>2, <1>3

LEMMA CheckedLoad ==
    ASSUME Inv, CheckedCalls, NEW p \in Procs, loadColumns(p)
    PROVE  CheckedCalls'
<1> DEFINE c == call[p]
           cols == IF schema[c.table] = NULL THEN <<>> ELSE schema[c.table]
           l == AfterColumns(c, cols)
           r == [c EXCEPT !.at = l, !.snap = cols, !.dropped = (schema[c.table] = NULL)]
<1>1. CASE l = "idle"
  BY <1>1, LoadCases, CheckedOne, CheckedIdle
<1>2. CASE l # "idle"
  <2>1. call' = [call EXCEPT ![p] = r] /\ Sound(c)
    BY <1>2, LoadCases
  <2>2. CallType(c)
    BY CallFields DEF Inv
  <2>3. r.at = l /\ r.snap = cols /\ r.op = c.op /\ r.arg = c.arg
    BY <2>2 DEF CallType, Call
  <2>4. l = "write" /\ c.op = "insert" => buildInsertData(cols, c.arg)
    BY DEF AfterColumns
  <2>5. l = "write" /\ c.op = "update" => buildSetClauses(cols, c.arg)
    BY DEF AfterColumns
  <2> HIDE DEF r, l, cols
  <2>6. Checked(r)
    BY <2>3, <2>4, <2>5 DEF Checked
  <2> QED BY <2>1, <2>6, CheckedOne
<1> QED BY <1>1, <1>2

LEMMA CheckedStep == Inv /\ CheckedCalls /\ [Next]_vars => CheckedCalls'
<1> SUFFICES ASSUME Inv, CheckedCalls, [Next]_vars PROVE CheckedCalls'
  OBVIOUS
<1>1. ASSUME NEW p \in Procs, Return(p) PROVE CheckedCalls'
  BY <1>1, CheckedOne, CheckedIdle DEF Return
<1>2. ASSUME UNCHANGED call PROVE CheckedCalls'
  BY <1>2 DEF CheckedCalls, Checked
<1>3. ASSUME NEW t \in Keys, DeleteTable(t) PROVE CheckedCalls'
  <2> SUFFICES ASSUME NEW p \in Procs PROVE Checked(call'[p])
    BY DEF CheckedCalls, Checked
  <2>1. call'[p] = [call[p] EXCEPT !.dropped = @ \/ call[p].table = t]
    BY <1>3 DEF DeleteTable
  <2>2. CallType(call[p])
    BY CallFields DEF Inv
  <2>3. /\ call'[p].at = call[p].at /\ call'[p].op = call[p].op
        /\ call'[p].snap = call[p].snap /\ call'[p].arg = call[p].arg
    BY <2>1, <2>2 DEF CallType, Call
  <2> QED BY <2>3 DEF CheckedCalls, Checked
<1>4. CASE Transaction
  BY <1>2, <1>3, <1>4 DEF Transaction, CreateTable, DeleteRecord, RollbackByFlagCtx,
     PromoteByFlagCtx
<1>5. ASSUME NEW p \in Procs, NEW o, NEW t, NEW i, NEW x, NEW d, NEW l, Begin(p, o, t, i, x, d, l)
      PROVE  CheckedCalls'
  BY <1>5, CheckedOne DEF Begin, Idle, Checked
<1>6. ASSUME NEW p \in Procs, Request(p) PROVE CheckedCalls'
  BY <1>5, <1>6 DEF Request, InsertRecord, InsertRecordFlagged, UpdateRecord, GetRecord,
     QueryRecords, AddColumns
<1>7. ASSUME NEW p \in Procs, insert(p) PROVE CheckedCalls'
  BY <1>1, <1>7, CheckedGoto DEF insert
<1>8. ASSUME NEW p \in Procs, update(p) PROVE CheckedCalls'
  BY <1>1, <1>8, CheckedGoto DEF update
<1>9. ASSUME NEW p \in Procs, definition(p) PROVE CheckedCalls'
  BY <1>1, <1>9, CheckedGoto DEF definition
<1>10. ASSUME NEW p \in Procs, alter(p) \/ select(p) \/ Abandon(p) PROVE CheckedCalls'
  BY <1>1, <1>10 DEF alter, select, Abandon
<1>11. CASE UNCHANGED vars
  BY <1>2, <1>11 DEF vars
<1> QED BY <1>4, <1>6, <1>7, <1>8, <1>9, <1>10, <1>11, CheckedLoad DEF Next, Continue

\* The values v fit the columns of table t.
RowFits(t, v) == \A n \in DOMAIN schema[t] : validateValue(schema[t][n], v[n])
Fit(t, i) == rows[t][i] # NULL => schema[t] # NULL /\ RowFits(t, rows[t][i].vals)

LEMMA FitDef == RowsFitSchema <=> \A t \in Keys : \A i \in Ids \ unchecked : Fit(t, i)
  BY DEF RowsFitSchema, Fit, RowFits, validateValue

LEMMA FitDefNext ==
    (\A t \in Keys : \A i \in Ids \ unchecked' : Fit(t, i)') => RowsFitSchema'
  BY DEF RowsFitSchema, Fit, RowFits, validateValue

\* SQLite stores a valid value as one that is valid.
LEMMA StoredFits ==
    ASSUME NEW c, c.type \in Types, NEW v, validateValue(c, v)
    PROVE  validateValue(c, Stored(colFragment(c), v))
  BY DEF validateValue, Stored, colFragment, Types

\* So is a default, where the column or NOT NULL asks for a value.
LEMMA DefaultFits ==
    ASSUME NEW c, c.kind \in Kinds,
           Default(colFragment(c)) = "null" => colFragment(c).kind = "nullable"
    PROVE  validateValue(c, Default(colFragment(c)))
<1>1. CASE colFragment(c).kind = "default"
  BY <1>1 DEF validateValue, Default, colFragment
<1>2. CASE colFragment(c).kind # "default"
  BY <1>2 DEF validateValue, Default, colFragment
<1> QED BY <1>1, <1>2

\* What a call that read the columns of its table writes there: its own fields
\* fit, whatever the others hold.
LEMMA FieldsFit ==
    ASSUME Inv, RegistryMatchesTable, ReadColumnsStayTrue, CheckedCalls, NEW p \in Procs,
           call[p].at = "write", call[p].op \in {"insert", "update"}, ~call[p].dropped,
           NEW v, NEW n \in DOMAIN call[p].arg
    PROVE  /\ n \in Names /\ n \in DOMAIN schema[call[p].table]
           /\ validateValue(schema[call[p].table][n], Written(call[p].table, v, call[p].arg)[n])
<1> DEFINE c == call[p]
           t == c.table
<1>1. n \in DOMAIN c.snap /\ validateValue(c.snap[n], c.arg[n])
  BY DEF CheckedCalls, Checked, buildInsertData, buildSetClauses
<1>2. schema[t] # NULL /\ n \in DOMAIN schema[t] /\ schema[t][n] = c.snap[n]
  BY <1>1 DEF ReadColumnsStayTrue
<1>3. t \in Keys
  BY DEF Inv, BusyTables, Sound
<1>4. n \in Names /\ schema[t][n].type \in Types
  BY <1>2, <1>3 DEF Inv, TypeOK, Partial, Column
<1>5. physical[t][n] = colFragment(schema[t][n])
  BY <1>2, <1>3 DEF RegistryMatchesTable
<1>6. Written(t, v, c.arg)[n] = Stored(physical[t][n], c.arg[n])
  BY <1>4 DEF Written
<1> QED BY <1>1, <1>2, <1>4, <1>5, <1>6, StoredFits

LEMMA InsertFits ==
    ASSUME Inv, RegistryMatchesTable, ReadColumnsStayTrue, CheckedCalls, NEW p \in Procs,
           call[p].at = "write", call[p].op = "insert", ~call[p].dropped,
           Known(call[p].table, DOMAIN call[p].arg),
           NotNull(call[p].table, Written(call[p].table, Blank(call[p].table), call[p].arg))
    PROVE  RowFits(call[p].table, Written(call[p].table, Blank(call[p].table), call[p].arg))
<1> DEFINE c == call[p]
           t == c.table
           w == Written(t, Blank(t), c.arg)
<1> SUFFICES ASSUME NEW n \in DOMAIN schema[t] PROVE validateValue(schema[t][n], w[n])
  BY DEF RowFits
<1>1. t \in Keys
  BY DEF Inv, BusyTables, Sound
<1>2. schema[t] # NULL
  BY DEF ReadColumnsStayTrue
<1>3. n \in Names /\ schema[t][n].kind \in Kinds
  BY <1>1, <1>2 DEF Inv, TypeOK, Partial, Column
<1>4. n \in DOMAIN physical[t] /\ physical[t][n] = colFragment(schema[t][n])
  BY <1>1, <1>2 DEF RegistryMatchesTable
<1>5. CASE n \in DOMAIN c.arg
  BY <1>5, FieldsFit
<1>6. CASE n \notin DOMAIN c.arg
  <2>1. w[n] = Default(physical[t][n])
    BY <1>3, <1>4, <1>6 DEF Written, Blank
  <2>2. w[n] = "null" => physical[t][n].kind = "nullable"
    BY <1>4 DEF NotNull
  <2> HIDE DEF w
  <2> QED BY <1>3, <1>4, <2>1, <2>2, DefaultFits
<1> QED BY <1>5, <1>6

LEMMA FitInsert ==
    ASSUME Inv, RegistryMatchesTable, ReadColumnsStayTrue, CheckedCalls, RowsFitSchema,
           NEW p \in Procs, insert(p)
    PROVE  RowsFitSchema'
<1> DEFINE c == call[p]
           t == c.table
           w == Written(t, Blank(t), c.arg)
<1> SUFFICES ASSUME NEW u \in Keys, NEW j \in Ids \ unchecked' PROVE Fit(u, j)'
  BY FitDefNext
<1>1. schema' = schema /\ c.at = "write" /\ c.op = "insert"
  BY DEF insert
<1>2. CASE UNCHANGED <<rows, unchecked>>
  BY <1>1, <1>2, FitDef DEF Fit, RowFits
<1>3. ASSUME NEW i \in Ids, Known(t, DOMAIN c.arg), NotNull(t, w),
             rows' = [rows EXCEPT ![t][i] = [tag |-> c.ctx, vals |-> w]],
             unchecked' = IF c.dropped THEN unchecked \cup {i} ELSE unchecked
      PROVE  Fit(u, j)'
  <2>1. t \in Keys
    BY <1>1 DEF Inv, BusyTables, Sound
  <2>2. CASE u = t /\ j = i
    <3>1. ~c.dropped
      BY <1>3, <2>2
    <3>2. schema[t] # NULL
      BY <1>1, <3>1 DEF ReadColumnsStayTrue
    <3>3. RowFits(t, w)
      BY <1>1, <1>3, <3>1, InsertFits
    <3>4. rows'[u][j].vals = w
      <4> HIDE DEF w
      <4> QED BY <1>3, <2>1, <2>2 DEF Inv, TypeOK
    <3> QED BY <1>1, <2>2, <3>2, <3>3, <3>4 DEF Fit, RowFits
  <2>3. CASE u # t \/ j # i
    <3>1. rows'[u][j] = rows[u][j]
      BY <1>3, <2>1, <2>3 DEF Inv, TypeOK
    <3>2. Fit(u, j)
      BY <1>3, FitDef
    <3> QED BY <1>1, <3>1, <3>2 DEF Fit, RowFits
  <2> QED BY <2>2, <2>3
<1> QED BY <1>2, <1>3 DEF insert

LEMMA FitUpdate ==
    ASSUME Inv, RegistryMatchesTable, ReadColumnsStayTrue, CheckedCalls, RowsFitSchema,
           NEW p \in Procs, update(p)
    PROVE  RowsFitSchema'
<1> DEFINE c == call[p]
           t == c.table
           w == Updated(t, c.id, c.arg)
<1> SUFFICES ASSUME NEW u \in Keys, NEW j \in Ids \ unchecked' PROVE Fit(u, j)'
  BY FitDefNext
<1>1. schema' = schema /\ c.at = "write" /\ c.op = "update"
  BY DEF update
<1>2. CASE UNCHANGED <<rows, unchecked>>
  BY <1>1, <1>2, FitDef DEF Fit, RowFits
<1>3. CASE /\ rows[t][c.id] # NULL
           /\ rows' = [rows EXCEPT ![t][c.id] = w]
           /\ unchecked' = IF c.dropped THEN unchecked \cup {c.id} ELSE unchecked
  <2>1. t \in Keys /\ c.id \in Ids
    BY <1>1 DEF Inv, BusyTables, Sound
  <2>2. CASE u = t /\ j = c.id
    <3>1. ~c.dropped /\ j \notin unchecked
      BY <1>3, <2>2
    <3>2. schema[t] # NULL /\ RowFits(t, rows[t][j].vals)
      BY <1>3, <2>2, <3>1, FitDef DEF Fit
    <3>3. w.vals = Written(t, rows[t][j].vals, c.arg)
      BY <1>3, <2>1, <2>2, RowType DEF Updated, Row
    <3>4. ASSUME NEW n \in DOMAIN schema[t] PROVE validateValue(schema[t][n], w.vals[n])
      <4>1. CASE n \in DOMAIN c.arg
        BY <1>1, <3>1, <3>3, <4>1, FieldsFit
      <4>2. CASE n \notin DOMAIN c.arg
        <5>1. n \in Names
          BY <2>1, <3>2 DEF Inv, TypeOK, Partial
        <5>2. w.vals[n] = rows[t][j].vals[n]
          BY <3>3, <4>2, <5>1 DEF Written
        <5> QED BY <3>2, <5>2 DEF RowFits
      <4> QED BY <4>1, <4>2
    <3>5. rows'[u][j] = w
      BY <1>3, <2>1, <2>2 DEF Inv, TypeOK
    <3> HIDE DEF w
    <3> QED BY <1>1, <2>2, <3>2, <3>4, <3>5 DEF Fit, RowFits
  <2>3. CASE u # t \/ j # c.id
    <3>1. rows'[u][j] = rows[u][j]
      BY <1>3, <2>1, <2>3 DEF Inv, TypeOK
    <3>2. Fit(u, j)
      BY <1>3, FitDef
    <3> QED BY <1>1, <3>1, <3>2 DEF Fit, RowFits
  <2> QED BY <2>2, <2>3
<1> QED BY <1>2, <1>3 DEF update

\* What AddColumns gives a record for a new column is valid there.
LEMMA AddedFits ==
    ASSUME TypeOK, NEW p \in Procs, Alters(p), NEW n \in NewNames(call[p])
    PROVE  /\ n \notin DOMAIN schema[call[p].table]
           /\ (\E r \in Ids : rows[call[p].table][r] # NULL) =>
                validateValue(Added(call[p], n), Default(Added(call[p], n)))
<1> DEFINE c == call[p]
<1>1. PICK i \in Fresh(c.list, c.snap) : n = c.list[i].name
  BY DEF NewNames
<1>2. At(c.list, n) \in DOMAIN c.list /\ c.list[At(c.list, n)].name = n
  BY <1>1 DEF At, Fresh
<1>3. At(c.list, n) \in Fresh(c.list, c.snap)
  BY <1>1, <1>2 DEF Fresh
<1>4. /\ n \notin DOMAIN schema[c.table] /\ Added(c, n).kind # "required"
      /\ Added(c, n).kind = "broken" => \A r \in Ids : rows[c.table][r] = NULL
  BY <1>2, <1>3 DEF Alters, Addable, Added
<1>5. Added(c, n) \in NamedColumn
  <2>1. c.list \in Lists /\ DOMAIN c.snap \subseteq Names
    BY AltersTable
  <2> QED BY <2>1, AddedType
<1>6. Added(c, n).kind \in {"nullable", "default", "required", "broken"}
  BY <1>5 DEF NamedColumn, Kinds
<1> QED BY <1>4, <1>6 DEF validateValue, Default

LEMMA FitAlter ==
    ASSUME Inv, RowsFitSchema, NEW p \in Procs, alter(p)
    PROVE  RowsFitSchema'
<1> DEFINE c == call[p]
           t == c.table
<1> SUFFICES ASSUME NEW u \in Keys, NEW i \in Ids \ unchecked', rows'[u][i] # NULL
             PROVE  Fit(u, i)'
  BY FitDefNext DEF Fit
<1>0. unchecked' = unchecked /\ t \in Keys
  BY DEF alter, Inv, BusyTables, Sound
<1>1. CASE UNCHANGED <<schema, physical, rows, outdated>>
  BY <1>0, <1>1, FitDef DEF Fit, RowFits
<1>2. CASE Alters(p)
  <2>1. CASE u # t
    <3>1. schema'[u] = schema[u] /\ rows'[u] = rows[u]
      BY <1>2, <2>1 DEF Alters, Inv, TypeOK
    <3> QED BY <1>0, <3>1, FitDef DEF Fit, RowFits
  <2>2. CASE u = t
    <3> DEFINE V == [n \in Names |-> IF n \in NewNames(c) THEN Default(Added(c, n))
                                                         ELSE rows[t][i].vals[n]]
    <3>1. rows'[t][i] = IF rows[t][i] = NULL THEN NULL ELSE [rows[t][i] EXCEPT !.vals = V]
      BY <1>0, <1>2 DEF Alters, Inv, TypeOK
    <3>2. rows[t][i] # NULL /\ rows'[t][i] = [rows[t][i] EXCEPT !.vals = V]
      BY <2>2, <3>1
    <3>3. rows[t][i] \in Row
      BY <1>0, <3>2, RowType
    <3>4. rows'[t][i].vals = V
      <4> HIDE DEF V
      <4> QED BY <3>2, <3>3 DEF Row
    <3>5. schema[t] # NULL /\ RowFits(t, rows[t][i].vals)
      BY <1>0, <3>2, FitDef DEF Fit
    <3>6. schema'[t] # NULL
      BY <1>2, AlterKeeps
    <3>7. /\ DOMAIN schema'[t] = DOMAIN schema[t] \cup NewNames(c)
          /\ \A n \in DOMAIN schema[t] : schema'[t][n] = schema[t][n]
          /\ \A n \in NewNames(c) \ DOMAIN schema[t] :
               schema'[t][n] = [type |-> Added(c, n).type, kind |-> Added(c, n).kind,
                                position |-> position(c.list, c.snap, At(c.list, n))]
      BY <1>0, <1>2 DEF Alters, Inv, TypeOK
    <3>8. \A n \in DOMAIN schema'[t] : n \in Names
      BY <1>0, <1>2, <3>5, <3>7, AltersTable, AddedType DEF Inv, TypeOK, Partial
    <3>9. ASSUME NEW n \in DOMAIN schema'[t] PROVE validateValue(schema'[t][n], V[n])
      <4>1. CASE n \in NewNames(c)
        <5>1. V[n] = Default(Added(c, n))
          BY <3>8, <4>1
        <5>2. n \notin DOMAIN schema[t] /\ validateValue(Added(c, n), Default(Added(c, n)))
          BY <1>2, <2>2, <3>2, <4>1, AddedFits DEF Inv
        <5>3. /\ schema'[t][n].type = Added(c, n).type
              /\ schema'[t][n].kind = Added(c, n).kind
          <6>1. n \in NewNames(c) \ DOMAIN schema[t]
            BY <4>1, <5>2
          <6>2. schema'[t][n] = [type |-> Added(c, n).type, kind |-> Added(c, n).kind,
                                 position |-> position(c.list, c.snap, At(c.list, n))]
            BY <3>7, <6>1, Zenon
          <6> QED BY <6>2
        <5>4. validateValue(schema'[t][n], Default(Added(c, n)))
          BY <5>2, <5>3 DEF validateValue
        <5> HIDE DEF V
        <5> QED BY <5>1, <5>4
      <4>2. CASE n \notin NewNames(c)
        <5>1. V[n] = rows[t][i].vals[n] /\ n \in DOMAIN schema[t]
          BY <3>7, <3>8, <4>2
        <5> QED BY <3>5, <3>7, <5>1 DEF RowFits
      <4> QED BY <4>1, <4>2
    <3> HIDE DEF V
    <3> QED BY <2>2, <3>4, <3>6, <3>9 DEF Fit, RowFits
  <2> QED BY <2>1, <2>2
<1> QED BY <1>1, <1>2, AlterCases

LEMMA FitStep ==
    /\ Inv /\ RegistryMatchesTable /\ ReadColumnsStayTrue /\ CheckedCalls /\ RowsFitSchema
    /\ [Next]_vars
    => RowsFitSchema'
<1> SUFFICES ASSUME Inv, RegistryMatchesTable, ReadColumnsStayTrue, CheckedCalls, RowsFitSchema,
                    [Next]_vars
             PROVE  RowsFitSchema'
  OBVIOUS
<1>1. ASSUME UNCHANGED <<schema, unchecked>>,
             \A t \in Keys : \A i \in Ids : rows'[t][i] # NULL =>
                rows[t][i] # NULL /\ rows'[t][i].vals = rows[t][i].vals
      PROVE  RowsFitSchema'
  BY <1>1, FitDef, FitDefNext DEF Fit, RowFits
<1>2. ASSUME NEW t \in Keys, NEW l \in Lists, CreateTable(t, l) PROVE RowsFitSchema'
  <2>1. /\ UNCHANGED <<rows, unchecked>> /\ schema[t] = NULL
        /\ \A u \in Keys \ {t} : schema'[u] = schema[u]
    BY <1>2 DEF CreateTable, Creatable, history, Inv, TypeOK
  <2> SUFFICES ASSUME NEW u \in Keys, NEW i \in Ids \ unchecked', rows'[u][i] # NULL PROVE Fit(u, i)'
    BY FitDefNext DEF Fit
  <2>2. Fit(u, i)
    BY <2>1, FitDef
  <2> QED BY <2>1, <2>2 DEF Fit, RowFits
<1>3. ASSUME NEW t \in Keys, DeleteTable(t) PROVE RowsFitSchema'
  <2>1. /\ unchecked' = unchecked
        /\ \A i \in Ids : rows'[t][i] = NULL
        /\ \A u \in Keys \ {t} : schema'[u] = schema[u] /\ rows'[u] = rows[u]
    BY <1>3 DEF DeleteTable, Inv, TypeOK
  <2> SUFFICES ASSUME NEW u \in Keys, NEW i \in Ids \ unchecked' PROVE Fit(u, i)'
    BY FitDefNext
  <2>2. Fit(u, i)
    BY <2>1, FitDef
  <2> QED BY <2>1, <2>2 DEF Fit, RowFits
<1>4. ASSUME NEW t \in Keys, NEW i \in Ids, DeleteRecord(t, i) PROVE RowsFitSchema'
  BY <1>1, <1>4 DEF DeleteRecord, history, Inv, TypeOK
<1>5. ASSUME NEW t \in Keys, NEW x \in Contexts, RollbackByFlagCtx(t, x) PROVE RowsFitSchema'
  BY <1>1, <1>5 DEF RollbackByFlagCtx, history, Inv, TypeOK
<1>6. ASSUME NEW t \in Keys, NEW x \in Contexts, PromoteByFlagCtx(t, x) PROVE RowsFitSchema'
  <2>1. UNCHANGED <<schema, unchecked>> /\ \A u \in Keys \ {t} : rows'[u] = rows[u]
    BY <1>6 DEF PromoteByFlagCtx, Inv, TypeOK
  <2>2. ASSUME NEW i \in Ids, rows'[t][i] # NULL
        PROVE  rows[t][i] # NULL /\ rows'[t][i].vals = rows[t][i].vals
    <3>1. rows'[t][i] = IF i \in Tagged(t, x) THEN [rows[t][i] EXCEPT !.tag = NoContext]
                                              ELSE rows[t][i]
      BY <1>6 DEF PromoteByFlagCtx, Inv, TypeOK
    <3>2. rows[t][i] # NULL
      BY <2>2, <3>1 DEF Tagged
    <3> QED BY <3>1, <3>2, RowType DEF Row
  <2> QED BY <1>1, <2>1, <2>2
<1>7. CASE Transaction
  BY <1>2, <1>3, <1>4, <1>5, <1>6, <1>7 DEF Transaction
<1>8. ASSUME NEW p \in Procs, Request(p) PROVE RowsFitSchema'
  <2>1. UNCHANGED <<schema, unchecked, rows>>
    BY <1>8 DEF Request, InsertRecord, InsertRecordFlagged, UpdateRecord, GetRecord,
       QueryRecords, AddColumns, Begin, history
  <2> QED BY <1>1, <2>1
<1>9. ASSUME NEW p \in Procs, loadColumns(p) \/ definition(p) \/ select(p) \/ Abandon(p)
      PROVE  RowsFitSchema'
  <2>1. UNCHANGED <<schema, unchecked, rows>>
    BY <1>9 DEF loadColumns, definition, select, Abandon, history
  <2> QED BY <1>1, <2>1
<1>10. CASE UNCHANGED vars
  BY <1>1, <1>10 DEF vars
<1> QED BY <1>7, <1>8, <1>9, <1>10, FitInsert, FitUpdate, FitAlter DEF Next, Continue

LEMMA FitInit == Init => CheckedCalls /\ RowsFitSchema
  BY CheckedIdle DEF Init, CheckedCalls, RowsFitSchema

\* For any calls, a record that a call wrote from columns still true fits the
\* schema, later columns included: validateValue has seen its fields, and
\* NOT NULL and the defaults of AddColumns take care of the others.
THEOREM RecordsFit == Spec => []RowsFitSchema
  BY InvInit, TypeStep, RegistryInit, RegistryStep, ReadInit, ReadStep, FitInit, CheckedStep,
     FitStep, PTL DEF Spec

-----------------------------------------------------------------------------
(* Positions.                                                              *)

\* Counting the smaller members of a finite set numbers it from 0.
LEMMA RanksDense ==
    ASSUME NEW F, F \subseteq Nat, IsFiniteSet(F)
    PROVE  {Cardinality({j \in F : j < i}) : i \in F} = 0..(Cardinality(F) - 1)
<1> DEFINE below(i) == {j \in F : j < i}
           rank == [i \in F |-> Cardinality(below(i))]
           n == Cardinality(F)
<1>1. n \in Nat
  BY FS_CardinalityType
<1>2. ASSUME NEW i \in F
      PROVE  IsFiniteSet(below(i)) /\ rank[i] \in 0..(n - 1)
  <2>1. below(i) \in SUBSET F /\ i \notin below(i)
    OBVIOUS
  <2>2. IsFiniteSet(below(i)) /\ Cardinality(below(i)) \in Nat
    BY <2>1, FS_Subset, FS_CardinalityType
  <2>3. Cardinality(below(i)) <= n /\ Cardinality(below(i)) # n
    BY <2>1, FS_Subset
  <2> HIDE DEF below, n
  <2> QED BY <1>1, <2>2, <2>3
<1>3. ASSUME NEW i \in F, NEW k \in F, i < k PROVE rank[i] < rank[k]
  <2>1. below(i) \in SUBSET below(k) /\ i \in below(k) /\ i \notin below(i)
    <3>1. i \in Nat /\ k \in Nat
      OBVIOUS
    <3>2. \A j \in F : j \in Nat /\ (j < i => j < k)
      BY <1>3, <3>1
    <3>3. ~(i < i)
      BY <3>1
    <3> QED BY <1>3, <3>2, <3>3
  <2>2. IsFiniteSet(below(k)) /\ rank[i] \in Nat /\ rank[k] \in Nat
    BY <1>1, <1>2
  <2>3. Cardinality(below(i)) <= Cardinality(below(k))
        /\ Cardinality(below(i)) # Cardinality(below(k))
    BY <2>1, <2>2, FS_Subset
  <2> HIDE DEF below
  <2> QED BY <2>2, <2>3
<1>4. rank \in Injection(F, 0..(n - 1))
  <2>1. ASSUME NEW i \in F, NEW k \in F, rank[i] = rank[k] PROVE i = k
    <3>1. i < k \/ k < i \/ i = k
      OBVIOUS
    <3>2. rank[i] \in Nat
      BY <1>1, <1>2
    <3> HIDE DEF rank
    <3> QED BY <1>3, <2>1, <3>1, <3>2
  <2>2. rank \in [F -> 0..(n - 1)]
    BY <1>2
  <2> HIDE DEF rank
  <2> QED BY <2>1, <2>2 DEF Injection, IsInjective
<1>5. IsFiniteSet(0..(n - 1)) /\ Cardinality(0..(n - 1)) = n
  <2>1. 0 \in Int /\ n - 1 \in Int
    BY <1>1
  <2> HIDE DEF n
  <2> QED BY <1>1, <2>1, FS_Interval
<1>6. rank \in Surjection(F, 0..(n - 1))
  BY <1>4, <1>5, FS_Injection
<1>7. \A m \in 0..(n - 1) : \E i \in F : rank[i] = m
  BY <1>6 DEF Surjection
<1>8. {rank[i] : i \in F} = 0..(n - 1)
  <2> HIDE DEF rank, n
  <2> QED BY <1>2, <1>7
<1> QED BY <1>8

\* Columns of a list, no two of one name: as many as their names, which lead
\* back to them.
LEMMA NamesOfColumns ==
    ASSUME NEW l \in Lists, NEW F, F \subseteq DOMAIN l,
           \A i \in F : \A j \in DOMAIN l : l[i].name = l[j].name => i = j
    PROVE  LET N == {l[i].name : i \in F}
           IN /\ F \subseteq Nat /\ IsFiniteSet(F)
              /\ \A n \in N : At(l, n) \in F
              /\ \A i \in F : At(l, l[i].name) = i
              /\ IsFiniteSet(N) /\ Cardinality(N) = Cardinality(F)
<1> DEFINE N == {l[i].name : i \in F}
           f == [i \in F |-> l[i].name]
<1>1. PICK k \in Nat : DOMAIN l = 1..k
  BY TablesAssumption
<1>2. F \subseteq Nat /\ IsFiniteSet(F)
  <2>1. IsFiniteSet(1..k)
    BY FS_Interval
  <2> QED BY <1>1, <2>1, FS_Subset
<1>3. \A i \in F : At(l, l[i].name) = i
  BY DEF At
<1>4. \A n \in N : At(l, n) \in F
  BY <1>3
<1>5. f \in Bijection(F, N)
  <2>1. f \in [F -> N]
    OBVIOUS
  <2>2. \A i, j \in F : f[i] = f[j] => i = j
    OBVIOUS
  <2>3. \A n \in N : \E i \in F : f[i] = n
    OBVIOUS
  <2> HIDE DEF f, N
  <2>4. f \in Injection(F, N)
    BY <2>1, <2>2 DEF Injection, IsInjective
  <2>5. f \in Surjection(F, N)
    BY <2>1, <2>3 DEF Surjection
  <2> QED BY <2>4, <2>5 DEF Bijection
<1>6. ExistsBijection(F, N)
  BY <1>5 DEF ExistsBijection
<1>7. IsFiniteSet(N) /\ Cardinality(N) = Cardinality(F)
  BY <1>2, <1>6, FS_Bijection
<1> QED BY <1>2, <1>3, <1>4, <1>7

\* The positions of table t are numbered from 0 without gaps.
Dense(t) ==
    schema[t] # NULL =>
       {schema[t][n].position : n \in DOMAIN schema[t]} = 0..(Cardinality(DOMAIN schema[t]) - 1)

LEMMA DenseDef == PositionsDense <=> \A t \in Keys \ outdated : Dense(t)
  BY DEF PositionsDense, Dense

LEMMA DenseDefNext == (\A t \in Keys \ outdated' : Dense(t)') => PositionsDense'
  BY DEF PositionsDense, Dense

LEMMA DenseCreate ==
    ASSUME Inv, PositionsDense, NEW t \in Keys, NEW l \in Lists, CreateTable(t, l)
    PROVE  PositionsDense'
<1> DEFINE names == {l[i].name : i \in DOMAIN l}
           S == [n \in names |-> [type |-> l[At(l, n)].type, kind |-> l[At(l, n)].kind,
                                  position |-> At(l, n) - 1]]
<1>1. schema' = [schema EXCEPT ![t] = S] /\ outdated' = outdated
  BY DEF CreateTable, history
<1>2. \A i, j \in DOMAIN l : l[i].name = l[j].name => i = j
  BY DEF CreateTable, Creatable, Distinct
<1>3. /\ \A n \in names : At(l, n) \in DOMAIN l
      /\ \A i \in DOMAIN l : At(l, l[i].name) = i
      /\ Cardinality(names) = Cardinality(DOMAIN l)
  BY <1>2, NamesOfColumns
<1>4. PICK k \in Nat : DOMAIN l = 1..k
  BY TablesAssumption
<1>5. Cardinality(names) = k
  <2>1. 1 \in Int /\ k \in Int
    OBVIOUS
  <2>2. Cardinality(1..k) = IF 1 > k THEN 0 ELSE k - 1 + 1
    BY <2>1, FS_Interval
  <2>3. Cardinality(1..k) = k
    BY <2>2
  <2> HIDE DEF names
  <2> QED BY <1>3, <1>4, <2>3
<1>6. {At(l, n) - 1 : n \in names} = 0..(k - 1)
  <2>1. ASSUME NEW n \in names PROVE At(l, n) - 1 \in 0..(k - 1)
    BY <1>3, <1>4
  <2>2. ASSUME NEW m \in 0..(k - 1) PROVE \E n \in names : m = At(l, n) - 1
    <3>1. m + 1 \in DOMAIN l
      BY <1>4
    <3>2. l[m + 1].name \in names /\ At(l, l[m + 1].name) = m + 1
      BY <1>3, <3>1
    <3> QED BY <3>2
  <2> QED BY <2>1, <2>2
<1>7. {S[n].position : n \in DOMAIN S} = {At(l, n) - 1 : n \in names} /\ DOMAIN S = names
  OBVIOUS
<1>8. {S[n].position : n \in DOMAIN S} = 0..(Cardinality(DOMAIN S) - 1)
  BY <1>5, <1>6, <1>7
<1> HIDE DEF S
<1> SUFFICES ASSUME NEW u \in Keys \ outdated' PROVE Dense(u)'
  BY DenseDefNext
<1>9. CASE u = t
  <2>1. schema'[u] = S
    BY <1>1, <1>9 DEF Inv, TypeOK
  <2> QED BY <1>8, <2>1 DEF Dense
<1>10. CASE u # t
  <2>1. schema'[u] = schema[u]
    BY <1>1, <1>10 DEF Inv, TypeOK
  <2> QED BY <1>1, <2>1, DenseDef DEF Dense
<1> QED BY <1>9, <1>10

\* Columns added after n others continue their numbers.
LEMMA DenseAdded ==
    ASSUME NEW n \in Nat, NEW m \in Nat
    PROVE  0..(n - 1) \cup {n + r : r \in 0..(m - 1)} = 0..(n + m - 1)
<1>1. ASSUME NEW k \in 0..(n + m - 1), k \notin 0..(n - 1)
      PROVE  \E r \in 0..(m - 1) : k = n + r
  <2>1. k - n \in 0..(m - 1) /\ k = n + (k - n)
    BY <1>1
  <2> QED BY <2>1
<1> QED BY <1>1

LEMMA DenseAlter ==
    ASSUME Inv, PositionsDense, NEW p \in Procs, alter(p)
    PROVE  PositionsDense'
<1> DEFINE c == call[p]
           t == c.table
           F == Fresh(c.list, c.snap)
           N == NewNames(c)
           D == DOMAIN schema[t]
<1>1. t \in Keys
  BY DEF alter, Inv, BusyTables, Sound
<1>2. CASE UNCHANGED <<schema, physical, rows, outdated>>
  BY <1>2, DenseDef, DenseDefNext DEF Dense
<1>3. CASE Alters(p)
  <2> SUFFICES ASSUME NEW u \in Keys \ outdated', schema'[u] # NULL PROVE Dense(u)'
    BY DenseDefNext DEF Dense
  <2>1. CASE u # t
    <3>1. schema'[u] = schema[u] /\ u \notin outdated
      BY <1>3, <2>1 DEF Alters, Inv, TypeOK
    <3> QED BY <3>1, DenseDef DEF Dense
  <2>2. CASE u = t
    <3>1. DOMAIN c.snap = D /\ t \notin outdated
      BY <1>3, <2>2 DEF Alters
    <3>2. c.list \in Lists /\ schema[t] # NULL /\ D \subseteq Names
      BY <1>1, <1>3, AltersTable DEF Inv, TypeOK, Partial
    <3>3. \A i \in F : \A j \in DOMAIN c.list : c.list[i].name = c.list[j].name => i = j
      BY <1>3 DEF Alters, Addable, Fresh
    <3>4. /\ F \subseteq Nat /\ IsFiniteSet(F)
          /\ \A n \in N : At(c.list, n) \in F
          /\ \A i \in F : At(c.list, c.list[i].name) = i
          /\ IsFiniteSet(N) /\ Cardinality(N) = Cardinality(F)
      BY <3>2, <3>3, NamesOfColumns DEF NewNames, Fresh
    <3>5. N \cap D = {}
      BY <1>3, AddedFits DEF Inv
    <3>6. IsFiniteSet(D) /\ Cardinality(D) \in Nat /\ Cardinality(F) \in Nat
      BY <3>2, <3>4, NamesFinite, FS_Subset, FS_CardinalityType
    <3>7. Cardinality(D \cup N) = Cardinality(D) + Cardinality(F)
      <4>1. Cardinality(D \cap N) = 0
        BY <3>5, FS_EmptySet
      <4>2. Cardinality(D \cup N) = Cardinality(D) + Cardinality(N) - Cardinality(D \cap N)
        BY <3>4, <3>6, FS_Union
      <4> HIDE DEF D, N, F
      <4> QED BY <3>4, <3>6, <4>1, <4>2
    <3>8. /\ DOMAIN schema'[t] = D \cup N
          /\ \A n \in D : schema'[t][n] = schema[t][n]
          /\ \A n \in N : schema'[t][n].position
                             = Cardinality(D) + Cardinality({j \in F : j < At(c.list, n)})
      <4>1. schema'[t] = [n \in D \cup N |->
                 IF n \in D THEN schema[t][n]
                 ELSE [type |-> Added(c, n).type, kind |-> Added(c, n).kind,
                       position |-> position(c.list, c.snap, At(c.list, n))]]
        BY <1>1, <1>3 DEF Alters, Inv, TypeOK
      <4>2. ASSUME NEW n \in N PROVE schema'[t][n].position = position(c.list, c.snap, At(c.list, n))
        <5>1. n \in D \cup N /\ n \notin D
          BY <3>5
        <5> HIDE DEF D, N
        <5> QED BY <4>1, <5>1
      <4>3. ASSUME NEW i
            PROVE  position(c.list, c.snap, i) = Cardinality(D) + Cardinality({j \in F : j < i})
        BY <3>1 DEF position
      <4> HIDE DEF D, N, F
      <4> QED BY <4>1, <4>2, <4>3
    <3>9. {Cardinality({j \in F : j < At(c.list, n)}) : n \in N} = 0..(Cardinality(F) - 1)
      <4> DEFINE R(i) == Cardinality({j \in F : j < i})
      <4>1. {R(i) : i \in F} = 0..(Cardinality(F) - 1)
        BY <3>4, RanksDense
      <4>2. \A n \in N : At(c.list, n) \in F
        BY <3>4
      <4>3. \A i \in F : c.list[i].name \in N /\ At(c.list, c.list[i].name) = i
        BY <3>4 DEF NewNames
      <4> HIDE DEF F, N, R
      <4>4. {R(At(c.list, n)) : n \in N} = {R(i) : i \in F}
        BY <4>2, <4>3
      <4> QED BY <4>1, <4>4 DEF R
    <3>10. {schema[t][n].position : n \in D} = 0..(Cardinality(D) - 1)
      BY <1>1, <3>1, <3>2, DenseDef DEF Dense
    <3> DEFINE R(n) == Cardinality({j \in F : j < At(c.list, n)})
               P(n) == schema'[t][n].position
    <3>11. {P(n) : n \in D} = 0..(Cardinality(D) - 1)
      BY <3>8, <3>10
    <3>12. {P(n) : n \in N} = {Cardinality(D) + r : r \in 0..(Cardinality(F) - 1)}
      <4>1. \A n \in N : P(n) = Cardinality(D) + R(n)
        BY <3>8
      <4>2. {R(n) : n \in N} = 0..(Cardinality(F) - 1)
        BY <3>9
      <4> HIDE DEF D, F, N, R, P
      <4>3. {P(n) : n \in N} = {Cardinality(D) + r : r \in {R(n) : n \in N}}
        BY <4>1
      <4> QED BY <4>2, <4>3
    <3>13. {P(n) : n \in DOMAIN schema'[t]} = {P(n) : n \in D} \cup {P(n) : n \in N}
      <4>1. DOMAIN schema'[t] = D \cup N
        BY <3>8
      <4> HIDE DEF D, N, P
      <4> QED BY <4>1
    <3>14. {P(n) : n \in DOMAIN schema'[t]} = 0..(Cardinality(DOMAIN schema'[t]) - 1)
      <4>1. DOMAIN schema'[t] = D \cup N
        BY <3>8
      <4> HIDE DEF D, F, N, P, R
      <4>2. {P(n) : n \in DOMAIN schema'[t]} = 0..(Cardinality(D) + Cardinality(F) - 1)
        BY <3>6, <3>11, <3>12, <3>13, DenseAdded
      <4>3. Cardinality(DOMAIN schema'[t]) = Cardinality(D) + Cardinality(F)
        BY <3>7, <4>1, Zenon
      <4> QED BY <3>6, <4>2, <4>3
    <3> QED BY <2>2, <3>14 DEF Dense
  <2> QED BY <2>1, <2>2
<1> QED BY <1>2, <1>3, AlterCases

LEMMA DenseStep == Inv /\ PositionsDense /\ [Next]_vars => PositionsDense'
<1> SUFFICES ASSUME Inv, PositionsDense, [Next]_vars PROVE PositionsDense'
  OBVIOUS
<1>1. ASSUME UNCHANGED <<schema, outdated>> PROVE PositionsDense'
  BY <1>1 DEF PositionsDense
<1>2. ASSUME NEW t \in Keys, DeleteTable(t) PROVE PositionsDense'
  <2> SUFFICES ASSUME NEW u \in Keys \ outdated' PROVE Dense(u)'
    BY DenseDefNext
  <2>1. /\ schema'[t] = NULL /\ outdated' = outdated \ {t}
        /\ \A v \in Keys \ {t} : schema'[v] = schema[v]
    BY <1>2 DEF DeleteTable, Inv, TypeOK
  <2> QED BY <2>1, DenseDef DEF Dense
<1>3. CASE Transaction
  <2>1. ASSUME NEW t, NEW i, DeleteRecord(t, i) PROVE PositionsDense'
    BY <1>1, <2>1 DEF DeleteRecord, history
  <2>2. ASSUME NEW t, NEW x, RollbackByFlagCtx(t, x) \/ PromoteByFlagCtx(t, x)
        PROVE  PositionsDense'
    BY <1>1, <2>2 DEF RollbackByFlagCtx, PromoteByFlagCtx, history
  <2> QED BY <1>2, <1>3, <2>1, <2>2, DenseCreate DEF Transaction
<1>4. ASSUME NEW p \in Procs, Request(p) PROVE PositionsDense'
  <2>1. UNCHANGED <<schema, outdated>>
    BY <1>4 DEF Request, InsertRecord, InsertRecordFlagged, UpdateRecord, GetRecord,
       QueryRecords, AddColumns, Begin, history
  <2> QED BY <1>1, <2>1
<1>5. ASSUME NEW p \in Procs, Continue(p), ~alter(p) PROVE PositionsDense'
  <2>1. UNCHANGED <<schema, outdated>>
    BY <1>5 DEF Continue, loadColumns, insert, update, definition, select, history
  <2> QED BY <1>1, <2>1
<1>6. ASSUME NEW p \in Procs, Abandon(p) PROVE PositionsDense'
  BY <1>1, <1>6 DEF Abandon
<1>7. CASE UNCHANGED vars
  BY <1>1, <1>7 DEF vars
<1> QED BY <1>3, <1>4, <1>5, <1>6, <1>7, DenseAlter DEF Next

LEMMA DenseInit == Init => PositionsDense
  BY DEF Init, PositionsDense

\* However many columns a table gets and in however many requests, they are
\* numbered 0..n-1, unless AddColumns worked from a definition that had
\* changed since it was read (table/engine.go, AddColumns).
THEOREM PositionsContiguous == Spec => []PositionsDense
  BY InvInit, TypeStep, RegistryInit, RegistryStep, DenseInit, DenseStep, PTL DEF Spec
-----------------------------------------------------------------------------
(* Drafts.  Each step of the engine is a step of DraftTables, or none.      *)

\* A step that DraftTables does not see.
Unseen == UNCHANGED <<Published, InDrafts, Given, Staged, events>>

LEMMA UnseenStep == Unseen => UNCHANGED Drafts!vars
  BY DEF Unseen, Drafts!vars

\* A step of table t alone.
OnlyIn(t) == \A u \in Keys \ {t} : rows'[u] = rows[u]

LEMMA OnlyPublished ==
    ASSUME NEW t \in Keys, OnlyIn(t), NEW S,
           S = {i \in Ids : rows'[t][i] # NULL /\ rows'[t][i].tag = NoContext}
    PROVE  Published' = [Published EXCEPT ![t] = S]
  BY DEF Published, Tagged, OnlyIn

LEMMA OnlyDrafts ==
    ASSUME NEW t \in Keys, OnlyIn(t), NEW g,
           g = [x \in Contexts |-> {i \in Ids : rows'[t][i] # NULL /\ rows'[t][i].tag = x}]
    PROVE  InDrafts' = [InDrafts EXCEPT ![t] = g]
  BY DEF InDrafts, Tagged, OnlyIn

\* A step that takes no record and no tag away and adds none.
LEMMA TagsUnseen ==
    ASSUME UNCHANGED <<born, events>>,
           \A t \in Keys : \A i \in Ids :
              /\ rows'[t][i] # NULL <=> rows[t][i] # NULL
              /\ rows[t][i] # NULL => rows'[t][i].tag = rows[t][i].tag
    PROVE  Unseen
<1>1. \A t \in Keys : \A x : {i \in Ids : rows'[t][i] # NULL /\ rows'[t][i].tag = x} = Tagged(t, x)
  BY DEF Tagged
<1>2. Published' = Published
  BY <1>1 DEF Published, Tagged
<1>3. InDrafts' = InDrafts
  BY <1>1 DEF InDrafts, Tagged
<1> QED
  BY <1>2, <1>3 DEF Unseen, Given, Staged

\* A record that is written again is a record.
LEMMA NewVals ==
    ASSUME NEW r \in Row, NEW v \in [Names -> Values]
    PROVE  [r EXCEPT !.vals = v] # NULL /\ [r EXCEPT !.vals = v].tag = r.tag
<1>1. [r EXCEPT !.vals = v] \in Row /\ [r EXCEPT !.vals = v].tag = r.tag
  BY DEF Row
<1> QED
  BY <1>1, TablesAssumption

LEMMA NewTag ==
    ASSUME NEW r \in Row, NEW x \in Contexts \cup {NoContext}
    PROVE  [r EXCEPT !.tag = x] # NULL /\ [r EXCEPT !.tag = x].tag = x
<1>1. [r EXCEPT !.tag = x] \in Row /\ [r EXCEPT !.tag = x].tag = x
  BY DEF Row
<1> QED
  BY <1>1, TablesAssumption

LEMMA UpdateUnseen ==
    ASSUME Inv, NEW p \in Procs, update(p)
    PROVE  Unseen
<1> DEFINE c == call[p]
<1>1. \A t \in Keys : \A i \in Ids : rows'[t][i] # NULL =>
         rows[t][i] # NULL /\ rows'[t][i].tag = rows[t][i].tag
  BY UpdateTags
<1>2. \A t \in Keys : \A i \in Ids : rows[t][i] # NULL => rows'[t][i] # NULL
  <2>1. CASE UNCHANGED rows
    BY <2>1
  <2>2. CASE /\ rows[c.table][c.id] # NULL
             /\ rows' = [rows EXCEPT ![c.table][c.id] = Updated(c.table, c.id, c.arg)]
    <3>1. c.table \in Keys /\ c.id \in Ids
      BY DEF update, Inv, BusyTables, Sound
    <3>2. rows[c.table][c.id] \in Row
      BY <2>2, <3>1, RowType
    <3>3. Written(c.table, rows[c.table][c.id].vals, c.arg) \in [Names -> Values]
      BY <3>2, CallFields, WrittenType DEF Inv, Row
    <3>4. Updated(c.table, c.id, c.arg) # NULL
      BY <3>2, <3>3, NewVals DEF Updated
    <3> QED
      BY <2>2, <3>1, <3>4 DEF Inv, TypeOK
  <2> QED
    BY <2>1, <2>2 DEF update
<1>3. UNCHANGED <<born, events>>
  BY DEF update
<1> QED
  BY <1>1, <1>2, <1>3, TagsUnseen

LEMMA AlterUnseen ==
    ASSUME Inv, NEW p \in Procs, alter(p)
    PROVE  Unseen
<1> DEFINE c == call[p]
           u == c.table
<1>1. \A t \in Keys : \A i \in Ids : rows'[t][i] # NULL =>
         rows[t][i] # NULL /\ rows'[t][i].tag = rows[t][i].tag
  BY AlterTags
<1>2. \A t \in Keys : \A i \in Ids : rows[t][i] # NULL => rows'[t][i] # NULL
  <2>1. CASE UNCHANGED rows
    BY <2>1
  <2>2. CASE Alters(p)
    <3>1. u \in Keys
      BY DEF alter, Inv, BusyTables, Sound
    <3>2. \A t \in Keys \ {u} : rows'[t] = rows[t]
      BY <2>2 DEF Alters, Inv, TypeOK
    <3>3. ASSUME NEW i \in Ids, rows[u][i] # NULL PROVE rows'[u][i] # NULL
      <4> DEFINE V == [n \in Names |-> IF n \in NewNames(c) THEN Default(Added(c, n))
                                                           ELSE rows[u][i].vals[n]]
      <4>1. rows'[u][i] = [rows[u][i] EXCEPT !.vals = V]
        BY <2>2, <3>1, <3>3 DEF Alters, Inv, TypeOK
      <4>2. rows[u][i] \in Row
        BY <3>1, <3>3, RowType
      <4>3. \A n \in NewNames(c) : Default(Added(c, n)) \in Values
        <5>1. c.list \in Lists /\ DOMAIN c.snap \subseteq Names
          BY <2>2, AltersTable DEF Inv
        <5> QED
          BY <5>1, AddedType
      <4>4. V \in [Names -> Values]
        BY <4>2, <4>3 DEF Row
      <4> HIDE DEF V
      <4> QED
        BY <4>1, <4>2, <4>4, NewVals
    <3> QED
      BY <3>2, <3>3
  <2> QED
    BY <2>1, <2>2, AlterCases
<1>3. UNCHANGED <<born, events>>
  BY DEF alter
<1> QED
  BY <1>1, <1>2, <1>3, TagsUnseen

\* The steps of DraftTables.
LEMMA DeleteTableDrops ==
    ASSUME Inv, NEW t \in Keys, DeleteTable(t)
    PROVE  Drafts!Drop(t)
<1>1. OnlyIn(t) /\ \A i \in Ids : rows'[t][i] = NULL
  BY DEF DeleteTable, OnlyIn, Inv, TypeOK
<1>2. UNCHANGED <<Given, Staged, events>>
  BY DEF DeleteTable, Given, Staged
<1>3. Published' = [Published EXCEPT ![t] = {}]
  <2>1. {i \in Ids : rows'[t][i] # NULL /\ rows'[t][i].tag = NoContext} = {}
    BY <1>1
  <2> QED
    BY <1>1, <2>1, OnlyPublished
<1>4. InDrafts' = [InDrafts EXCEPT ![t] = [x \in Contexts |-> {}]]
  <2>1. [x \in Contexts |-> {}]
          = [x \in Contexts |-> {i \in Ids : rows'[t][i] # NULL /\ rows'[t][i].tag = x}]
    BY <1>1
  <2> QED
    BY <1>1, <2>1, OnlyDrafts
<1> QED
  BY <1>2, <1>3, <1>4 DEF Drafts!Drop

LEMMA DeleteRecordRemoves ==
    ASSUME Inv, NEW t \in Keys, NEW i \in Ids, DeleteRecord(t, i)
    PROVE  Drafts!Remove(t, i)
<1>1. OnlyIn(t) /\ \A j \in Ids : rows'[t][j] = IF j = i THEN NULL ELSE rows[t][j]
  BY DEF DeleteRecord, OnlyIn, Inv, TypeOK
<1>2. UNCHANGED <<Given, Staged, events>>
  BY DEF DeleteRecord, history, Given, Staged
<1>3. \A x : {j \in Ids : rows'[t][j] # NULL /\ rows'[t][j].tag = x} = Tagged(t, x) \ {i}
  BY <1>1 DEF Tagged
<1>4. Published' = [Published EXCEPT ![t] = @ \ {i}]
  BY <1>1, <1>3, OnlyPublished DEF Published
<1>5. InDrafts' = [InDrafts EXCEPT ![t] = [x \in Contexts |-> @[x] \ {i}]]
  <2>1. [x \in Contexts |-> InDrafts[t][x] \ {i}]
           = [x \in Contexts |-> {j \in Ids : rows'[t][j] # NULL /\ rows'[t][j].tag = x}]
    BY <1>3 DEF InDrafts
  <2> QED
    BY <1>1, <2>1, OnlyDrafts
<1> QED
  BY <1>2, <1>4, <1>5 DEF Drafts!Remove

LEMMA RollbackDiscards ==
    ASSUME Inv, NEW t \in Keys, NEW x \in Contexts, RollbackByFlagCtx(t, x)
    PROVE  Drafts!Rollback(t, x)
<1>1. OnlyIn(t) /\ \A j \in Ids : rows'[t][j] = IF j \in Tagged(t, x) THEN NULL ELSE rows[t][j]
  BY DEF RollbackByFlagCtx, OnlyIn, Inv, TypeOK
<1>2. UNCHANGED <<Given, Staged, events>>
  BY DEF RollbackByFlagCtx, history, Given, Staged
<1>3. \A y : {j \in Ids : rows'[t][j] # NULL /\ rows'[t][j].tag = y}
                = IF y = x THEN {} ELSE Tagged(t, y)
  BY <1>1 DEF Tagged
<1>4. Published' = Published
  <2>1. Published' = [Published EXCEPT ![t] = Tagged(t, NoContext)]
    BY <1>1, <1>3, OnlyPublished, TablesAssumption
  <2> QED
    BY <2>1 DEF Published
<1>5. InDrafts' = [InDrafts EXCEPT ![t][x] = {}]
  <2>1. [InDrafts[t] EXCEPT ![x] = {}]
           = [y \in Contexts |-> {j \in Ids : rows'[t][j] # NULL /\ rows'[t][j].tag = y}]
    BY <1>3 DEF InDrafts
  <2> QED
    BY <1>1, <2>1, OnlyDrafts
<1> QED
  BY <1>2, <1>4, <1>5 DEF Drafts!Rollback

LEMMA PromotePublishes ==
    ASSUME Inv, NEW t \in Keys, NEW x \in Contexts, PromoteByFlagCtx(t, x)
    PROVE  Drafts!Promote(t, x)
<1>1. OnlyIn(t) /\ \A j \in Ids :
         rows'[t][j] = IF j \in Tagged(t, x) THEN [rows[t][j] EXCEPT !.tag = NoContext] ELSE rows[t][j]
  BY DEF PromoteByFlagCtx, OnlyIn, Inv, TypeOK
<1>2. UNCHANGED <<Given, Staged, events>>
  BY DEF PromoteByFlagCtx, Given, Staged
<1>3. \A j \in Tagged(t, x) : rows'[t][j] # NULL /\ rows'[t][j].tag = NoContext
  <2> SUFFICES ASSUME NEW j \in Tagged(t, x) PROVE rows'[t][j] # NULL /\ rows'[t][j].tag = NoContext
    OBVIOUS
  <2>1. j \in Ids /\ rows[t][j] \in Row
    BY RowType DEF Tagged
  <2>2. rows'[t][j] = [rows[t][j] EXCEPT !.tag = NoContext]
    BY <1>1, <2>1
  <2> QED
    BY <2>1, <2>2, NewTag
<1>4. \A y : {j \in Ids : rows'[t][j] # NULL /\ rows'[t][j].tag = y}
                = CASE y = NoContext -> Tagged(t, y) \cup Tagged(t, x)
                    [] y # NoContext /\ y = x -> {}
                    [] OTHER -> Tagged(t, y)
  BY <1>1, <1>3, TablesAssumption DEF Tagged
<1>5. Published' = [Published EXCEPT ![t] = @ \cup InDrafts[t][x]]
  BY <1>1, <1>4, OnlyPublished DEF Published, InDrafts
<1>6. InDrafts' = [InDrafts EXCEPT ![t][x] = {}]
  <2>1. [InDrafts[t] EXCEPT ![x] = {}]
           = [y \in Contexts |-> {j \in Ids : rows'[t][j] # NULL /\ rows'[t][j].tag = y}]
    BY <1>4, TablesAssumption DEF InDrafts
  <2> QED
    BY <1>1, <2>1, OnlyDrafts
<1> QED
  BY <1>2, <1>5, <1>6 DEF Drafts!Promote

LEMMA InsertGives ==
    ASSUME Inv, Tags, NEW p \in Procs, Inserts(p)
    PROVE  \E t \in Keys : \E i \in Ids :
              \/ Drafts!Publish(t, i)
              \/ \E x \in Contexts : Drafts!Stage(t, x, i)
<1> DEFINE c == call[p]
           t == c.table
           r == [tag |-> c.ctx, vals |-> Written(c.table, Blank(c.table), c.arg)]
<1>1. PICK i \in Ids :
          /\ born[i] = NULL
          /\ rows' = [rows EXCEPT ![t][i] = r]
          /\ born' = [born EXCEPT ![i] = c.ctx]
  BY DEF Inserts
<1>2. /\ t \in Keys
      /\ rows'[t][i].tag = c.ctx
      /\ \A u \in Keys : \A j \in Ids : u # t \/ j # i => rows'[u][j] = rows[u][j]
  BY <1>1, InsertRow DEF Inserts
<1>3. c.ctx \in Contexts \cup {NoContext} /\ c.ctx # NULL /\ c.arg \in Data \cup {<<>>}
  BY CallFields, TablesAssumption DEF Inv
<1>4. rows[t][i] = NULL
  BY <1>1, <1>2, RowBorn
<1>5. rows'[t][i] # NULL
  <2>1. physical[t] # NULL
    BY DEF Inserts, Known
  <2>2. Written(t, Blank(t), c.arg) \in [Names -> Values]
    BY <1>2, <1>3, <2>1, BlankType, WrittenType DEF Inv
  <2>3. r \in Row
    BY <1>3, <2>2 DEF Row
  <2>4. rows'[t][i] = r
    BY <1>1, <1>2 DEF Inv, TypeOK
  <2> QED
    BY <2>3, <2>4, TablesAssumption
<1>6. OnlyIn(t)
  BY <1>1, <1>2 DEF OnlyIn, Inv, TypeOK
<1>7. \A x : {j \in Ids : rows'[t][j] # NULL /\ rows'[t][j].tag = x}
                = IF x = c.ctx THEN Tagged(t, x) \cup {i} ELSE Tagged(t, x)
  BY <1>2, <1>4, <1>5 DEF Tagged
<1>8. born'[i] = c.ctx /\ \A j \in Ids \ {i} : born'[j] = born[j]
  BY <1>1 DEF Inv, TypeOK
<1>9. i \notin Given /\ Given' = Given \cup {i} /\ events' = events
  BY <1>1, <1>3, <1>8 DEF Given, Inserts
<1>10. CASE c.ctx = NoContext
  <2>1. Staged' = Staged
    BY <1>1, <1>8, <1>10, TablesAssumption DEF Staged
  <2>2. Published' = [Published EXCEPT ![t] = @ \cup {i}]
    <3>1. {j \in Ids : rows'[t][j] # NULL /\ rows'[t][j].tag = NoContext} = Published[t] \cup {i}
      BY <1>2, <1>7, <1>10 DEF Published
    <3> QED
      BY <1>2, <1>6, <3>1, OnlyPublished
  <2>3. InDrafts' = InDrafts
    <3>1. InDrafts[t] = [x \in Contexts |-> {j \in Ids : rows'[t][j] # NULL /\ rows'[t][j].tag = x}]
      BY <1>2, <1>7, <1>10, TablesAssumption DEF InDrafts
    <3>2. InDrafts' = [InDrafts EXCEPT ![t] = InDrafts[t]]
      BY <1>2, <1>6, <3>1, OnlyDrafts
    <3> QED
      BY <3>2 DEF InDrafts
  <2>4. Drafts!Publish(t, i)
    BY <1>9, <2>1, <2>2, <2>3 DEF Drafts!Publish, Drafts!Give
  <2> QED
    BY <1>2, <2>4
<1>11. CASE c.ctx \in Contexts
  <2>1. Staged' = Staged \cup {i}
    BY <1>1, <1>8, <1>11, TablesAssumption DEF Staged
  <2>2. InDrafts' = [InDrafts EXCEPT ![t][c.ctx] = @ \cup {i}]
    <3>1. [InDrafts[t] EXCEPT ![c.ctx] = @ \cup {i}]
             = [x \in Contexts |-> {j \in Ids : rows'[t][j] # NULL /\ rows'[t][j].tag = x}]
      BY <1>2, <1>7, <1>11 DEF InDrafts
    <3> QED
      BY <1>2, <1>6, <3>1, OnlyDrafts
  <2>3. Published' = Published
    <3>1. {j \in Ids : rows'[t][j] # NULL /\ rows'[t][j].tag = NoContext} = Tagged(t, NoContext)
      BY <1>7, <1>11, TablesAssumption
    <3>2. Published' = [Published EXCEPT ![t] = Tagged(t, NoContext)]
      BY <1>2, <1>6, <3>1, OnlyPublished
    <3> QED
      BY <3>2 DEF Published
  <2>4. Drafts!Stage(t, c.ctx, i)
    BY <1>9, <2>1, <2>2, <2>3 DEF Drafts!Stage, Drafts!Give
  <2> QED
    BY <1>2, <1>11, <2>4
<1> QED
  BY <1>3, <1>10, <1>11

LEMMA SelectAnnounces ==
    ASSUME Inv, Tags, AnnInv, NEW p \in Procs, select(p)
    PROVE  Unseen \/ \E t \in Keys : \E i \in Ids : Drafts!Announce(t, i)
<1> DEFINE c == call[p]
           found == Known(c.table, DOMAIN c.snap) /\ c.id # NULL /\ rows[c.table][c.id] # NULL
<1>1. UNCHANGED <<rows, born>> /\ events' = IF found /\ Announces(c) THEN events \cup {c.id} ELSE events
  BY DEF select, history
<1>2. UNCHANGED <<Published, InDrafts, Given, Staged>>
  BY <1>1 DEF Published, InDrafts, Tagged, Given, Staged
<1>3. CASE found /\ Announces(c)
  <2>1. c.table \in Keys
    BY DEF select, Inv, BusyTables, Sound
  <2>2. c.id \in Ids /\ born[c.id] = NoContext
    BY <1>3 DEF Announces, Pending, Pend, AnnInv
  <2>3. rows[c.table][c.id].tag = NoContext
    BY <1>3, <2>1, <2>2 DEF Tags, FlaggedUntilPromoted
  <2>4. c.id \in Published[c.table] \ Staged
    BY <1>3, <2>1, <2>2, <2>3, TablesAssumption DEF Published, Tagged, Staged
  <2>5. Drafts!Announce(c.table, c.id)
    BY <1>1, <1>2, <1>3, <2>4 DEF Drafts!Announce
  <2> QED
    BY <2>1, <2>2, <2>5
<1>4. CASE ~(found /\ Announces(c))
  BY <1>1, <1>2, <1>4 DEF Unseen
<1> QED
  BY <1>3, <1>4

LEMMA DraftsStep ==
    Inv /\ Tags /\ AnnInv /\ [Next]_vars => [Drafts!Next]_Drafts!vars
<1> SUFFICES ASSUME Inv, Tags, AnnInv, [Next]_vars
             PROVE  Drafts!Next \/ UNCHANGED Drafts!vars
  OBVIOUS
<1>1. ASSUME UNCHANGED <<rows, born, events>> PROVE Unseen
  BY <1>1, TagsUnseen
<1>2. CASE Transaction
  <2>1. ASSUME NEW t \in Keys, NEW l, CreateTable(t, l) PROVE Unseen
    BY <1>1, <2>1 DEF CreateTable, history
  <2>2. ASSUME NEW t \in Keys, DeleteTable(t) PROVE Drafts!Next
    BY <2>2, DeleteTableDrops DEF Drafts!Next
  <2>3. ASSUME NEW t \in Keys, NEW i \in Ids, DeleteRecord(t, i) PROVE Drafts!Next
    BY <2>3, DeleteRecordRemoves DEF Drafts!Next
  <2>4. ASSUME NEW t \in Keys, NEW x \in Contexts, RollbackByFlagCtx(t, x) PROVE Drafts!Next
    BY <2>4, RollbackDiscards DEF Drafts!Next
  <2>5. ASSUME NEW t \in Keys, NEW x \in Contexts, PromoteByFlagCtx(t, x) PROVE Drafts!Next
    BY <2>5, PromotePublishes DEF Drafts!Next
  <2> QED
    BY <1>2, <2>1, <2>2, <2>3, <2>4, <2>5, UnseenStep DEF Transaction
<1>3. ASSUME NEW p \in Procs, Request(p) PROVE Unseen
  <2>1. UNCHANGED <<rows, born, events>>
    BY <1>3 DEF Request, InsertRecord, InsertRecordFlagged, UpdateRecord, GetRecord,
       QueryRecords, AddColumns, Begin, history
  <2> QED
    BY <1>1, <2>1
<1>4. ASSUME NEW p \in Procs, insert(p) PROVE Drafts!Next \/ Unseen
  <2>1. CASE Inserts(p)
    BY <2>1, InsertGives DEF Drafts!Next
  <2>2. CASE UNCHANGED <<rows, born, events>>
    BY <1>1, <2>2
  <2> QED
    BY <1>4, <2>1, <2>2, InsertCases
<1>5. ASSUME NEW p \in Procs, select(p) PROVE Drafts!Next \/ Unseen
  BY <1>5, SelectAnnounces DEF Drafts!Next
<1>6. ASSUME NEW p \in Procs, loadColumns(p) \/ definition(p) \/ Abandon(p) PROVE Unseen
  <2>1. UNCHANGED <<rows, born, events>>
    BY <1>6 DEF loadColumns, definition, Abandon, history
  <2> QED
    BY <1>1, <2>1
<1>7. CASE UNCHANGED vars
  BY <1>1, <1>7, UnseenStep DEF vars
<1> QED
  BY <1>2, <1>3, <1>4, <1>5, <1>6, <1>7, UpdateUnseen, AlterUnseen, UnseenStep DEF Next, Continue

LEMMA DraftsInit == Init => Drafts!Init
<1> SUFFICES ASSUME Init PROVE Drafts!Init
  OBVIOUS
<1>1. \A t \in Keys : \A x : Tagged(t, x) = {}
  BY DEF Init, Tagged
<1>2. Given = {} /\ Staged = {} /\ events = {}
  BY TablesAssumption DEF Init, Given, Staged
<1> QED
  BY <1>1, <1>2 DEF Drafts!Init, Published, InDrafts

\* Whatever calls overlap, fail or are cut short, the engine implements tables
\* with drafts: PromoteByFlagCtx publishes and RollbackByFlagCtx removes all
\* that is in a draft at that moment, in one step; an UPDATE built from
\* columns read earlier, like AddColumns, neither publishes a record nor brings
\* one back; and what InsertRecord announces is there and was never in a draft.
THEOREM Drafted == Spec => KeepsDrafts
<1> QED
  BY InvInit, TypeStep, RegistryInit, RegistryStep, ReadInit, ReadStep, TagsInit, TagsStep,
     AnnInit, AnnStep, DraftsInit, DraftsStep, PTL DEF Spec, KeepsDrafts, Drafts!Spec
=============================================================================
