-------------------------------- MODULE Tables --------------------------------
(***************************************************************************)
(* internal/table.Engine: user-defined tables.  A table is registered in   *)
(* table_definitions and table_columns and exists as a physical table.     *)
(* Changes of both are one transaction, and the only connection makes a    *)
(* transaction one step; but every record operation, and AddColumns, first *)
(* reads the registered columns (GetTable, two statements) and then builds *)
(* its own statement from what it read.                                    *)
(***************************************************************************)
EXTENDS Integers, Sequences, FiniteSets

CONSTANTS
    Keys,      \* table keys
    Procs,     \* requests and function invocations in the engine at once
    Ids,       \* ids newID may return
    Contexts,  \* flag contexts "flagKey:variantKey"
    Lists,     \* column lists a request may carry
    Data,      \* field maps a request may carry
    MaxCalls,  \* bound on the number of calls
    MaxFaults, \* bound on failed statements and crashes
    NULL       \* no table, no row, no call

Names == {"a", "b"}
Types == {"text", "integer"}
Values == Types \cup {"null"}

\* nullable; NOT NULL with a default, without, or with one that is no literal
\* of its type (sqlLiteral turns it into NULL, the registry keeps it).
Kinds == {"nullable", "default", "required", "broken"}

\* A column of a request, of the physical table and of the registry.
NamedColumn == [name : Names, type : Types, kind : Kinds]
Physical == [type : Types, kind : Kinds \ {"broken"}]
Column == [type : Types, kind : Kinds, position : Nat]

\* f gives each of some names a member of T.
Partial(f, T) == \E D \in SUBSET Names : f \in [D -> T]

NoContext == ""

\* A record: its _flag_ctx and the values of its columns.
Row == [tag : Contexts \cup {NoContext}, vals : [Names -> Values]]

ASSUME TablesAssumption ==
    /\ Lists \subseteq Seq(NamedColumn)
    /\ \A d \in Data : Partial(d, Values)
    /\ {MaxCalls, MaxFaults} \subseteq Nat
    /\ NoContext \notin Contexts
    /\ NULL \notin Ids /\ NULL \notin Contexts \cup {NoContext} /\ NULL \notin Row
    /\ ~Partial(NULL, Column) /\ ~Partial(NULL, Physical)

VARIABLES
    schema,    \* schema[t]: registered columns by name, or NULL
    physical,  \* physical[t]: columns of the physical table, or NULL
    rows,      \* rows[t][i]: the record, or NULL
    call,      \* call[p]: what call p is doing and what it has read
    events,    \* ids announced on flagbase.table.<key>.created
    calls,     \* calls begun
    faults,    \* faults so far
    born,      \* history: flag context each id was inserted under, or NULL
    promoted,  \* history: ids a PromoteByFlagCtx has hit
    unchecked, \* history: ids written by a call whose table had been dropped
    lost,      \* history: ids whose insertion ended before its end
    outdated   \* history: tables altered from columns read too early

stored == <<schema, physical, rows>>
history == <<born, promoted, unchecked, lost, outdated>>
vars == <<schema, physical, rows, call, events, calls, faults,
          born, promoted, unchecked, lost, outdated>>

Idle == [at |-> "idle", op |-> "none", table |-> NULL, id |-> NULL,
         ctx |-> NoContext, arg |-> <<>>, list |-> <<>>, snap |-> <<>>, dropped |-> FALSE]

Init ==
    /\ schema = [t \in Keys |-> NULL]
    /\ physical = [t \in Keys |-> NULL]
    /\ rows = [t \in Keys |-> [i \in Ids |-> NULL]]
    /\ call = [p \in Procs |-> Idle]
    /\ events = {}
    /\ calls = 0
    /\ faults = 0
    /\ born = [i \in Ids |-> NULL]
    /\ promoted = {}
    /\ unchecked = {}
    /\ lost = {}
    /\ outdated = {}

-----------------------------------------------------------------------------
(* Columns.                                                                *)

\* Mutant of colFragment: it declares what the registry says.
colFragment_Registry(c) == [type |-> c.type, kind |-> c.kind]

\* What colFragment declares, sqlLiteral included.
colFragment(c) == [type |-> c.type, kind |-> IF c.kind = "broken" THEN "required" ELSE c.kind]

\* Names of the columns of list l, none of them twice.
Distinct(l) == \A i, j \in DOMAIN l : l[i].name = l[j].name => i = j

At(l, n) == CHOOSE i \in DOMAIN l : l[i].name = n

\* The value of a column of the physical table that a statement does not name.
Default(c) == IF c.kind = "default" THEN c.type ELSE "null"

\* Column affinity: numbers become text in a TEXT column, and that is all.
Stored(c, v) == IF c.type = "text" /\ v = "integer" THEN "text" ELSE v

\* Mutant of validateValue: it lets every value pass that is not null.
validateValue_Nulls(c, v) == v = "null" => c.kind = "nullable"

validateValue(c, v) == v = c.type \/ (v = "null" /\ c.kind = "nullable")

\* buildInsertData: only known columns, valid values, nothing required missing.
buildInsertData(cols, d) ==
    /\ DOMAIN d \subseteq DOMAIN cols
    /\ \A n \in DOMAIN d : validateValue(cols[n], d[n])
    /\ \A n \in DOMAIN cols \ DOMAIN d : cols[n].kind # "required"

\* What UpdateRecord checks of the fields it is given.
buildSetClauses(cols, d) ==
    DOMAIN d \subseteq DOMAIN cols /\ \A n \in DOMAIN d : validateValue(cols[n], d[n])

\* The row d makes of row v, which is all defaults for an INSERT.
Written(t, v, d) ==
    [n \in Names |-> IF n \in DOMAIN d THEN Stored(physical[t][n], d[n]) ELSE v[n]]

Blank(t) ==
    [n \in Names |-> IF n \in DOMAIN physical[t] THEN Default(physical[t][n]) ELSE "null"]

\* NOT NULL constraints of table t.
NotNull(t, v) ==
    \A n \in DOMAIN physical[t] : v[n] = "null" => physical[t][n].kind = "nullable"

\* The columns named by a statement exist.
Known(t, ns) == physical[t] # NULL /\ ns \subseteq DOMAIN physical[t]

-----------------------------------------------------------------------------
(* Calls that are one transaction or one statement.                        *)

Count == calls < MaxCalls /\ calls' = calls + 1

\* Mutant of Creatable: an existing definition is replaced.
Creatable_Replace(t, l) == Distinct(l)

\* Validation and the primary key refuse a repeated column or table.
Creatable(t, l) == Distinct(l) /\ schema[t] = NULL

CreateTable(t, l) ==
    LET names == {l[i].name : i \in DOMAIN l} IN
    /\ Count
    /\ Creatable(t, l)
    /\ schema' = [schema EXCEPT ![t] =
          [n \in names |-> [type |-> l[At(l, n)].type, kind |-> l[At(l, n)].kind,
                            position |-> At(l, n) - 1]]]
    \* IF NOT EXISTS
    /\ physical' = [physical EXCEPT ![t] =
          IF @ = NULL THEN [n \in names |-> colFragment(l[At(l, n)])] ELSE @]
    /\ UNCHANGED <<rows, call, events, faults, history>>

\* Mutant of DeleteTable: the physical table is not dropped.
DeleteTable_KeepPhysical(t) ==
    /\ Count
    /\ schema' = [schema EXCEPT ![t] = NULL]
    /\ call' = [p \in Procs |-> [call[p] EXCEPT !.dropped = @ \/ call[p].table = t]]
    /\ UNCHANGED <<physical, rows, events, faults, history>>

\* The cascade takes the columns with the definition.
DeleteTable(t) ==
    /\ Count
    /\ schema' = [schema EXCEPT ![t] = NULL]
    /\ physical' = [physical EXCEPT ![t] = NULL]
    /\ rows' = [rows EXCEPT ![t] = [i \in Ids |-> NULL]]
    /\ call' = [p \in Procs |-> [call[p] EXCEPT !.dropped = @ \/ call[p].table = t]]
    /\ outdated' = outdated \ {t}
    /\ UNCHANGED <<events, faults, born, promoted, unchecked, lost>>

DeleteRecord(t, i) ==
    /\ Count
    /\ rows[t][i] # NULL
    /\ rows' = [rows EXCEPT ![t][i] = NULL]
    /\ UNCHANGED <<schema, physical, call, events, faults, history>>

Tagged(t, x) == {i \in Ids : rows[t][i] # NULL /\ rows[t][i].tag = x}

RollbackByFlagCtx(t, x) ==
    /\ Count
    /\ Tagged(t, x) # {}
    /\ rows' = [rows EXCEPT ![t] = [i \in Ids |-> IF i \in Tagged(t, x) THEN NULL ELSE @[i]]]
    /\ UNCHANGED <<schema, physical, call, events, faults, history>>

PromoteByFlagCtx(t, x) ==
    /\ Count
    /\ Tagged(t, x) # {}
    /\ rows' = [rows EXCEPT ![t] = [i \in Ids |->
          IF i \in Tagged(t, x) THEN [rows[t][i] EXCEPT !.tag = NoContext] ELSE rows[t][i]]]
    /\ promoted' = promoted \cup Tagged(t, x)
    /\ UNCHANGED <<schema, physical, call, events, faults, born, unchecked, lost, outdated>>

-----------------------------------------------------------------------------
(* Calls that read the registered columns first.                           *)

\* The definition row is there, or the call fails at once.
Begin(p, o, t, i, x, d, l) ==
    /\ Count
    /\ call[p] = Idle
    /\ schema[t] # NULL
    /\ call' = [call EXCEPT ![p] = [Idle EXCEPT !.at = "columns", !.op = o, !.table = t,
                                                !.id = i, !.ctx = x, !.arg = d, !.list = l]]
    /\ UNCHANGED <<schema, physical, rows, events, faults, history>>

InsertRecord(p, t, d) == Begin(p, "insert", t, NULL, NoContext, d, <<>>)
InsertRecordFlagged(p, t, d, x) == Begin(p, "insert", t, NULL, x, d, <<>>)
UpdateRecord(p, t, i, d) == Begin(p, "update", t, i, NoContext, d, <<>>)
GetRecord(p, t, i) == Begin(p, "get", t, i, NoContext, <<>>, <<>>)
QueryRecords(p, t) == Begin(p, "query", t, NULL, NoContext, <<>>, <<>>)
AddColumns(p, t, l) == Begin(p, "alter", t, NULL, NoContext, <<>>, l)

Goto(p, l) == call' = [call EXCEPT ![p].at = l]
Return(p) == call' = [call EXCEPT ![p] = Idle]

\* Where a call goes with the columns it has read.
AfterColumns(c, cols) ==
    IF c.at = "again" \/ c.op \in {"get", "query"} THEN "select"
    ELSE CASE c.op = "insert" -> IF buildInsertData(cols, c.arg) THEN "write" ELSE "idle"
           [] c.op = "update" -> IF ~buildSetClauses(cols, c.arg) THEN "idle"
                                 ELSE IF DOMAIN c.arg = {} THEN "definition" ELSE "write"
           [] c.op = "alter"  -> "write"

loadColumns(p) ==
    LET c == call[p]
        cols == IF schema[c.table] = NULL THEN <<>> ELSE schema[c.table]
        l == AfterColumns(c, cols)
    IN
    /\ c.at \in {"columns", "again"}
    /\ call' = [call EXCEPT ![p] =
          IF l = "idle" THEN Idle
          ELSE [c EXCEPT !.at = l, !.snap = cols, !.dropped = (schema[c.table] = NULL)]]
    /\ UNCHANGED <<schema, physical, rows, events, calls, faults, history>>

\* The INSERT of call p, accepted or refused by the physical table.
insert(p) ==
    LET c == call[p] IN
    /\ c.at = "write" /\ c.op = "insert"
    /\ \/ /\ Known(c.table, DOMAIN c.arg)
          /\ NotNull(c.table, Written(c.table, Blank(c.table), c.arg))
          /\ \E i \in Ids :
                /\ born[i] = NULL
                /\ rows' = [rows EXCEPT ![c.table][i] =
                      [tag |-> c.ctx, vals |-> Written(c.table, Blank(c.table), c.arg)]]
                /\ born' = [born EXCEPT ![i] = c.ctx]
                /\ unchecked' = IF c.dropped THEN unchecked \cup {i} ELSE unchecked
                /\ call' = [call EXCEPT ![p].at = "definition", ![p].id = i]
       \/ /\ ~ /\ Known(c.table, DOMAIN c.arg)
               /\ NotNull(c.table, Written(c.table, Blank(c.table), c.arg))
          /\ Return(p)
          /\ UNCHANGED <<rows, born, unchecked>>
    /\ UNCHANGED <<schema, physical, events, calls, faults, promoted, lost, outdated>>

\* Mutant of Updated: a replaced row keeps nothing but its id.
Updated_Replace(t, i, d) == [tag |-> NoContext, vals |-> Written(t, rows[t][i].vals, d)]

Updated(t, i, d) == [rows[t][i] EXCEPT !.vals = Written(t, @, d)]

\* The UPDATE of call p; it changes the record in place, whatever its tag.
update(p) ==
    LET c == call[p] IN
    /\ c.at = "write" /\ c.op = "update"
    /\ \/ /\ Known(c.table, DOMAIN c.arg)
          /\ rows[c.table][c.id] # NULL
          /\ NotNull(c.table, Updated(c.table, c.id, c.arg).vals)
          /\ rows' = [rows EXCEPT ![c.table][c.id] = Updated(c.table, c.id, c.arg)]
          /\ unchecked' = IF c.dropped THEN unchecked \cup {c.id} ELSE unchecked
          /\ Goto(p, "definition")
       \/ /\ ~ /\ Known(c.table, DOMAIN c.arg)
               /\ rows[c.table][c.id] # NULL
               /\ NotNull(c.table, Updated(c.table, c.id, c.arg).vals)
          /\ Return(p)
          /\ UNCHANGED <<rows, unchecked>>
    /\ UNCHANGED <<schema, physical, events, calls, faults, born, promoted, lost, outdated>>

\* Indices of the columns of list l that the definition read does not have.
Fresh(l, snap) == {i \in DOMAIN l : l[i].name \notin DOMAIN snap}

\* What AddColumns, the UNIQUE constraint and ALTER TABLE accept.  AddColumns
\* asks for a default, not for one that is a literal; SQLite takes a NOT NULL
\* column whose default is NULL as long as the table has no row.
Addable(t, l, snap) ==
    /\ \A i \in DOMAIN l \ Fresh(l, snap) :
          LET c == snap[l[i].name]
          IN c.type = l[i].type /\ (c.kind = "nullable") = (l[i].kind = "nullable")
    /\ \A i \in Fresh(l, snap) :
          /\ schema[t] # NULL
          /\ l[i].name \notin DOMAIN schema[t]
          /\ l[i].kind # "required"
          /\ l[i].kind = "broken" => \A r \in Ids : rows[t][r] = NULL
          /\ \A j \in Fresh(l, snap) : l[i].name = l[j].name => i = j

\* Mutant of position: columns are numbered from the request's list.
position_Index(l, snap, i) == i - 1

position(l, snap, i) == Cardinality(DOMAIN snap) + Cardinality({j \in Fresh(l, snap) : j < i})

\* The transaction of AddColumns.
alter(p) ==
    LET c == call[p]
        t == c.table
        new == {c.list[i].name : i \in Fresh(c.list, c.snap)}
        Added(n) == c.list[At(c.list, n)]
    IN
    /\ c.at = "write" /\ c.op = "alter"
    /\ \/ /\ Addable(t, c.list, c.snap)
          /\ new # {}
          /\ schema' = [schema EXCEPT ![t] =
                [n \in DOMAIN @ \cup new |->
                   IF n \in DOMAIN @ THEN @[n]
                   ELSE [type |-> Added(n).type, kind |-> Added(n).kind,
                         position |-> position(c.list, c.snap, At(c.list, n))]]]
          /\ physical' = [physical EXCEPT ![t] =
                [n \in DOMAIN @ \cup new |->
                   IF n \in DOMAIN @ THEN @[n] ELSE colFragment(Added(n))]]
          /\ rows' = [rows EXCEPT ![t] = [i \in Ids |->
                LET r == rows[t][i]
                IN IF r = NULL THEN NULL
                   ELSE [r EXCEPT !.vals = [n \in Names |->
                           IF n \in new THEN Default(Added(n)) ELSE r.vals[n]]]]]
          /\ outdated' = IF DOMAIN c.snap # DOMAIN schema[t] THEN outdated \cup {t} ELSE outdated
       \/ /\ ~Addable(t, c.list, c.snap) \/ new = {}
          /\ UNCHANGED <<stored, outdated>>
    /\ Return(p)
    /\ UNCHANGED <<events, calls, faults, born, promoted, unchecked, lost>>

\* First statement of the GetRecord that ends an insertion or an update.
definition(p) ==
    /\ call[p].at = "definition"
    /\ IF schema[call[p].table] = NULL THEN Return(p) ELSE Goto(p, "again")
    /\ UNCHANGED <<schema, physical, rows, events, calls, faults, history>>

\* Mutant of Announces: flagged insertions are announced as well.
Announces_Flagged(c) == c.op = "insert"

Announces(c) == c.op = "insert" /\ c.ctx = NoContext

\* The SELECT; what it finds is returned and, after an insertion, published.
select(p) ==
    LET c == call[p]
        found == Known(c.table, DOMAIN c.snap) /\ c.id # NULL /\ rows[c.table][c.id] # NULL
    IN
    /\ c.at = "select"
    /\ events' = IF found /\ Announces(c) THEN events \cup {c.id} ELSE events
    /\ Return(p)
    /\ UNCHANGED <<schema, physical, rows, calls, faults, history>>

\* A statement of call p fails, or the process dies under it.
Abandon(p) ==
    /\ call[p] # Idle
    /\ faults < MaxFaults
    /\ faults' = faults + 1
    /\ lost' = IF call[p].op = "insert" THEN lost \cup ({call[p].id} \ {NULL}) ELSE lost
    /\ Return(p)
    /\ UNCHANGED <<schema, physical, rows, events, calls, born, promoted, unchecked, outdated>>

-----------------------------------------------------------------------------
Transaction ==
    \E t \in Keys :
       \/ \E l \in Lists : CreateTable(t, l)
       \/ DeleteTable(t)
       \/ \E i \in Ids : DeleteRecord(t, i)
       \/ \E x \in Contexts : RollbackByFlagCtx(t, x) \/ PromoteByFlagCtx(t, x)

Request(p) ==
    \E t \in Keys :
       \/ \E d \in Data :
             \/ InsertRecord(p, t, d)
             \/ \E x \in Contexts : InsertRecordFlagged(p, t, d, x)
             \/ \E i \in Ids : UpdateRecord(p, t, i, d)
       \/ \E i \in Ids : GetRecord(p, t, i)
       \/ QueryRecords(p, t)
       \/ \E l \in Lists : AddColumns(p, t, l)

Continue(p) ==
    \/ loadColumns(p)
    \/ insert(p)
    \/ update(p)
    \/ alter(p)
    \/ definition(p)
    \/ select(p)

Next ==
    \/ Transaction
    \/ \E p \in Procs : Request(p) \/ Continue(p) \/ Abandon(p)

Spec == Init /\ [][Next]_vars

-----------------------------------------------------------------------------
\* A call that has read the columns named in D.
Call(D) ==
    [at : {"idle", "columns", "write", "definition", "again", "select"},
     op : {"none", "insert", "update", "get", "query", "alter"},
     table : Keys \cup {NULL}, id : Ids \cup {NULL}, ctx : Contexts \cup {NoContext},
     arg : Data \cup {<<>>},
     list : Lists \cup {<<>>}, snap : [D -> Column], dropped : BOOLEAN]

\* Every variable has its type.
TypeOK ==
    /\ DOMAIN schema = Keys /\ \A t \in Keys : schema[t] = NULL \/ Partial(schema[t], Column)
    /\ DOMAIN physical = Keys /\ \A t \in Keys : physical[t] = NULL \/ Partial(physical[t], Physical)
    /\ rows \in [Keys -> [Ids -> Row \cup {NULL}]]
    /\ DOMAIN call = Procs /\ \A p \in Procs : \E D \in SUBSET Names : call[p] \in Call(D)
    /\ events \subseteq Ids
    /\ {calls, faults} \subseteq Nat
    /\ born \in [Ids -> Contexts \cup {NoContext, NULL}]
    /\ promoted \subseteq Ids /\ unchecked \subseteq Ids /\ lost \subseteq Ids
    /\ outdated \subseteq Keys

\* The registry and the physical table have the same columns: every statement
\* built from what is registered names columns that exist, and only those.
RegistryMatchesTable ==
    \A t \in Keys :
       IF schema[t] = NULL THEN physical[t] = NULL
       ELSE physical[t] = [n \in DOMAIN schema[t] |-> colFragment(schema[t][n])]

\* A definition once read stays true of the table for as long as the table is
\* not deleted: columns are immutable, and AddColumns only adds some.
ReadColumnsStayTrue ==
    \A p \in Procs : LET c == call[p] IN
       c.at \in {"write", "select"} /\ ~c.dropped =>
          /\ schema[c.table] # NULL
          /\ \A n \in DOMAIN c.snap :
                n \in DOMAIN schema[c.table] /\ schema[c.table][n] = c.snap[n]

\* A record fits the schema its table has now, defaults of later columns
\* included, unless a call wrote it whose table was dropped after it had
\* checked the values (SQLite itself does not check types).
RowsFitSchema ==
    \A t \in Keys : \A i \in Ids \ unchecked :
       rows[t][i] # NULL =>
          /\ schema[t] # NULL
          /\ \A n \in DOMAIN schema[t] : LET v == rows[t][i].vals[n] IN
                \/ v = schema[t][n].type
                \/ v = "null" /\ schema[t][n].kind = "nullable"

\* Until it is promoted, what was inserted under a flag variant is what a
\* rollback of that variant removes, and nothing else is: the tag survives
\* every update and every change of the schema.
FlaggedUntilPromoted ==
    \A t \in Keys : \A i \in Ids :
       rows[t][i] # NULL =>
          rows[t][i].tag = (IF i \in promoted THEN NoContext ELSE born[i])

\* A record in the table was announced exactly if it was inserted outside
\* every flag variant, once its insertion is over and unless that was cut short.
AnnouncedUnlessFlagged ==
    \A t \in Keys : \A i \in Ids \ lost :
       rows[t][i] # NULL /\ ~(\E p \in Procs : call[p].op = "insert" /\ call[p].id = i) =>
          (i \in events) = (born[i] = NoContext)

\* Columns are numbered without gaps or repetitions, unless AddColumns worked
\* from a definition that had changed since it was read.
PositionsDense ==
    \A t \in Keys \ outdated :
       schema[t] # NULL =>
          {schema[t][n].position : n \in DOMAIN schema[t]}
             = 0..(Cardinality(DOMAIN schema[t]) - 1)

\* The records of each table that are in no draft, and those of each draft; the
\* ids given to a record, and to one of a draft.
Published == [t \in Keys |-> Tagged(t, NoContext)]
InDrafts == [t \in Keys |-> [x \in Contexts |-> Tagged(t, x)]]
Given == {i \in Ids : born[i] # NULL}
Staged == {i \in Ids : born[i] \in Contexts}

\* The engine implements tables with drafts, one per flag context: its records
\* are those without a tag and those with each.  So an update never publishes a
\* draft or brings back what a rollback took, although it writes what it had
\* read, and nothing is announced that was inserted under a flag variant.
Drafts == INSTANCE DraftTables WITH
    published <- Published, drafts <- InDrafts, given <- Given, staged <- Staged,
    announced <- events

KeepsDrafts == Drafts!Spec
=============================================================================
