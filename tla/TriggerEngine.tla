---------------------------- MODULE TriggerEngine ----------------------------
(***************************************************************************)
(* internal/trigger.Engine: the function_triggers rows, and the NATS       *)
(* subscriptions and cron entries that fire for them.                      *)
(*                                                                         *)
(* A registration is what the bus or the scheduler holds; the engine finds *)
(* it again only through its subs and cronEnts maps.  A trigger never      *)
(* changes its event type, so its entry is in one map only and the two are *)
(* one function here.  The mutex guards single accesses to the maps:       *)
(* between the statements and the accesses of one call others may run.     *)
(***************************************************************************)
EXTENDS FiniteSets, Naturals

CONSTANTS
    Ids,      \* trigger ids
    Fns,      \* functions
    Procs,    \* requests that may be in the engine at once
    Handles,  \* registrations the bus and the scheduler may have made
    Types,    \* event types: "http" and those with registrations
    Configs,  \* trigger configurations
    GoodPairs,\* type and configuration that subscribe or AddFunc accept
    MaxCalls, \* bound on the number of calls
    NULL      \* no row, no registration, no entry

Trigger == [function : Fns, type : Types, config : Configs, enabled : BOOLEAN]

Registration == [id : Ids, config : Configs]

ASSUME TriggerAssumption ==
    /\ GoodPairs \subseteq (Types \ {"http"}) \X Configs
    /\ MaxCalls \in Nat
    /\ NULL \notin Trigger \cup Registration \cup Handles

VARIABLES
    fns,     \* the functions table
    row,     \* row[i]: the function_triggers row of i, or NULL
    made,    \* ids that were given out
    live,    \* live[h]: what registration h fires for, or NULL
    entry,   \* entry[i]: i's handle in subs or cronEnts, or NULL
    pc,      \* pc[p]: where call p stands
    id,      \* id[p]: the trigger it is about
    want,    \* want[p]: the enabled parameter
    t,       \* t[p]: the *Trigger the call holds, or NULL
    sub,     \* sub[p]: a registration it has made and not recorded, or NULL
    calls,   \* number of calls so far
    spoiled, \* history: ids two calls of which overlapped, or one of whose calls
             \* failed half-way, or whose function was deleted
    alone,   \* history: alone[p] while no other call about id[p] overlapped p
    deleted  \* history: ids a Delete of which ran alone and returned nil

vars == <<fns, row, made, live, entry, pc, id, want, t, sub, calls, spoiled, alone,
          deleted>>

Locations == {"idle", "get", "deactivate", "activate", "record", "deactivateFirst",
              "deleteRow"}

Init ==
    /\ fns = Fns
    /\ row = [i \in Ids |-> NULL]
    /\ made = {}
    /\ live = [h \in Handles |-> NULL]
    /\ entry = [i \in Ids |-> NULL]
    /\ pc = [p \in Procs |-> "idle"]
    /\ id \in [Procs -> Ids]
    /\ want = [p \in Procs |-> FALSE]
    /\ t = [p \in Procs |-> NULL]
    /\ sub = [p \in Procs |-> NULL]
    /\ calls = 0
    /\ spoiled = {}
    /\ alone = [p \in Procs |-> TRUE]
    /\ deleted = {}

-----------------------------------------------------------------------------
Goto(p, l) == pc' = [pc EXCEPT ![p] = l]

InCall(p, i) == pc[p] # "idle" /\ id[p] = i

\* A call about i begins.
Begin(p, i) ==
    /\ pc[p] = "idle"
    /\ calls < MaxCalls
    /\ calls' = calls + 1
    /\ id' = [id EXCEPT ![p] = i]
    /\ spoiled' = IF \E q \in Procs : InCall(q, i) THEN spoiled \cup {i} ELSE spoiled
    /\ alone' = [q \in Procs |-> IF q = p THEN \A r \in Procs : ~InCall(r, i)
                                 ELSE alone[q] /\ ~InCall(q, i)]

\* A call returns.
Return(p) ==
    /\ Goto(p, "idle")
    /\ want' = [want EXCEPT ![p] = FALSE]
    /\ t' = [t EXCEPT ![p] = NULL]
    /\ sub' = [sub EXCEPT ![p] = NULL]

-----------------------------------------------------------------------------
(* Create: the INSERT, then activate if enabled; its error is dropped.     *)

\* An unknown function is a foreign-key error; ids are random and never reused.
Create(p, i, r) ==
    /\ Begin(p, i)
    /\ i \notin made
    /\ made' = made \cup {i}
    /\ IF r.function \in fns
       THEN /\ row' = [row EXCEPT ![i] = r]
            /\ Goto(p, IF r.enabled THEN "activate" ELSE "idle")
            /\ t' = [t EXCEPT ![p] = IF r.enabled THEN r ELSE NULL]
       ELSE UNCHANGED <<row, pc, t>>
    /\ UNCHANGED <<fns, live, entry, want, sub, deleted>>

\* activate as far as Subscribe or AddFunc: nothing for "http", an error that the
\* caller drops for a configuration no subject or schedule can be made of.
activate(p) ==
    /\ pc[p] = "activate"
    /\ IF <<t[p].type, t[p].config>> \in GoodPairs
       THEN \E h \in Handles :
               /\ live[h] = NULL
               /\ live' = [live EXCEPT ![h] = [id |-> id[p], config |-> t[p].config]]
               /\ sub' = [sub EXCEPT ![p] = h]
               /\ Goto(p, "record")
               /\ UNCHANGED <<want, t>>
       ELSE /\ Return(p)
            /\ UNCHANGED live
    /\ UNCHANGED <<fns, row, made, entry, id, calls, spoiled, alone, deleted>>

\* e.subs[t.ID] = sub, under the mutex, whatever the entry was.
record(p) ==
    /\ pc[p] = "record"
    /\ entry' = [entry EXCEPT ![id[p]] = sub[p]]
    /\ Return(p)
    /\ UNCHANGED <<fns, row, made, live, id, calls, spoiled, alone, deleted>>

-----------------------------------------------------------------------------
(* Update: the UPDATE, a SELECT, deactivate, then activate if enabled.     *)

\* Nobody names an id before it is given out; no check that a row was updated.
Update(p, i, e, c) ==
    /\ Begin(p, i)
    /\ i \in made
    /\ row' = IF row[i] = NULL THEN row
              ELSE [row EXCEPT ![i].enabled = e, ![i].config = c]
    /\ want' = [want EXCEPT ![p] = e]
    /\ Goto(p, "get")
    /\ UNCHANGED <<fns, made, live, entry, t, sub, deleted>>

\* Mutant of Get: Update does not look whether a row was found.
Get_NoNilCheck(p) ==
    /\ pc[p] = "get"
    /\ t' = [t EXCEPT ![p] = row[id[p]]]
    /\ Goto(p, "deactivate")
    /\ UNCHANGED <<fns, row, made, live, entry, id, want, sub, calls, spoiled, alone, deleted>>

\* Mutant of Get: Update does not deactivate what was there.
Get_KeepsOld(p) ==
    /\ pc[p] = "get"
    /\ IF row[id[p]] # NULL /\ want[p]
       THEN /\ t' = [t EXCEPT ![p] = row[id[p]]]
            /\ Goto(p, "activate")
            /\ UNCHANGED <<want, sub>>
       ELSE Return(p)
    /\ UNCHANGED <<fns, row, made, live, entry, id, calls, spoiled, alone, deleted>>

\* The row as it is now; none ends the call.
Get(p) ==
    /\ pc[p] = "get"
    /\ IF row[id[p]] # NULL
       THEN /\ t' = [t EXCEPT ![p] = row[id[p]]]
            /\ Goto(p, "deactivate")
            /\ UNCHANGED <<want, sub>>
       ELSE Return(p)
    /\ UNCHANGED <<fns, row, made, live, entry, id, calls, spoiled, alone, deleted>>

\* Mutant of unregister: the map entry stays.
unregister_KeepsEntry(i) ==
    /\ live' = IF entry[i] = NULL THEN live ELSE [live EXCEPT ![entry[i]] = NULL]
    /\ UNCHANGED entry

\* deactivate, all of it under the mutex.
unregister(i) ==
    /\ live' = IF entry[i] = NULL THEN live ELSE [live EXCEPT ![entry[i]] = NULL]
    /\ entry' = [entry EXCEPT ![i] = NULL]

\* In Update: the parameter, not the row read, decides whether to activate.
deactivate(p) ==
    /\ pc[p] = "deactivate"
    /\ unregister(id[p])
    /\ IF want[p]
       THEN Goto(p, "activate") /\ UNCHANGED <<want, t, sub>>
       ELSE Return(p)
    /\ UNCHANGED <<fns, row, made, id, calls, spoiled, alone, deleted>>

-----------------------------------------------------------------------------
(* Delete: deactivate, then the DELETE.                                    *)

Delete(p, i) ==
    /\ Begin(p, i)
    /\ i \in made
    /\ Goto(p, "deactivateFirst")
    /\ UNCHANGED <<fns, row, made, live, entry, want, t, sub, deleted>>

deactivateFirst(p) ==
    /\ pc[p] = "deactivateFirst"
    /\ unregister(id[p])
    /\ Goto(p, "deleteRow")
    /\ UNCHANGED <<fns, row, made, id, want, t, sub, calls, spoiled, alone, deleted>>

deleteRow(p) ==
    /\ pc[p] = "deleteRow"
    /\ row' = [row EXCEPT ![id[p]] = NULL]
    /\ deleted' = IF alone[p] THEN deleted \cup {id[p]} ELSE deleted
    /\ Return(p)
    /\ UNCHANGED <<fns, made, live, entry, id, calls, spoiled, alone>>

-----------------------------------------------------------------------------
\* A statement after the first step fails (the client went away and its context
\* is cancelled), or Subscribe does: the call ends where it is.
fails(p) ==
    /\ pc[p] \in {"get", "activate", "deleteRow"}
    /\ spoiled' = spoiled \cup {id[p]}
    /\ Return(p)
    /\ UNCHANGED <<fns, row, made, live, entry, id, calls, alone, deleted>>

\* function.Store.Delete: the rows of its triggers go with the function (ON
\* DELETE CASCADE), their registrations and entries stay.
DeleteFunction(f) ==
    /\ f \in fns
    /\ fns' = fns \ {f}
    /\ LET gone == {i \in Ids : row[i] # NULL /\ row[i].function = f}
       IN /\ row' = [i \in Ids |-> IF i \in gone THEN NULL ELSE row[i]]
          /\ spoiled' = spoiled \cup gone
    /\ UNCHANGED <<made, live, entry, pc, id, want, t, sub, calls, alone, deleted>>

\* Triggers Start activates.
Startable == {i \in Ids : /\ row[i] # NULL
                          /\ row[i].enabled
                          /\ <<row[i].type, row[i].config>> \in GoodPairs}

\* The process ends (Stop, or a crash) and starts again: a new bus, a new
\* scheduler, and Start activates the enabled rows before requests are served.
Restart ==
    /\ calls < MaxCalls
    /\ calls' = calls + 1
    /\ \E e \in [Ids -> Handles \cup {NULL}] :
          /\ \A i \in Ids : e[i] # NULL <=> i \in Startable
          /\ \A i, j \in Startable : e[i] = e[j] => i = j
          /\ entry' = e
          /\ live' = [h \in Handles |->
                        IF \E i \in Startable : e[i] = h
                        THEN LET i == CHOOSE i \in Startable : e[i] = h
                             IN [id |-> i, config |-> row[i].config]
                        ELSE NULL]
    /\ pc' = [p \in Procs |-> "idle"]
    /\ want' = [p \in Procs |-> FALSE]
    /\ t' = [p \in Procs |-> NULL]
    /\ sub' = [p \in Procs |-> NULL]
    /\ spoiled' = {}
    /\ alone' = [p \in Procs |-> TRUE]
    /\ UNCHANGED <<fns, row, made, id, deleted>>

-----------------------------------------------------------------------------
Request(p) ==
    \E i \in Ids :
       \/ \E r \in Trigger : Create(p, i, r)
       \/ \E e \in BOOLEAN, c \in Configs : Update(p, i, e, c)
       \/ Delete(p, i)

Continue(p) ==
    \/ activate(p) \/ record(p)
    \/ Get(p) \/ deactivate(p)
    \/ deactivateFirst(p) \/ deleteRow(p)
    \/ fails(p)

Next ==
    \/ \E p \in Procs : Request(p) \/ Continue(p)
    \/ \E f \in Fns : DeleteFunction(f)
    \/ Restart

Spec == Init /\ [][Next]_vars

-----------------------------------------------------------------------------
(* Properties.                                                             *)

\* Types, and at each place in the code the pointers it dereferences.
TypeOK ==
    /\ fns \subseteq Fns
    /\ row \in [Ids -> Trigger \cup {NULL}]
    /\ made \subseteq Ids
    /\ live \in [Handles -> Registration \cup {NULL}]
    /\ entry \in [Ids -> Handles \cup {NULL}]
    /\ pc \in [Procs -> Locations]
    /\ id \in [Procs -> Ids]
    /\ want \in [Procs -> BOOLEAN]
    /\ t \in [Procs -> Trigger \cup {NULL}]
    /\ sub \in [Procs -> Handles \cup {NULL}]
    /\ calls \in 0..MaxCalls
    /\ spoiled \subseteq Ids
    /\ alone \in [Procs -> BOOLEAN]
    /\ deleted \subseteq Ids
    /\ \A p \in Procs : /\ pc[p] \in {"deactivate", "activate"} => t[p] # NULL
                        /\ pc[p] = "record" => sub[p] # NULL

Quiet(i) == \A p \in Procs : ~InCall(p, i)

\* The registrations that fire for i.
Firing(i) == {h \in Handles : live[h] # NULL /\ live[h].id = i}

\* A map entry leads to a registration of that very trigger, whatever calls
\* overlap or fail: deactivate never unsubscribes twice, or somebody else's.
EntriesAreLive ==
    \A i \in Ids : entry[i] # NULL => entry[i] \in Firing(i)

\* Exactly the registration the row of i asks for: none, or one, with the
\* configuration of the row, that the engine can find again.
AsStored(i) ==
    IF i \in Startable
    THEN /\ Firing(i) = {entry[i]}
         /\ live[entry[i]].config = row[i].config
    ELSE Firing(i) = {} /\ entry[i] = NULL

\* Once the calls about a trigger have returned, an event fires it exactly once
\* if its row says so and not at all otherwise.
RegisteredAsStored == \A i \in Ids \ spoiled : Quiet(i) => AsStored(i)

\* "Delete removes a trigger and its active subscription or cron job": after a
\* Delete that ran alone, nothing fires for the trigger.
DeletedIsSilent == \A i \in deleted : Quiet(i) => Firing(i) = {}
=============================================================================
