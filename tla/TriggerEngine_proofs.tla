------------------------ MODULE TriggerEngine_proofs ------------------------
(***************************************************************************)
(* Proofs about TriggerEngine: types, the entries of the maps, and that a  *)
(* trigger whose calls neither overlapped nor failed is registered as its  *)
(* row says.                                                               *)
(***************************************************************************)
EXTENDS TriggerEngine, TLAPS

\* The constants that are never a record or a handle.
LEMMA Nulls ==
    /\ \A r \in Trigger : r # NULL
    /\ \A g \in Registration : g # NULL
    /\ \A h \in Handles : h # NULL
  BY TriggerAssumption

\* Types hold initially.
LEMMA TypeInit == Init => TypeOK
  BY TriggerAssumption DEF Init, TypeOK, Locations

\* A call's return leaves its variables in their types.
LEMMA ReturnType ==
    ASSUME TypeOK, NEW p \in Procs, Return(p)
    PROVE  /\ pc' \in [Procs -> Locations]
           /\ want' \in [Procs -> BOOLEAN]
           /\ t' \in [Procs -> Trigger \cup {NULL}]
           /\ sub' \in [Procs -> Handles \cup {NULL}]
           /\ \A q \in Procs : /\ pc'[q] \in {"deactivate", "activate"} => t'[q] # NULL
                               /\ pc'[q] = "record" => sub'[q] # NULL
  BY DEF TypeOK, Return, Goto, Locations

\* So does its beginning.
LEMMA BeginType ==
    ASSUME TypeOK, NEW p \in Procs, NEW i \in Ids, Begin(p, i)
    PROVE  /\ calls' \in 0..MaxCalls
           /\ id' \in [Procs -> Ids]
           /\ spoiled' \subseteq Ids
           /\ alone' \in [Procs -> BOOLEAN]
<1>1. calls' \in 0..MaxCalls /\ id' \in [Procs -> Ids]
  BY TriggerAssumption DEF TypeOK, Begin
<1>2. spoiled' \subseteq Ids
  BY DEF TypeOK, Begin
<1>3. \A q \in Procs : (IF q = p THEN \A r \in Procs : ~InCall(r, i)
                                ELSE alone[q] /\ ~InCall(q, i)) \in BOOLEAN
  BY Zenon
<1>4. alone' \in [Procs -> BOOLEAN]
  BY <1>3, Zenon DEF Begin
<1> QED BY <1>1, <1>2, <1>4

\* And deactivate.
LEMMA UnregisterType ==
    ASSUME TypeOK, NEW i \in Ids, unregister(i)
    PROVE  /\ live' \in [Handles -> Registration \cup {NULL}]
           /\ entry' \in [Ids -> Handles \cup {NULL}]
<1>1. CASE entry[i] = NULL
  BY <1>1 DEF TypeOK, unregister
<1>2. CASE entry[i] # NULL
  <2>1. live' = [live EXCEPT ![entry[i]] = NULL]
    BY <1>2 DEF unregister
  <2>2. live' \in [Handles -> Registration \cup {NULL}]
    BY <2>1 DEF TypeOK
  <2> QED BY <2>2 DEF TypeOK, unregister
<1> QED BY <1>1, <1>2

\* Every step of a call preserves the types.
LEMMA TypeCall ==
    ASSUME TypeOK, NEW p \in Procs, Request(p) \/ Continue(p)
    PROVE  TypeOK'
<1>1. ASSUME NEW i \in Ids, NEW r \in Trigger, Create(p, i, r) PROVE TypeOK'
  <2>1. row' \in [Ids -> Trigger \cup {NULL}] /\ made' \subseteq Ids
    BY <1>1 DEF TypeOK, Create
  <2>2. /\ pc' \in [Procs -> Locations] /\ t' \in [Procs -> Trigger \cup {NULL}]
        /\ \A q \in Procs : /\ pc'[q] \in {"deactivate", "activate"} => t'[q] # NULL
                            /\ pc'[q] = "record" => sub'[q] # NULL
    BY <1>1, Nulls DEF TypeOK, Create, Goto, Locations
  <2> QED BY <1>1, <2>1, <2>2, BeginType DEF TypeOK, Create
<1>2. ASSUME NEW i \in Ids, NEW e \in BOOLEAN, NEW c \in Configs, Update(p, i, e, c)
      PROVE  TypeOK'
  <2>1. row' \in [Ids -> Trigger \cup {NULL}]
    <3>1. CASE row[i] = NULL
      BY <1>2, <3>1 DEF TypeOK, Update
    <3>2. CASE row[i] # NULL
      <4> DEFINE r == [row[i] EXCEPT !.enabled = e, !.config = c]
      <4>1. row[i] \in Trigger
        BY <3>2 DEF TypeOK
      <4>2. r \in Trigger
        BY <4>1 DEF Trigger
      <4>3. row' = [row EXCEPT ![i] = r]
        BY <1>2, <3>2 DEF Update
      <4> HIDE DEF r
      <4> QED BY <4>2, <4>3 DEF TypeOK
    <3> QED BY <3>1, <3>2
  <2> QED BY <1>2, <2>1, BeginType DEF TypeOK, Update, Goto, Locations
<1>3. ASSUME NEW i \in Ids, Delete(p, i) PROVE TypeOK'
  BY <1>3, BeginType DEF TypeOK, Delete, Goto, Locations
<1>4. CASE activate(p)
  <2>1. CASE <<t[p].type, t[p].config>> \in GoodPairs
    <3>1. PICK h \in Handles :
             /\ live[h] = NULL
             /\ live' = [live EXCEPT ![h] = [id |-> id[p], config |-> t[p].config]]
             /\ sub' = [sub EXCEPT ![p] = h]
             /\ Goto(p, "record")
             /\ UNCHANGED <<want, t>>
      BY <1>4, <2>1 DEF activate
    <3>2. [id |-> id[p], config |-> t[p].config] \in Registration
      BY <1>4, Nulls DEF activate, TypeOK, Registration, Trigger
    <3> QED BY <1>4, <3>1, <3>2, Nulls DEF activate, TypeOK, Goto, Locations
  <2>2. CASE <<t[p].type, t[p].config>> \notin GoodPairs
    BY <1>4, <2>2, ReturnType DEF activate, TypeOK
  <2> QED BY <2>1, <2>2
<1>5. CASE record(p)
  <2>1. entry' \in [Ids -> Handles \cup {NULL}]
    BY <1>5 DEF record, TypeOK
  <2> QED BY <1>5, <2>1, ReturnType DEF record, TypeOK
<1>6. CASE Get(p)
  <2>1. CASE row[id[p]] # NULL
    BY <1>6, <2>1 DEF Get, TypeOK, Goto, Locations
  <2>2. CASE row[id[p]] = NULL
    BY <1>6, <2>2, ReturnType DEF Get, TypeOK
  <2> QED BY <2>1, <2>2
<1>7. CASE deactivate(p)
  <2>1. CASE want[p]
    BY <1>7, <2>1, UnregisterType DEF deactivate, TypeOK, Goto, Locations
  <2>2. CASE ~want[p]
    BY <1>7, <2>2, UnregisterType, ReturnType DEF deactivate, TypeOK
  <2> QED BY <2>1, <2>2
<1>8. CASE deactivateFirst(p)
  BY <1>8, UnregisterType DEF deactivateFirst, TypeOK, Goto, Locations
<1>9. CASE deleteRow(p)
  <2>1. row' \in [Ids -> Trigger \cup {NULL}] /\ deleted' \subseteq Ids
    BY <1>9 DEF deleteRow, TypeOK
  <2> QED BY <1>9, <2>1, ReturnType DEF deleteRow, TypeOK
<1>10. CASE fails(p)
  <2>1. spoiled' \subseteq Ids
    BY <1>10 DEF fails, TypeOK
  <2> QED BY <1>10, <2>1, ReturnType DEF fails, TypeOK
<1> QED BY <1>1, <1>2, <1>3, <1>4, <1>5, <1>6, <1>7, <1>8, <1>9, <1>10
        DEF Request, Continue

\* Start gives every trigger it activates a registration of its own.
LEMMA RestartLive ==
    ASSUME TypeOK, Restart
    PROVE  /\ entry' \in [Ids -> Handles \cup {NULL}]
           /\ live' \in [Handles -> Registration \cup {NULL}]
           /\ \A i \in Ids : entry'[i] # NULL <=> i \in Startable
           /\ \A i \in Startable : /\ entry'[i] \in Handles
                                   /\ live'[entry'[i]] = [id |-> i, config |-> row[i].config]
           /\ \A h \in Handles : live'[h] # NULL =>
                 \E i \in Startable : entry'[i] = h /\ live'[h].id = i
<1>1. PICK e \in [Ids -> Handles \cup {NULL}] :
         /\ \A i \in Ids : e[i] # NULL <=> i \in Startable
         /\ \A i, j \in Startable : e[i] = e[j] => i = j
         /\ entry' = e
         /\ live' = [h \in Handles |->
                       IF \E i \in Startable : e[i] = h
                       THEN LET i == CHOOSE i \in Startable : e[i] = h
                            IN [id |-> i, config |-> row[i].config]
                       ELSE NULL]
  BY DEF Restart
<1>2. \A i \in Startable : i \in Ids /\ row[i].config \in Configs /\ e[i] \in Handles
  BY <1>1 DEF TypeOK, Startable, Trigger
<1>3. ASSUME NEW i \in Startable
      PROVE  live'[e[i]] = [id |-> i, config |-> row[i].config]
  <2>1. (CHOOSE j \in Startable : e[j] = e[i]) = i
    BY <1>1
  <2>2. e[i] \in Handles
    BY <1>2
  <2> QED BY <1>1, <2>1, <2>2
<1>4. ASSUME NEW h \in Handles, ~\E i \in Startable : e[i] = h
      PROVE  live'[h] = NULL
  BY <1>1, <1>4
<1>5. \A i \in Startable : [id |-> i, config |-> row[i].config] \in Registration
  BY <1>2 DEF Registration
<1>6. live' = [h \in Handles |-> live'[h]]
  BY <1>1
<1>7. ASSUME NEW h \in Handles PROVE live'[h] \in Registration \cup {NULL}
  <2>1. CASE \E i \in Startable : e[i] = h
    BY <1>3, <1>5, <2>1
  <2>2. CASE ~\E i \in Startable : e[i] = h
    BY <1>4, <2>2
  <2> QED BY <2>1, <2>2
<1> QED BY <1>1, <1>2, <1>3, <1>4, <1>5, <1>6, <1>7

\* Every step preserves the types.
LEMMA TypeNext == TypeOK /\ [Next]_vars => TypeOK'
<1> SUFFICES ASSUME TypeOK, [Next]_vars PROVE TypeOK'
  OBVIOUS
<1>1. ASSUME NEW p \in Procs, Request(p) \/ Continue(p) PROVE TypeOK'
  BY <1>1, TypeCall
<1>2. ASSUME NEW f \in Fns, DeleteFunction(f) PROVE TypeOK'
  BY <1>2 DEF DeleteFunction, TypeOK
<1>3. CASE Restart
  <2>1. /\ pc' \in [Procs -> Locations] /\ want' \in [Procs -> BOOLEAN]
        /\ t' \in [Procs -> Trigger \cup {NULL}] /\ sub' \in [Procs -> Handles \cup {NULL}]
        /\ \A p \in Procs : pc'[p] = "idle"
        /\ calls' \in 0..MaxCalls /\ spoiled' \subseteq Ids
        /\ alone' \in [Procs -> BOOLEAN]
    BY <1>3, TriggerAssumption DEF Restart, TypeOK, Locations
  <2>2. UNCHANGED <<fns, row, made, id, deleted>>
    BY <1>3 DEF Restart
  <2> QED BY <1>3, <2>1, <2>2, RestartLive DEF TypeOK
<1>4. CASE UNCHANGED vars
  BY <1>4 DEF vars, TypeOK
<1> QED BY <1>1, <1>2, <1>3, <1>4 DEF Next

\* The engine's state always has its types, and no call dereferences nil.
THEOREM TypeCorrect == Spec => []TypeOK
  BY TypeInit, TypeNext, PTL DEF Spec

-----------------------------------------------------------------------------
(* Handles: an entry leads to a registration of its trigger, and what a    *)
(* call has registered and not recorded is in no entry and no other call.  *)

Fires(h, i) == live[h] # NULL /\ live[h].id = i

Owned ==
    /\ \A i \in Ids : entry[i] # NULL => Fires(entry[i], i)
    /\ \A p \in Procs : pc[p] = "record" =>
          Fires(sub[p], id[p]) /\ \A i \in Ids : entry[i] # sub[p]
    /\ \A p, q \in Procs : pc[p] = "record" /\ pc[q] = "record" /\ sub[p] = sub[q] => p = q

(* Calls: what holds of trigger i while the one call about it is at each   *)
(* place, as long as i is not spoiled.                                     *)

Silent(i) == entry[i] = NULL /\ \A h \in Handles : ~Fires(h, i)

Only(h, i) ==
    /\ h \in Handles
    /\ Fires(h, i)
    /\ \A g \in Handles : Fires(g, i) => g = h

\* Nothing fires for i but what its entry leads to.
Tidy(i) == IF entry[i] = NULL THEN Silent(i) ELSE Only(entry[i], i)

\* AsStored, in these terms.
Registered(i) ==
    IF i \in Startable
    THEN Only(entry[i], i) /\ live[entry[i]].config = row[i].config
    ELSE Silent(i)

CallOK(p) ==
    LET i == id[p]
    IN /\ pc[p] = "get" => /\ Tidy(i)
                           /\ row[i] = NULL => Silent(i)
                           /\ row[i] # NULL => row[i].enabled = want[p]
       /\ pc[p] = "deactivate" => /\ Tidy(i)
                                  /\ t[p] = row[i]
                                  /\ row[i].enabled = want[p]
       /\ pc[p] = "deactivateFirst" => Tidy(i)
       /\ pc[p] = "activate" => Silent(i) /\ t[p] = row[i] /\ row[i].enabled
       /\ pc[p] = "record" => /\ entry[i] = NULL
                              /\ Only(sub[p], i)
                              /\ i \in Startable
                              /\ live[sub[p]].config = row[i].config
       /\ pc[p] = "deleteRow" => Silent(i)

Orderly ==
    /\ \A i \in Ids \ made : row[i] = NULL
    /\ \A p, q \in Procs : InCall(p, id[q]) /\ pc[q] # "idle" /\ p # q => id[p] \in spoiled
    /\ \A i \in Ids \ spoiled : Quiet(i) => Registered(i)
    /\ \A p \in Procs : pc[p] # "idle" /\ id[p] \notin spoiled => CallOK(p)

\* Registered is AsStored.
LEMMA RegisteredDef ==
    ASSUME TypeOK, NEW i \in Ids
    PROVE  Registered(i) <=> AsStored(i)
<1>1. Firing(i) = {h \in Handles : Fires(h, i)}
  BY DEF Firing, Fires
<1>2. entry[i] \in Handles \cup {NULL} /\ NULL \notin Handles
  BY Nulls DEF TypeOK
<1> QED BY <1>1, <1>2 DEF Registered, AsStored, Silent, Only

\* unregister removes one registration, that of i.
LEMMA UnregisterEffect ==
    ASSUME TypeOK, Owned, NEW i \in Ids, unregister(i)
    PROVE  /\ entry' = [entry EXCEPT ![i] = NULL]
           /\ \A h \in Handles : live'[h] = IF entry[i] = h THEN NULL ELSE live[h]
           /\ entry[i] # NULL => Fires(entry[i], i)
  BY Nulls DEF TypeOK, Owned, unregister

\* Init and every step preserve the ownership of handles.
LEMMA OwnedInit == Init => Owned
  BY DEF Init, Owned

LEMMA OwnedNext == TypeOK /\ Owned /\ [Next]_vars => Owned'
<1> SUFFICES ASSUME TypeOK, Owned, [Next]_vars PROVE Owned'
  OBVIOUS
<1> DEFINE Same(p) == /\ pc'[p] = "record" => pc[p] = "record"
                      /\ sub'[p] = sub[p] \/ pc'[p] = "idle"
                      /\ id'[p] = id[p] \/ pc'[p] # "record"
<1>1. ASSUME UNCHANGED <<live, entry>>, \A p \in Procs : Same(p) PROVE Owned'
  BY <1>1 DEF Owned, Fires
<1>2. ASSUME NEW p \in Procs, activate(p) PROVE Owned'
  <2>1. CASE <<t[p].type, t[p].config>> \in GoodPairs
    <3>1. PICK h \in Handles :
             /\ live[h] = NULL
             /\ live' = [live EXCEPT ![h] = [id |-> id[p], config |-> t[p].config]]
             /\ sub' = [sub EXCEPT ![p] = h]
             /\ Goto(p, "record")
      BY <1>2, <2>1 DEF activate
    <3>2. UNCHANGED <<entry, id>>
      BY <1>2 DEF activate
    <3>3. [id |-> id[p], config |-> t[p].config] \in Registration
      BY <1>2, Nulls DEF activate, TypeOK, Registration, Trigger
    <3>4. /\ live'[h] # NULL /\ live'[h].id = id[p]
          /\ \A g \in Handles \ {h} : live'[g] = live[g]
          /\ sub'[p] = h /\ \A q \in Procs \ {p} : sub'[q] = sub[q] /\ pc'[q] = pc[q]
      BY <3>1, <3>3, Nulls DEF TypeOK, Goto
    <3>5. \A i \in Ids : entry[i] # h
      BY <3>1, Nulls DEF Owned, Fires
    <3>6. \A q \in Procs : pc[q] = "record" => sub[q] # h /\ sub[q] \in Handles
      BY <3>1 DEF Owned, Fires, TypeOK
    <3>7. \A i \in Ids : entry[i] # NULL => entry[i] \in Handles
      BY DEF TypeOK
    <3> QED BY <3>2, <3>4, <3>5, <3>6, <3>7 DEF Owned, Fires
  <2>2. CASE <<t[p].type, t[p].config>> \notin GoodPairs
    <3>1. UNCHANGED <<live, entry>> /\ \A q \in Procs : Same(q)
      BY <1>2, <2>2 DEF activate, Return, Goto, TypeOK
    <3> QED BY <1>1, <3>1
  <2> QED BY <2>1, <2>2
<1>3. ASSUME NEW p \in Procs, record(p) PROVE Owned'
  BY <1>3 DEF record, Return, Goto, Owned, Fires, TypeOK
<1>4. ASSUME NEW p \in Procs, deactivate(p) \/ deactivateFirst(p) PROVE Owned'
  <2>1. unregister(id[p]) /\ id' = id /\ id[p] \in Ids
    BY <1>4 DEF deactivate, deactivateFirst, TypeOK
  <2>2. \A q \in Procs : pc'[q] = "record" => pc[q] = "record" /\ sub'[q] = sub[q]
    BY <1>4 DEF deactivate, deactivateFirst, Return, Goto, TypeOK
  <2>3. \A i \in Ids \ {id[p]} : entry[i] # NULL => entry[i] # entry[id[p]]
    BY <2>1 DEF Owned, Fires
  <2>4. \A i \in Ids : entry[i] # NULL => entry[i] \in Handles
    BY DEF TypeOK
  <2>5. \A q \in Procs : pc[q] = "record" => sub[q] \in Handles
    BY DEF TypeOK
  <2>6. \A h \in Handles : live'[h] = IF entry[id[p]] = h THEN NULL ELSE live[h]
    BY <2>1, UnregisterEffect
  <2>7. entry' = [entry EXCEPT ![id[p]] = NULL]
    BY <2>1, UnregisterEffect
  <2> QED BY <2>1, <2>2, <2>3, <2>4, <2>5, <2>6, <2>7 DEF Owned, Fires, TypeOK
<1>5. ASSUME NEW p \in Procs, NEW i \in Ids,
             \/ \E r \in Trigger : Create(p, i, r)
             \/ \E e \in BOOLEAN, c \in Configs : Update(p, i, e, c)
             \/ Delete(p, i)
      PROVE  Owned'
  <2>1. UNCHANGED <<live, entry, sub>>
    BY <1>5 DEF Create, Update, Delete
  <2>2. /\ pc[p] = "idle" /\ id' = [id EXCEPT ![p] = i]
        /\ pc' = pc \/ \E l \in Locations \ {"record"} : pc' = [pc EXCEPT ![p] = l]
    BY <1>5 DEF Create, Update, Delete, Begin, Goto, Locations
  <2>3. \A q \in Procs : Same(q)
    BY <2>1, <2>2 DEF TypeOK
  <2> QED BY <1>1, <2>1, <2>3
<1>6. ASSUME NEW p \in Procs, Get(p) \/ deleteRow(p) \/ fails(p) PROVE Owned'
  <2>1. UNCHANGED <<live, entry>> /\ \A q \in Procs : Same(q)
    BY <1>6 DEF Get, deleteRow, fails, Return, Goto, TypeOK
  <2> QED BY <1>1, <2>1
<1>7. ASSUME NEW f \in Fns, DeleteFunction(f) PROVE Owned'
  BY <1>1, <1>7 DEF DeleteFunction
<1>8. CASE Restart
  <2>1. \A p \in Procs : pc'[p] # "record"
    BY <1>8 DEF Restart
  <2>2. ASSUME NEW i \in Ids, entry'[i] # NULL PROVE Fires(entry[i], i)'
    <3>1. i \in Startable
      BY <1>8, <2>2, RestartLive
    <3>2. live'[entry'[i]] = [id |-> i, config |-> row[i].config]
      BY <1>8, <3>1, RestartLive
    <3>3. row[i].config \in Configs
      BY <3>1 DEF Startable, TypeOK, Trigger
    <3> QED BY <3>2, <3>3, Nulls DEF Fires, Registration
  <2> QED BY <2>1, <2>2 DEF Owned
<1>9. CASE UNCHANGED vars
  BY <1>1, <1>9 DEF vars
<1> QED BY <1>2, <1>3, <1>4, <1>5, <1>6, <1>7, <1>8, <1>9
        DEF Next, Request, Continue

\* The entry of a trigger leads to a registration that fires for that trigger,
\* whatever calls overlap, fail or are cut short by a restart.
THEOREM EntriesLive == Spec => []EntriesAreLive
<1>1. TypeOK /\ Owned => EntriesAreLive
  BY DEF TypeOK, Owned, EntriesAreLive, Firing, Fires
<1> QED BY <1>1, TypeInit, TypeNext, OwnedInit, OwnedNext, PTL DEF Spec

-----------------------------------------------------------------------------
(* One call at a time about a trigger.                                     *)

\* What a step leaves alone about trigger i.
Frame(i) ==
    /\ row'[i] = row[i] /\ entry'[i] = entry[i]
    /\ \A h \in Handles : /\ Fires(h, i)' <=> Fires(h, i)
                          /\ Fires(h, i) => live'[h] = live[h]

\* Then it preserves what is said of i, and of a call about i.
LEMMA FrameKeeps ==
    ASSUME TypeOK, NEW i \in Ids, Frame(i)
    PROVE  /\ Silent(i)' <=> Silent(i)
           /\ \A h : Only(h, i)' <=> Only(h, i)
           /\ Tidy(i)' <=> Tidy(i)
           /\ (i \in Startable)' <=> i \in Startable
           /\ Registered(i)' <=> Registered(i)
<1>1. Silent(i)' <=> Silent(i)
  BY DEF Frame, Silent
<1>2. \A h : Only(h, i)' <=> Only(h, i)
  BY DEF Frame, Only
<1>3. Tidy(i)' <=> Tidy(i)
  BY <1>1, <1>2 DEF Tidy, Frame
<1>4. (i \in Startable)' <=> i \in Startable
  BY DEF Frame, Startable
<1>5. Only(entry[i], i) => live'[entry[i]] = live[entry[i]]
  BY DEF Frame, Only
<1> QED BY <1>1, <1>2, <1>3, <1>4, <1>5 DEF Registered, Frame

LEMMA FrameCall ==
    ASSUME TypeOK, NEW p \in Procs, Frame(id[p]), CallOK(p), id'[p] = id[p],
           pc'[p] = pc[p], want'[p] = want[p], t'[p] = t[p], sub'[p] = sub[p]
    PROVE  CallOK(p)'
<1>1. id[p] \in Ids
  BY DEF TypeOK
<1>2. Only(sub[p], id[p]) => live'[sub[p]] = live[sub[p]]
  BY DEF Frame, Only
<1>3. row'[id[p]] = row[id[p]] /\ entry'[id[p]] = entry[id[p]]
  BY DEF Frame
<1> QED BY <1>1, <1>2, <1>3, FrameKeeps DEF CallOK

\* A step of call p about i preserves the invariant if it leaves the other
\* triggers alone and does right by i.
LEMMA OneCall ==
    ASSUME TypeOK, Orderly, NEW p \in Procs, NEW i \in Ids,
           id'[p] = i, pc[p] # "idle" => id[p] = i,
           \A j \in Ids \ {i} : Frame(j),
           \A q \in Procs \ {p} : /\ pc'[q] = pc[q] /\ id'[q] = id[q] /\ want'[q] = want[q]
                                  /\ t'[q] = t[q] /\ sub'[q] = sub[q],
           spoiled \subseteq spoiled',
           \A j \in Ids \ made' : row'[j] = NULL,
           pc[p] = "idle" => \A q \in Procs : InCall(q, i) => i \in spoiled',
           i \notin spoiled' /\ pc'[p] = "idle" => Registered(i)',
           i \notin spoiled' /\ pc'[p] # "idle" => CallOK(p)'
    PROVE  Orderly'
<1>1. ASSUME NEW q \in Procs \ {p}, InCall(q, i) PROVE i \in spoiled'
  BY <1>1 DEF Orderly, InCall
<1>2. ASSUME NEW q \in Procs, NEW r \in Procs, q # r,
             pc'[q] # "idle", pc'[r] # "idle", id'[q] = id'[r]
      PROVE  id'[q] \in spoiled'
  <2>1. CASE q = p
    BY <1>1, <1>2, <2>1 DEF InCall
  <2>2. CASE r = p
    BY <1>1, <1>2, <2>2 DEF InCall
  <2>3. CASE q # p /\ r # p
    BY <1>2, <2>3 DEF Orderly, InCall
  <2> QED BY <2>1, <2>2, <2>3
<1>3. ASSUME NEW j \in Ids, j \notin spoiled', Quiet(j)' PROVE Registered(j)'
  <2>1. CASE j = i
    <3>1. pc'[p] = "idle"
      BY <1>3, <2>1 DEF Quiet, InCall
    <3> QED BY <1>3, <2>1, <3>1
  <2>2. CASE j # i
    <3>1. Quiet(j)
      BY <1>3, <2>2 DEF Quiet, InCall
    <3>2. Registered(j)
      BY <1>3, <3>1 DEF Orderly
    <3> QED BY <2>2, <3>2, FrameKeeps
  <2> QED BY <2>1, <2>2
<1>4. ASSUME NEW q \in Procs, pc'[q] # "idle", id'[q] \notin spoiled' PROVE CallOK(q)'
  <2>1. CASE q = p
    BY <1>4, <2>1
  <2>2. CASE q # p
    <3>1. pc[q] # "idle" /\ id[q] \notin spoiled /\ id[q] \in Ids
      BY <1>4, <2>2 DEF TypeOK
    <3>2. id[q] # i
      BY <1>1, <1>4, <2>2, <3>1 DEF InCall
    <3>3. CallOK(q)
      BY <3>1 DEF Orderly
    <3> QED BY <2>2, <3>1, <3>2, <3>3, FrameCall
  <2> QED BY <2>1, <2>2
<1> QED BY <1>2, <1>3, <1>4 DEF Orderly, InCall

\* A call that begins about i, not spoiled by it, finds i quiet and registered.
LEMMA BeginQuiet ==
    ASSUME TypeOK, Orderly, NEW p \in Procs, NEW i \in Ids, Begin(p, i)
    PROVE  /\ pc[p] = "idle" /\ id'[p] = i
           /\ \A q \in Procs \ {p} : id'[q] = id[q]
           /\ spoiled \subseteq spoiled'
           /\ \A q \in Procs : InCall(q, i) => i \in spoiled'
           /\ i \notin spoiled' => Registered(i)
<1>1. i \notin spoiled' => Quiet(i) /\ i \notin spoiled
  BY DEF Begin, Quiet
<1> QED BY <1>1 DEF TypeOK, Begin, Orderly

\* If nothing about the registrations changes, the frame is that of the rows.
LEMMA RowFrame ==
    ASSUME UNCHANGED <<live, entry>>, NEW j \in Ids, row'[j] = row[j]
    PROVE  Frame(j)
  BY DEF Frame, Fires

\* unregister(i) leaves the others alone, and i silent if it was tidy.
LEMMA UnregisterFrame ==
    ASSUME TypeOK, Owned, NEW i \in Ids, unregister(i), row' = row
    PROVE  /\ \A j \in Ids \ {i} : Frame(j)
           /\ Tidy(i) => Silent(i)'
<1>1. /\ entry' = [entry EXCEPT ![i] = NULL]
      /\ \A h \in Handles : live'[h] = IF entry[i] = h THEN NULL ELSE live[h]
      /\ entry[i] # NULL => Fires(entry[i], i)
  BY UnregisterEffect
<1>2. ASSUME NEW j \in Ids \ {i} PROVE Frame(j)
  <2>1. ASSUME NEW h \in Handles, entry[i] = h
        PROVE  ~Fires(h, j) /\ ~Fires(h, j)'
    <3>1. h # NULL
      BY Nulls
    <3>2. ~Fires(h, j)
      BY <1>1, <2>1, <3>1 DEF Fires
    <3>3. live'[h] = NULL
      BY <1>1, <2>1
    <3> QED BY <3>2, <3>3 DEF Fires
  <2>2. ASSUME NEW h \in Handles, entry[i] # h
        PROVE  (Fires(h, j)' <=> Fires(h, j)) /\ live'[h] = live[h]
    BY <1>1, <2>2 DEF Fires
  <2>3. entry'[j] = entry[j]
    BY <1>1 DEF TypeOK
  <2> QED BY <2>1, <2>2, <2>3 DEF Frame
<1>3. Tidy(i) => Silent(i)'
  BY <1>1 DEF Tidy, Silent, Only, Fires, TypeOK
<1> QED BY <1>2, <1>3

LEMMA TidyOrSilent ==
    ASSUME TypeOK, NEW i \in Ids, Registered(i)
    PROVE  Tidy(i) /\ (row[i] = NULL => Silent(i))
  BY Nulls DEF Registered, Tidy, Silent, Only, Startable, TypeOK

\* The first steps of the three calls.
LEMMA OrderlyRequest ==
    ASSUME TypeOK, Orderly, NEW p \in Procs, Request(p)
    PROVE  Orderly'
<1>1. ASSUME NEW i \in Ids, NEW r \in Trigger, Create(p, i, r) PROVE Orderly'
  <2>1. Begin(p, i) /\ i \notin made /\ made' = made \cup {i} /\ row[i] = NULL
    BY <1>1 DEF Create, Orderly
  <2>2. UNCHANGED <<live, entry, want, sub>> /\ id[p] \in Ids
    BY <1>1 DEF Create, TypeOK
  <2>3. i \notin spoiled' => Silent(i)
    BY <2>1, BeginQuiet, TidyOrSilent
  <2>4. CASE r.function \in fns
    <3>1. /\ row' = [row EXCEPT ![i] = r]
          /\ Goto(p, IF r.enabled THEN "activate" ELSE "idle")
          /\ t' = [t EXCEPT ![p] = IF r.enabled THEN r ELSE NULL]
      BY <1>1, <2>4 DEF Create
    <3>2. \A j \in Ids \ {i} : Frame(j)
      BY <2>2, <3>1, RowFrame DEF TypeOK
    <3>3. /\ row'[i] = r /\ pc'[p] = IF r.enabled THEN "activate" ELSE "idle"
          /\ t'[p] = IF r.enabled THEN r ELSE NULL
          /\ \A q \in Procs \ {p} : pc'[q] = pc[q] /\ t'[q] = t[q]
      BY <3>1 DEF TypeOK, Goto
    <3>4. Silent(i) => Silent(i)'
      BY <2>2 DEF Silent, Fires
    <3>5. i \notin spoiled' /\ pc'[p] = "idle" => Registered(i)'
      BY <2>3, <3>3, <3>4 DEF Registered, Startable
    <3>6. i \notin spoiled' /\ pc'[p] # "idle" => CallOK(p)'
      BY <2>1, <2>3, <3>3, <3>4, BeginQuiet DEF CallOK
    <3>7. \A j \in Ids \ made' : row'[j] = NULL
      BY <2>1, <3>1 DEF Orderly, TypeOK
    <3> QED BY <2>1, <2>2, <3>2, <3>3, <3>5, <3>6, <3>7, BeginQuiet, OneCall
  <2>5. CASE r.function \notin fns
    <3>1. UNCHANGED <<row, pc, t>>
      BY <1>1, <2>5 DEF Create
    <3>2. \A j \in Ids : Frame(j)
      BY <2>2, <3>1, RowFrame
    <3>3. i \notin spoiled' => Registered(i)'
      BY <2>1, <3>2, BeginQuiet, FrameKeeps
    <3>4. pc'[p] = "idle"
      BY <2>1, <3>1, BeginQuiet
    <3>5. \A j \in Ids \ made' : row'[j] = NULL
      BY <2>1, <3>1 DEF Orderly
    <3> QED BY <2>1, <2>2, <3>1, <3>2, <3>3, <3>4, <3>5, BeginQuiet, OneCall
  <2> QED BY <2>4, <2>5
<1>2. ASSUME NEW i \in Ids, NEW e \in BOOLEAN, NEW c \in Configs, Update(p, i, e, c)
      PROVE  Orderly'
  <2>1. Begin(p, i) /\ i \in made /\ UNCHANGED <<made, live, entry, t, sub>>
    BY <1>2 DEF Update
  <2>2. /\ want'[p] = e /\ pc'[p] = "get"
        /\ \A q \in Procs \ {p} : pc'[q] = pc[q] /\ want'[q] = want[q]
    BY <1>2 DEF Update, Goto, TypeOK
  <2>3. \A j \in Ids \ {i} : row'[j] = row[j]
    BY <1>2 DEF Update, TypeOK
  <2>4. (row[i] = NULL => row'[i] = NULL) /\ (row[i] # NULL => row'[i].enabled = e)
    <3>1. CASE row[i] = NULL
      BY <1>2, <3>1 DEF Update
    <3>2. CASE row[i] # NULL
      <4>1. row' = [row EXCEPT ![i] = [row[i] EXCEPT !.enabled = e, !.config = c]]
        BY <1>2, <3>2 DEF Update
      <4>2. row[i] \in Trigger
        BY <3>2 DEF TypeOK
      <4>3. [row[i] EXCEPT !.enabled = e, !.config = c].enabled = e
        BY <4>2 DEF Trigger
      <4> QED BY <3>2, <4>1, <4>3 DEF TypeOK
    <3> QED BY <3>1, <3>2
  <2>5. i \notin spoiled' => Tidy(i) /\ (row[i] = NULL => Silent(i))
    BY <2>1, BeginQuiet, TidyOrSilent
  <2>6. (Tidy(i)' <=> Tidy(i)) /\ (Silent(i)' <=> Silent(i))
    BY <2>1 DEF Tidy, Silent, Only, Fires
  <2>7. row[i] = NULL \/ row'[i] # NULL
    <3>1. CASE row[i] # NULL
      <4>1. row' = [row EXCEPT ![i] = [row[i] EXCEPT !.enabled = e, !.config = c]]
        BY <1>2, <3>1 DEF Update
      <4>2. row[i] \in Trigger
        BY <3>1 DEF TypeOK
      <4>3. [row[i] EXCEPT !.enabled = e, !.config = c] \in Trigger
        BY <4>2 DEF Trigger
      <4> QED BY <4>1, <4>3, Nulls DEF TypeOK
    <3> QED BY <3>1
  <2>8. i \notin spoiled' => CallOK(p)'
    BY <2>1, <2>2, <2>4, <2>5, <2>6, <2>7, BeginQuiet DEF CallOK
  <2>9. \A j \in Ids \ made' : row'[j] = NULL
    BY <2>1, <2>3 DEF Orderly
  <2>10. \A j \in Ids \ {i} : Frame(j)
    BY <2>1, <2>3, RowFrame
  <2> QED BY <2>1, <2>2, <2>8, <2>9, <2>10, BeginQuiet, OneCall
<1>3. ASSUME NEW i \in Ids, Delete(p, i) PROVE Orderly'
  <2>1. Begin(p, i) /\ UNCHANGED <<made, row, live, entry, want, t, sub>>
    BY <1>3 DEF Delete
  <2>2. pc'[p] = "deactivateFirst" /\ \A q \in Procs \ {p} : pc'[q] = pc[q]
    BY <1>3 DEF Delete, Goto, TypeOK
  <2>3. \A j \in Ids : Frame(j)
    BY <2>1, RowFrame
  <2>4. i \notin spoiled' => Tidy(i)'
    BY <2>1, <2>3, BeginQuiet, TidyOrSilent, FrameKeeps
  <2>5. i \notin spoiled' => CallOK(p)'
    BY <2>1, <2>2, <2>4, BeginQuiet DEF CallOK
  <2>6. \A j \in Ids \ made' : row'[j] = NULL
    BY <2>1 DEF Orderly
  <2> QED BY <2>1, <2>2, <2>3, <2>5, <2>6, BeginQuiet, OneCall
<1> QED BY <1>1, <1>2, <1>3 DEF Request

\* A call in progress about an unspoiled trigger is where it should be.
LEMMA InProgress ==
    ASSUME TypeOK, Orderly, NEW p \in Procs, pc[p] # "idle", id' = id, spoiled' = spoiled
    PROVE  /\ id[p] \in Ids /\ id'[p] = id[p] /\ spoiled \subseteq spoiled'
           /\ id[p] \notin spoiled' => CallOK(p)
  BY DEF TypeOK, Orderly

\* A return changes the call's variables only.
LEMMA ReturnOthers ==
    ASSUME TypeOK, NEW p \in Procs, Return(p)
    PROVE  /\ pc'[p] = "idle"
           /\ \A q \in Procs \ {p} : /\ pc'[q] = pc[q] /\ want'[q] = want[q]
                                     /\ t'[q] = t[q] /\ sub'[q] = sub[q]
  BY DEF TypeOK, Return, Goto

\* The steps after the first.
LEMMA OrderlyContinue ==
    ASSUME TypeOK, Owned, Orderly, NEW p \in Procs, Continue(p)
    PROVE  Orderly'
<1> DEFINE i == id[p]
           Others == \A q \in Procs \ {p} : /\ pc'[q] = pc[q] /\ id'[q] = id[q]
                                            /\ want'[q] = want[q] /\ t'[q] = t[q]
                                            /\ sub'[q] = sub[q]
<1>1. CASE activate(p)
  <2>1. /\ pc[p] = "activate" /\ UNCHANGED <<row, made, entry, id, spoiled>>
    BY <1>1 DEF activate
  <2>2. /\ i \in Ids /\ id'[p] = i /\ spoiled \subseteq spoiled'
        /\ i \notin spoiled' => Silent(i) /\ t[p] = row[i] /\ row[i].enabled
    BY <2>1, InProgress DEF CallOK
  <2>3. \A j \in Ids \ made' : row'[j] = NULL
    BY <2>1 DEF Orderly
  <2>4. CASE <<t[p].type, t[p].config>> \in GoodPairs
    <3>1. PICK h \in Handles :
             /\ live[h] = NULL
             /\ live' = [live EXCEPT ![h] = [id |-> id[p], config |-> t[p].config]]
             /\ sub' = [sub EXCEPT ![p] = h]
             /\ Goto(p, "record")
             /\ UNCHANGED <<want, t>>
      BY <1>1, <2>4 DEF activate
    <3>2. t[p] # NULL /\ t[p] \in Trigger /\ [id |-> i, config |-> t[p].config] \in Registration
      BY <2>1, <2>2 DEF TypeOK, Trigger, Registration
    <3>3. /\ live'[h] # NULL /\ live'[h].id = i /\ live'[h].config = t[p].config
          /\ \A g \in Handles \ {h} : live'[g] = live[g]
      BY <3>1, <3>2, Nulls DEF TypeOK
    <3>4. \A j \in Ids \ {i} : Frame(j)
      BY <2>1, <3>1, <3>3 DEF Frame, Fires
    <3>5. Silent(i) => Only(h, i)'
      BY <2>1, <3>3 DEF Silent, Only, Fires
    <3>6. pc'[p] = "record" /\ sub'[p] = h /\ Others
      BY <2>1, <3>1 DEF Goto, TypeOK
    <3>7. i \notin spoiled' => (i \in Startable)'
      BY <2>1, <2>2, <2>4, <3>2, Nulls DEF Startable
    <3>8. i \notin spoiled' => CallOK(p)'
      BY <2>1, <2>2, <3>3, <3>5, <3>6, <3>7 DEF CallOK, Silent
    <3> QED BY <2>1, <2>2, <2>3, <3>4, <3>6, <3>8, OneCall
  <2>5. CASE <<t[p].type, t[p].config>> \notin GoodPairs
    <3>1. Return(p) /\ UNCHANGED live
      BY <1>1, <2>5 DEF activate
    <3>2. pc'[p] = "idle" /\ Others
      BY <2>1, <3>1, ReturnOthers
    <3>3. \A j \in Ids : Frame(j)
      BY <2>1, <3>1, RowFrame
    <3>4. i \notin spoiled' => Registered(i)
      BY <2>2, <2>5 DEF Registered, Startable
    <3>5. i \notin spoiled' => Registered(i)'
      BY <2>2, <3>3, <3>4, FrameKeeps
    <3> QED BY <2>1, <2>2, <2>3, <3>2, <3>3, <3>5, OneCall
  <2> QED BY <2>4, <2>5
<1>2. CASE record(p)
  <2>1. /\ pc[p] = "record" /\ UNCHANGED <<row, made, live, id, spoiled>> /\ Return(p)
        /\ entry' = [entry EXCEPT ![i] = sub[p]]
    BY <1>2 DEF record
  <2>2. /\ i \in Ids /\ id'[p] = i /\ spoiled \subseteq spoiled'
        /\ i \notin spoiled' => /\ Only(sub[p], i) /\ i \in Startable
                                /\ live[sub[p]].config = row[i].config
    BY <2>1, InProgress DEF CallOK
  <2>3. pc'[p] = "idle" /\ Others
    BY <2>1, ReturnOthers
  <2>4. \A j \in Ids \ {i} : Frame(j)
    BY <2>1 DEF Frame, Fires, TypeOK
  <2>5. entry'[i] = sub[p]
    BY <2>1, <2>2 DEF TypeOK
  <2>6. i \notin spoiled' => Registered(i)'
    BY <2>1, <2>2, <2>5 DEF Registered, Only, Fires, Startable
  <2>7. \A j \in Ids \ made' : row'[j] = NULL
    BY <2>1 DEF Orderly
  <2> QED BY <2>1, <2>2, <2>3, <2>4, <2>6, <2>7, OneCall
<1>3. CASE Get(p)
  <2>1. /\ pc[p] = "get" /\ UNCHANGED <<row, made, live, entry, id, spoiled>>
    BY <1>3 DEF Get
  <2>2. /\ i \in Ids /\ id'[p] = i /\ spoiled \subseteq spoiled'
        /\ i \notin spoiled' => /\ Tidy(i)
                                /\ row[i] = NULL => Silent(i)
                                /\ row[i] # NULL => row[i].enabled = want[p]
    BY <2>1, InProgress DEF CallOK
  <2>3. \A j \in Ids : Frame(j)
    BY <2>1, RowFrame
  <2>4. \A j \in Ids \ made' : row'[j] = NULL
    BY <2>1 DEF Orderly
  <2>5. CASE row[i] # NULL
    <3>1. /\ pc'[p] = "deactivate" /\ t'[p] = row[i] /\ want'[p] = want[p] /\ Others
      BY <1>3, <2>1, <2>5 DEF Get, Goto, TypeOK
    <3>2. Tidy(i)' <=> Tidy(i)
      BY <2>2, <2>3, FrameKeeps
    <3>3. i \notin spoiled' => CallOK(p)'
      BY <2>1, <2>2, <2>5, <3>1, <3>2 DEF CallOK
    <3> QED BY <2>1, <2>2, <2>3, <2>4, <3>1, <3>3, OneCall
  <2>6. CASE row[i] = NULL
    <3>1. pc'[p] = "idle" /\ Others
      BY <1>3, <2>1, <2>6, ReturnOthers DEF Get
    <3>2. i \notin spoiled' => Registered(i)
      BY <2>2, <2>6 DEF Registered, Startable
    <3>3. i \notin spoiled' => Registered(i)'
      BY <2>2, <2>3, <3>2, FrameKeeps
    <3> QED BY <2>1, <2>2, <2>3, <2>4, <3>1, <3>3, OneCall
  <2> QED BY <2>5, <2>6
<1>4. CASE deactivate(p)
  <2>1. /\ pc[p] = "deactivate" /\ UNCHANGED <<row, made, id, spoiled>> /\ unregister(i)
    BY <1>4 DEF deactivate
  <2>2. /\ i \in Ids /\ id'[p] = i /\ spoiled \subseteq spoiled'
        /\ i \notin spoiled' => Tidy(i) /\ t[p] = row[i] /\ row[i].enabled = want[p]
    BY <2>1, InProgress DEF CallOK
  <2>3. /\ \A j \in Ids \ {i} : Frame(j)
        /\ i \notin spoiled' => Silent(i)'
    BY <2>1, <2>2, UnregisterFrame
  <2>4. \A j \in Ids \ made' : row'[j] = NULL
    BY <2>1 DEF Orderly
  <2>5. CASE want[p]
    <3>1. pc'[p] = "activate" /\ t'[p] = t[p] /\ Others
      BY <1>4, <2>1, <2>5 DEF deactivate, Goto, TypeOK
    <3>2. i \notin spoiled' => CallOK(p)'
      BY <2>1, <2>2, <2>3, <2>5, <3>1 DEF CallOK
    <3> QED BY <2>1, <2>2, <2>3, <2>4, <3>1, <3>2, OneCall
  <2>6. CASE ~want[p]
    <3>1. pc'[p] = "idle" /\ Others
      BY <1>4, <2>1, <2>6, ReturnOthers DEF deactivate
    <3>2. i \notin spoiled' => Registered(i)'
      BY <2>1, <2>2, <2>3, <2>6 DEF Registered, Startable
    <3> QED BY <2>1, <2>2, <2>3, <2>4, <3>1, <3>2, OneCall
  <2> QED BY <2>5, <2>6
<1>5. CASE deactivateFirst(p)
  <2>1. /\ pc[p] = "deactivateFirst" /\ UNCHANGED <<row, made, id, want, t, sub, spoiled>>
        /\ unregister(i)
    BY <1>5 DEF deactivateFirst
  <2>2. /\ i \in Ids /\ id'[p] = i /\ spoiled \subseteq spoiled'
        /\ i \notin spoiled' => Tidy(i)
    BY <2>1, InProgress DEF CallOK
  <2>3. /\ \A j \in Ids \ {i} : Frame(j)
        /\ i \notin spoiled' => Silent(i)'
    BY <2>1, <2>2, UnregisterFrame
  <2>4. pc'[p] = "deleteRow" /\ Others
    BY <1>5, <2>1 DEF deactivateFirst, Goto, TypeOK
  <2>5. i \notin spoiled' => CallOK(p)'
    BY <2>2, <2>3, <2>4 DEF CallOK
  <2>6. \A j \in Ids \ made' : row'[j] = NULL
    BY <2>1 DEF Orderly
  <2> QED BY <2>1, <2>2, <2>3, <2>4, <2>5, <2>6, OneCall
<1>6. CASE deleteRow(p)
  <2>1. /\ pc[p] = "deleteRow" /\ UNCHANGED <<made, live, entry, id, spoiled>> /\ Return(p)
        /\ row' = [row EXCEPT ![i] = NULL]
    BY <1>6 DEF deleteRow
  <2>2. /\ i \in Ids /\ id'[p] = i /\ spoiled \subseteq spoiled'
        /\ i \notin spoiled' => Silent(i)
    BY <2>1, InProgress DEF CallOK
  <2>3. pc'[p] = "idle" /\ Others
    BY <2>1, ReturnOthers
  <2>4. \A j \in Ids \ {i} : Frame(j)
    BY <2>1, RowFrame DEF TypeOK
  <2>5. i \notin spoiled' => Registered(i)'
    BY <2>1, <2>2 DEF Registered, Startable, Silent, Fires, TypeOK
  <2>6. \A j \in Ids \ made' : row'[j] = NULL
    BY <2>1 DEF Orderly, TypeOK
  <2> QED BY <2>1, <2>2, <2>3, <2>4, <2>5, <2>6, OneCall
<1>7. CASE fails(p)
  <2>1. /\ pc[p] # "idle" /\ UNCHANGED <<row, made, live, entry, id>> /\ Return(p)
        /\ spoiled' = spoiled \cup {i} /\ i \in Ids
    BY <1>7 DEF fails, TypeOK
  <2>2. pc'[p] = "idle" /\ Others
    BY <2>1, ReturnOthers
  <2>3. \A j \in Ids : Frame(j)
    BY <2>1, RowFrame
  <2>4. \A j \in Ids \ made' : row'[j] = NULL
    BY <2>1 DEF Orderly
  <2> QED BY <2>1, <2>2, <2>3, <2>4, OneCall
<1> QED BY <1>1, <1>2, <1>3, <1>4, <1>5, <1>6, <1>7 DEF Continue

\* The invariant holds initially and after every step.
LEMMA OrderlyInit == Init => Orderly
<1> SUFFICES ASSUME Init PROVE Orderly
  OBVIOUS
<1>1. \A i \in Ids : row[i] = NULL /\ entry[i] = NULL
  BY DEF Init
<1>2. \A h \in Handles, i \in Ids : ~Fires(h, i)
  BY DEF Init, Fires
<1>3. \A i \in Ids : Registered(i)
  BY <1>1, <1>2 DEF Registered, Startable, Silent
<1> QED BY <1>1, <1>3 DEF Init, Orderly, InCall

LEMMA OrderlyNext == TypeOK /\ Owned /\ Orderly /\ [Next]_vars => Orderly'
<1> SUFFICES ASSUME TypeOK, Owned, Orderly, [Next]_vars PROVE Orderly'
  OBVIOUS
<1>1. ASSUME NEW p \in Procs, Request(p) \/ Continue(p) PROVE Orderly'
  BY <1>1, OrderlyRequest, OrderlyContinue
<1>2. ASSUME UNCHANGED <<made, live, entry, pc, id, want, t, sub>>, spoiled \subseteq spoiled',
             \A i \in Ids : row'[i] = row[i] \/ (row'[i] = NULL /\ i \in spoiled')
      PROVE  Orderly'
  <2>1. \A i \in Ids \ spoiled' : Frame(i) /\ i \notin spoiled
    BY <1>2, RowFrame
  <2>2. \A i \in Ids \ made' : row'[i] = NULL
    BY <1>2 DEF Orderly
  <2>3. \A p, q \in Procs : InCall(p, id[q])' /\ pc'[q] # "idle" /\ p # q => id'[p] \in spoiled'
    BY <1>2 DEF Orderly, InCall
  <2>4. ASSUME NEW i \in Ids \ spoiled', Quiet(i)' PROVE Registered(i)'
    <3>1. Quiet(i)
      BY <1>2, <2>4 DEF Quiet, InCall
    <3>2. Registered(i)
      BY <2>1, <3>1 DEF Orderly
    <3> QED BY <2>1, <3>2, FrameKeeps
  <2>5. ASSUME NEW p \in Procs, pc'[p] # "idle", id'[p] \notin spoiled' PROVE CallOK(p)'
    <3>1. id[p] \in Ids \ spoiled' /\ pc[p] # "idle"
      BY <1>2, <2>5 DEF TypeOK
    <3>2. CallOK(p) /\ Frame(id[p])
      BY <2>1, <3>1 DEF Orderly
    <3> QED BY <1>2, <3>2, FrameCall
  <2> QED BY <1>2, <2>2, <2>3, <2>4, <2>5 DEF Orderly
<1>3. ASSUME NEW f \in Fns, DeleteFunction(f) PROVE Orderly'
  <2>1. UNCHANGED <<made, live, entry, pc, id, want, t, sub>> /\ spoiled \subseteq spoiled'
    BY <1>3 DEF DeleteFunction
  <2>2. \A i \in Ids : row'[i] = row[i] \/ (row'[i] = NULL /\ i \in spoiled')
    BY <1>3 DEF DeleteFunction
  <2> QED BY <1>2, <2>1, <2>2
<1>4. CASE Restart
  <2>1. /\ UNCHANGED <<row, made, id>> /\ spoiled' = {}
        /\ \A p \in Procs : pc'[p] = "idle"
    BY <1>4 DEF Restart
  <2>2. (\A i \in Ids : (i \in Startable)' <=> i \in Startable) /\ Startable \subseteq Ids
    BY <2>1 DEF Startable
  <2>3. ASSUME NEW h \in Handles, NEW i \in Ids, Fires(h, i)'
        PROVE  i \in Startable /\ entry'[i] = h
    BY <1>4, <2>3, RestartLive DEF Fires
  <2>4. ASSUME NEW i \in Ids PROVE Registered(i)'
    <3>1. CASE i \in Startable
      <4>1. entry'[i] \in Handles /\ live'[entry'[i]] = [id |-> i, config |-> row[i].config]
        BY <1>4, <3>1, RestartLive
      <4>2. [id |-> i, config |-> row[i].config] # NULL
        BY <3>1, Nulls DEF Startable, TypeOK, Trigger, Registration
      <4>3. Only(entry[i], i)'
        BY <2>3, <4>1, <4>2 DEF Only, Fires
      <4>4. live'[entry'[i]].config = row'[i].config
        BY <2>1, <4>1
      <4> QED BY <2>2, <3>1, <4>3, <4>4 DEF Registered
    <3>2. CASE i \notin Startable
      BY <1>4, <2>2, <2>3, <3>2, RestartLive DEF Registered, Silent
    <3> QED BY <3>1, <3>2
  <2> QED BY <2>1, <2>4 DEF Orderly, InCall
<1>5. CASE UNCHANGED vars
  <2>1. /\ UNCHANGED <<made, live, entry, pc, id, want, t, sub>>
        /\ spoiled' = spoiled /\ row' = row
    BY <1>5 DEF vars
  <2>2. spoiled \subseteq spoiled' /\ \A i \in Ids : row'[i] = row[i]
    BY <2>1
  <2> QED BY <1>2, <2>1, <2>2
<1> QED BY <1>1, <1>3, <1>4, <1>5 DEF Next

\* Once the calls about a trigger have returned, and no two overlapped and none
\* failed half-way, it is registered exactly as its row says.
THEOREM RegistrationFollowsRow == Spec => []RegisteredAsStored
<1>1. TypeOK /\ Orderly => RegisteredAsStored
  BY RegisteredDef DEF Orderly, RegisteredAsStored
<1> QED BY <1>1, TypeInit, TypeNext, OwnedInit, OwnedNext, OrderlyInit, OrderlyNext, PTL
        DEF Spec
=============================================================================
