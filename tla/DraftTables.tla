------------------------------ MODULE DraftTables ------------------------------
(***************************************************************************)
(* What the table engine promises to those who release records with a flag *)
(* variant, whatever calls overlap, fail or are cut short: a table has     *)
(* published records and a draft of each flag context.  A draft is         *)
(* published or discarded as a whole and in one step, no record changes    *)
(* sides in another way, and an event tells only of a record that was      *)
(* never part of a draft and that is there.                                *)
(***************************************************************************)
CONSTANTS Keys,      \* table keys
          Ids,       \* ids of records
          Contexts   \* flag contexts

VARIABLES published, \* published[t]: records that are in no draft
          drafts,    \* drafts[t][x]: records of the draft of x
          given,     \* ids given so far
          staged,    \* those of them given to a record of a draft
          announced  \* ids an event has told of

vars == <<published, drafts, given, staged, announced>>

Init ==
    /\ published = [t \in Keys |-> {}]
    /\ drafts = [t \in Keys |-> [x \in Contexts |-> {}]]
    /\ given = {} /\ staged = {} /\ announced = {}

Give(i) == i \notin given /\ given' = given \cup {i}

Publish(t, i) ==
    /\ Give(i)
    /\ published' = [published EXCEPT ![t] = @ \cup {i}]
    /\ UNCHANGED <<drafts, staged, announced>>

Stage(t, x, i) ==
    /\ Give(i)
    /\ staged' = staged \cup {i}
    /\ drafts' = [drafts EXCEPT ![t][x] = @ \cup {i}]
    /\ UNCHANGED <<published, announced>>

Announce(t, i) ==
    /\ i \in published[t] \ staged
    /\ announced' = announced \cup {i}
    /\ UNCHANGED <<published, drafts, given, staged>>

Remove(t, i) ==
    /\ published' = [published EXCEPT ![t] = @ \ {i}]
    /\ drafts' = [drafts EXCEPT ![t] = [x \in Contexts |-> @[x] \ {i}]]
    /\ UNCHANGED <<given, staged, announced>>

Promote(t, x) ==
    /\ published' = [published EXCEPT ![t] = @ \cup drafts[t][x]]
    /\ drafts' = [drafts EXCEPT ![t][x] = {}]
    /\ UNCHANGED <<given, staged, announced>>

Rollback(t, x) ==
    /\ drafts' = [drafts EXCEPT ![t][x] = {}]
    /\ UNCHANGED <<published, given, staged, announced>>

Drop(t) ==
    /\ published' = [published EXCEPT ![t] = {}]
    /\ drafts' = [drafts EXCEPT ![t] = [x \in Contexts |-> {}]]
    /\ UNCHANGED <<given, staged, announced>>

Next ==
    \E t \in Keys :
       \/ \E i \in Ids : Publish(t, i) \/ Announce(t, i) \/ Remove(t, i)
       \/ \E x \in Contexts : \/ \E i \in Ids : Stage(t, x, i)
                              \/ Promote(t, x)
                              \/ Rollback(t, x)
       \/ Drop(t)

Spec == Init /\ [][Next]_vars
=============================================================================
