------------------------------ MODULE Invocations ------------------------------
(***************************************************************************)
(* Running functions: Invoke and InvokeStream of internal/function.Store,  *)
(* the WASM and JavaScript runtimes, and the traces they leave             *)
(* (internal/tracing).  A running function may invoke another one and      *)
(* waits for it.  Contexts tie a callee to those above it: its statements  *)
(* run under the context of the request and under the execution deadline   *)
(* of every WASM function above it, while a JavaScript function only has a *)
(* timer of its own, which may leave its callee running behind it.         *)
(***************************************************************************)
EXTENDS Naturals, FiniteSets

CONSTANTS
    Fns,          \* functions, all of them ready
    Runtime,      \* Runtime[f]: "js" or "wasm"
    Traces,       \* trace ids of requests
    MaxRequests,  \* bound on the number of requests, events and cron runs
    MaxInvs,      \* bound on the number of invocations
    MaxHostCalls, \* bound on the number of host calls other than fn_invoke
    MaxFaults     \* bound on faults, departures of clients and deletions

ASSUME InvocationsAssumption ==
    /\ Runtime \in [Fns -> {"js", "wasm"}]
    /\ {MaxRequests, MaxInvs, MaxHostCalls, MaxFaults} \subseteq Nat
    /\ "" \notin Traces

Invs == 1..MaxInvs
Outcomes == {"success", "error"}

\* No parent, no captured dependencies; a context without a trace id.
Nobody == 0
NoTrace == ""

VARIABLES
    frame,    \* frame[i]: what invocation i is doing
    used,     \* invocations begun
    row,      \* row[i]: function_invocations row: its state and host_calls
    trace,    \* trace[t]: status of the traces row, "none" without one
    metrics,  \* function_custom_metrics rows, with the invocation they are by
    captured, \* the invocation whose HostDeps the host module was built with
    ended,    \* contexts that are done
    deleted,  \* functions deleted
    hosts,    \* host calls so far, fn_invoke not counted
    faults,   \* faults, departures and deletions so far
    left,     \* history: requests whose client went away
    faulted   \* history: invocations a fault has hit

history == <<left, faulted>>
vars == <<frame, used, row, trace, metrics, captured, ended, deleted, hosts, faults, left, faulted>>

Unused == [at |-> "none", fn |-> "none", kind |-> "none", root |-> Nobody,
           parent |-> Nobody, above |-> {}, trace |-> NoTrace, outcome |-> "none",
           slow |-> FALSE, timedOut |-> FALSE, calls |-> 0, made |-> 0]

NoRow == [state |-> "none", calls |-> 0]

Init ==
    /\ frame = [i \in Invs |-> Unused]
    /\ used = 0
    /\ row = [i \in Invs |-> NoRow]
    /\ trace = [t \in Traces |-> "none"]
    /\ metrics = {}
    /\ captured = Nobody
    /\ ended = {}
    /\ deleted = {}
    /\ hosts = 0
    /\ faults = 0
    /\ left = {}
    /\ faulted = {}

-----------------------------------------------------------------------------
Wasm(i) == Runtime[frame[i].fn] = "wasm"

\* The request's context, and the deadline of i's own WASM execution.
Request(i) == <<"request", i>>
Exec(i) == <<"exec", i>>

\* The contexts on which the context handed to invocation i depends.
Contexts(i) ==
    {Request(frame[i].root)} \cup {Exec(a) : a \in {b \in frame[i].above : Wasm(b)}}

Alive(i) == Contexts(i) \cap ended = {}

Goto(i, l) == frame' = [frame EXCEPT ![i].at = l]

\* Invocation i's run has ended in outcome o.
Ends(i, o) == frame' = [frame EXCEPT ![i].at = "completeTrace", ![i].outcome = o]

\* Mutant of StateOf: a callee counts in the invState it finds in its context.
StateOf_Shared(i) ==
    LET above == {a \in frame[i].above : Wasm(a)}
    IN IF above = {} THEN i ELSE CHOOSE a \in above : \A b \in above : a <= b

\* Every WASM execution has an invState of its own.
StateOf(i) == i

-----------------------------------------------------------------------------
(* Beginning an invocation.  Get finds the function, or the call fails     *)
(* there and leaves nothing.                                               *)

\* A request, or (without a trace) the handler of an event or cron trigger.
Invoke(f, k, t) ==
    LET i == used + 1 IN
    /\ used < MaxInvs
    /\ Cardinality({r \in Invs : frame[r].root = r}) < MaxRequests
    /\ f \notin deleted
    /\ t = NoTrace <=> k = "trigger"
    /\ used' = i
    /\ frame' = [frame EXCEPT ![i] = [Unused EXCEPT
          !.at = "startTrace", !.fn = f, !.kind = k, !.root = i, !.trace = t]]
    /\ UNCHANGED <<row, trace, metrics, captured, ended, deleted, hosts, faults, history>>

\* Function p, which is running, invokes f and waits for it.
fn_invoke(p, f) ==
    LET i == used + 1
        s == StateOf(p)
        callee == [Unused EXCEPT
          !.at = "startTrace", !.fn = f, !.kind = "call", !.root = frame[p].root,
          !.parent = p, !.above = frame[p].above \cup {p}, !.trace = frame[p].trace]
        caller == [frame EXCEPT ![p].at = "calling", ![p].made = @ + 1]
    IN
    /\ used < MaxInvs
    /\ frame[p].at = "running"
    /\ f \notin deleted
    /\ Alive(p) /\ (Wasm(p) => Exec(p) \notin ended)
    /\ used' = i
    /\ frame' = [caller EXCEPT ![i] = callee,
                               ![s].calls = IF Wasm(p) THEN @ + 1 ELSE @]
    /\ UNCHANGED <<row, trace, metrics, captured, ended, deleted, hosts, faults, history>>

\* The trace id is the caller's: for a callee the row is there already.
startTrace(i) ==
    LET t == frame[i].trace IN
    /\ frame[i].at = "startTrace"
    /\ trace' = IF t # NoTrace /\ Alive(i) /\ trace[t] = "none"
                THEN [trace EXCEPT ![t] = "running"] ELSE trace
    /\ Goto(i, "insertRow")
    /\ UNCHANGED <<used, row, metrics, captured, ended, deleted, hosts, faults, history>>

AfterInsert(i) == IF Wasm(i) THEN "load" ELSE "running"

\* An INSERT that fails is ignored: the function runs without a row.
insertRow(i) ==
    /\ frame[i].at = "insertRow"
    /\ row' = IF Alive(i) /\ frame[i].fn \notin deleted
              THEN [row EXCEPT ![i].state = "pending"] ELSE row
    /\ Goto(i, AfterInsert(i))
    /\ UNCHANGED <<used, trace, metrics, captured, ended, deleted, hosts, faults, history>>

\* The artifact is read and compiled, or is gone or broken; the first WASM
\* invocation gives the host module its dependencies, once and for all.
load(i) ==
    /\ frame[i].at = "load"
    /\ \/ /\ Goto(i, "running")
          /\ captured' = IF captured = Nobody THEN i ELSE captured
       \/ /\ Ends(i, "error")
          /\ UNCHANGED captured
    /\ UNCHANGED <<used, row, trace, metrics, ended, deleted, hosts, faults, history>>

-----------------------------------------------------------------------------
(* Host calls of WASM functions.                                           *)

Calls(i) ==
    /\ frame[i].at = "running"
    /\ Wasm(i)
    /\ hosts < MaxHostCalls
    /\ hosts' = hosts + 1
    /\ frame' = [frame EXCEPT ![i].made = @ + 1, ![StateOf(i)].calls = @ + 1]

\* One that reads or changes a bucket, a table, a flag or the world outside.
hostCall(i) ==
    /\ Calls(i)
    /\ UNCHANGED <<used, row, trace, metrics, captured, ended, deleted, faults, history>>

\* Mutant of Attributed: the dependencies the host module was built with.
Attributed_Captured(i) == captured

\* The invocation whose ids recordCustomMetric writes.
Attributed(i) == i

\* Mutant of Filed: the reference to the functions table is not checked.
Filed_NoKey(i, f) == Alive(i)

\* The INSERT of a metric of function f succeeds.
Filed(i, f) == Alive(i) /\ f \notin deleted

metrics_publish(i) ==
    LET a == Attributed(i) IN
    /\ Calls(i)
    /\ metrics' = IF Filed(i, frame[a].fn)
                  THEN metrics \cup {[by |-> i, invocation |-> a, fn |-> frame[a].fn,
                                      trace |-> frame[a].trace]}
                  ELSE metrics
    /\ UNCHANGED <<used, row, trace, captured, ended, deleted, faults, history>>

-----------------------------------------------------------------------------
(* The end of an invocation.                                               *)

\* The function returns or fails of itself, or its output cannot be written.
finish(i) ==
    /\ frame[i].at = "running"
    /\ \E o \in Outcomes : Ends(i, o)
    /\ UNCHANGED <<used, row, trace, metrics, captured, ended, deleted, hosts, faults, history>>

\* A WASM function whose context is done is stopped, not inside a host call.
interrupt(i) ==
    /\ frame[i].at = "running"
    /\ Wasm(i)
    /\ ~Alive(i) \/ Exec(i) \in ended
    /\ Ends(i, "error")
    /\ UNCHANGED <<used, row, trace, metrics, captured, ended, deleted, hosts, faults, history>>

\* Mutant of Expires: JavaScript functions are not timed.
Expires_WasmOnly(i) == frame[i].at \in {"running", "calling"} /\ Wasm(i)

Expires(i) == frame[i].at \in {"running", "calling"}

\* The time of i is up, never before that of its caller.  WASM: its deadline;
\* JavaScript: it returns at once, even from a callee that goes on running.
\* The context of a trigger's handler is as old, and has the same limit.
timeout(i) ==
    LET f == frame[i] IN
    /\ Expires(i)
    /\ ~f.timedOut
    /\ f.parent # Nobody => frame[f.parent].timedOut
    /\ frame' = IF Wasm(i) THEN [frame EXCEPT ![i].timedOut = TRUE]
                ELSE [frame EXCEPT ![i].timedOut = TRUE, ![i].at = "completeTrace",
                                   ![i].outcome = "error"]
    /\ ended' = ended \cup (IF Wasm(i) THEN {Exec(i)} ELSE {})
                      \cup (IF f.kind = "trigger" THEN {Request(i)} ELSE {})
    /\ UNCHANGED <<used, row, trace, metrics, captured, deleted, hosts, faults, history>>

\* Mutant of CompleteTrace: only a running trace is completed.
CompleteTrace_Once(t, o) == IF trace[t] = "running" THEN [trace EXCEPT ![t] = o] ELSE trace

\* The UPDATE finds the trace or changes nothing.
CompleteTrace(t, o) == IF trace[t] = "none" THEN trace ELSE [trace EXCEPT ![t] = o]

\* Only a run that took a millisecond is reported to the trace, as one that
\* timed out did (remembered of requests only).
completeTrace(i) ==
    LET f == frame[i] IN
    /\ f.at = "completeTrace"
    /\ \E slow \in BOOLEAN :
          /\ f.timedOut => slow
          /\ trace' = IF slow /\ f.trace # NoTrace THEN CompleteTrace(f.trace, f.outcome)
                      ELSE trace
          /\ frame' = [frame EXCEPT ![i].at = "updateRow",
                          ![i].slow = slow /\ f.trace # NoTrace /\ f.parent = Nobody]
    /\ UNCHANGED <<used, row, metrics, captured, ended, deleted, hosts, faults, history>>

\* Mutant of Returns: the caller goes on only after a success.
Returns_OnSuccess(i) ==
    LET p == frame[i].parent
        over == [frame EXCEPT ![i].at = "over"]
    IN frame' = IF p # Nobody /\ frame[p].at = "calling" /\ frame[i].outcome = "success"
                THEN [over EXCEPT ![p].at = "running"] ELSE over

\* Invocation i returns: its caller goes on, if it is still waiting.
Returns(i) ==
    LET p == frame[i].parent
        over == [frame EXCEPT ![i].at = "over"]
    IN frame' = IF p # Nobody /\ frame[p].at = "calling"
                THEN [over EXCEPT ![p].at = "running"] ELSE over

\* Mutant of Writable: the outcome is written under the execution's deadline.
Writable_Exec(i) == Alive(i) /\ Exec(i) \notin ended

\* The UPDATE is given the context the invocation was called with.
Writable(i) == Alive(i)

updateRow(i) ==
    /\ frame[i].at = "updateRow"
    /\ row' = IF Writable(i) /\ row[i].state # "none"
              THEN [row EXCEPT ![i] = [state |-> frame[i].outcome,
                                       calls |-> IF Wasm(i) THEN frame[i].calls ELSE 0]]
              ELSE row
    /\ Returns(i)
    /\ UNCHANGED <<used, trace, metrics, captured, ended, deleted, hosts, faults, history>>

-----------------------------------------------------------------------------
(* The surroundings.                                                       *)

Upset == faults < MaxFaults /\ faults' = faults + 1

\* The handler has returned; net/http, or its own defer, ends its context.
endRequest(i) ==
    /\ frame[i].at = "over"
    /\ frame[i].parent = Nobody
    /\ Request(i) \notin ended
    /\ ended' = ended \cup {Request(i)}
    /\ UNCHANGED <<frame, used, row, trace, metrics, captured, deleted, hosts, faults, history>>

\* The client goes away before that.
disconnect(i) ==
    /\ frame[i].at \notin {"none", "over"}
    /\ frame[i].kind = "http"
    /\ Upset
    /\ i \notin left
    /\ ended' = ended \cup {Request(i)}
    /\ left' = left \cup {i}
    /\ UNCHANGED <<frame, used, row, trace, metrics, captured, deleted, hosts, faulted>>

\* Store.Delete: the cascade takes invocations and metrics with the function.
DeleteFunction(f) ==
    /\ Upset
    /\ f \in {frame[i].fn : i \in Invs} \ deleted
    /\ deleted' = deleted \cup {f}
    /\ row' = [i \in Invs |-> IF frame[i].fn = f THEN NoRow ELSE row[i]]
    /\ metrics' = {m \in metrics : m.fn # f}
    /\ UNCHANGED <<frame, used, trace, captured, hosts, ended, history>>

\* A statement of i fails; nobody looks at its error.
statementFails(i) ==
    /\ Upset
    /\ faulted' = faulted \cup {i}
    /\ \/ frame[i].at = "startTrace" /\ Goto(i, "insertRow")
       \/ frame[i].at = "insertRow" /\ Goto(i, AfterInsert(i))
       \/ frame[i].at = "completeTrace" /\ Goto(i, "updateRow")
       \/ frame[i].at = "updateRow" /\ Returns(i)
    /\ UNCHANGED <<used, row, trace, metrics, captured, ended, deleted, hosts, left>>

Running == {i \in Invs : frame[i].at \notin {"none", "over"}}

\* The process dies; no invocation is resumed, the host module is built anew.
crash ==
    /\ faults < MaxFaults
    /\ Running # {}
    /\ faults' = faults + 1
    /\ faulted' = faulted \cup Running
    /\ frame' = [i \in Invs |-> IF i \in Running THEN [frame[i] EXCEPT !.at = "over"] ELSE frame[i]]
    /\ captured' = Nobody
    /\ ended' = ended \cup {Request(frame[i].root) : i \in Running}
    /\ UNCHANGED <<used, row, trace, metrics, deleted, hosts, left>>

-----------------------------------------------------------------------------
Begin ==
    \/ \E f \in Fns, k \in {"http", "trigger"}, t \in Traces \cup {NoTrace} : Invoke(f, k, t)
    \/ \E p \in Invs, f \in Fns : fn_invoke(p, f)

\* Steps that nothing but the scheduler holds up.
Step(i) ==
    \/ startTrace(i)
    \/ insertRow(i)
    \/ load(i)
    \/ interrupt(i)
    \/ completeTrace(i)
    \/ updateRow(i)

Surroundings ==
    \/ \E i \in Invs : endRequest(i) \/ disconnect(i) \/ statementFails(i)
    \/ \E f \in Fns : DeleteFunction(f)
    \/ crash

Next ==
    \/ Begin
    \/ \E i \in Invs : Step(i) \/ hostCall(i) \/ metrics_publish(i) \/ finish(i) \/ timeout(i)
    \/ Surroundings

\* Goroutines are scheduled and timers fire; a function need never return.
\* (Both happen a bounded number of times: fairness to all is enough for each.)
Fairness ==
    /\ WF_vars(\E i \in Invs : Step(i))
    /\ WF_vars(\E i \in Invs : timeout(i))

Spec == Init /\ [][Next]_vars /\ Fairness

-----------------------------------------------------------------------------
Frame ==
    [at : {"none", "startTrace", "insertRow", "load", "running", "calling",
           "completeTrace", "updateRow", "over"},
     fn : Fns \cup {"none"}, kind : {"none", "http", "trigger", "call"},
     root : Invs \cup {Nobody}, parent : Invs \cup {Nobody}, above : SUBSET Invs,
     trace : Traces \cup {NoTrace}, outcome : Outcomes \cup {"none"},
     slow : BOOLEAN, timedOut : BOOLEAN, calls : Nat, made : Nat]

\* Every variable has its type, and metrics are of functions that exist.
TypeOK ==
    /\ frame \in [Invs -> Frame]
    /\ used \in 0..MaxInvs
    /\ row \in [Invs -> [state : {"none", "pending"} \cup Outcomes, calls : Nat]]
    /\ trace \in [Traces -> {"none", "running"} \cup Outcomes]
    /\ metrics \subseteq [by : Invs, invocation : Invs \cup {Nobody},
                          fn : Fns \ deleted, trace : Traces \cup {NoTrace}]
    /\ captured \in Invs \cup {Nobody}
    /\ ended \subseteq {"request", "exec"} \X Invs
    /\ deleted \subseteq Fns
    /\ {hosts, faults} \subseteq Nat
    /\ left \subseteq Invs
    /\ faulted \subseteq Invs

\* The limit of i's own request, and of every function above it, is not up.
InTime(i) ==
    /\ frame[i].root \notin left
    /\ frame[frame[i].root].kind = "trigger" => ~frame[frame[i].root].timedOut
    /\ \A a \in frame[i].above : ~frame[a].timedOut

\* An invocation that is over has its outcome in its row, even if it timed
\* out itself, unless a function above it timed out, its client went away, a
\* fault hit it or the function is deleted.  (Then it stays pending for good.)
AccountedUnlessCut ==
    \A i \in Invs :
       frame[i].at = "over" /\ InTime(i) /\ i \notin faulted /\ frame[i].fn \notin deleted =>
          row[i].state = frame[i].outcome

\* A row that is complete tells the host calls of its own code, whatever the
\* functions it called and those that called it did meanwhile.
HostCallsAreOwn ==
    \A i \in Invs :
       row[i].state \in Outcomes =>
          row[i].calls = (IF Wasm(i) THEN frame[i].made ELSE 0)

\* A custom metric is filed under the invocation and the trace of the code
\* that published it, though the host module is shared by all of them.
MetricsAreOwn ==
    \A m \in metrics :
       m.invocation = m.by /\ m.fn = frame[m.by].fn /\ m.trace = frame[m.by].trace

\* All WASM functions share the host module that the first of them registered;
\* what their host calls leave behind is told apart all the same.
HostEffectsAreOwn == HostCallsAreOwn /\ MetricsAreOwn

Tree(r) == {i \in Invs : frame[i].root = r}

\* Nothing of request r went wrong: it is over with all it called, no fault
\* hit them, and no JavaScript function timed out over its callee.
Orderly(r) ==
    \A i \in Tree(r) :
       /\ frame[i].at = "over"
       /\ i \notin faulted
       /\ \A a \in frame[i].above : Wasm(a) \/ ~frame[a].timedOut

\* When all is over, the trace of a request tells how the request ended, not
\* how one of the functions it called did, if it took a millisecond.
TraceTellsOutcome ==
    \A r \in Invs :
       LET t == frame[r].trace IN
       /\ frame[r].root = r /\ t # NoTrace /\ frame[r].slow
       /\ \A i \in Invs : frame[i].trace = t => frame[i].root = r
       /\ Orderly(r) /\ r \notin left
       => trace[t] = frame[r].outcome

\* The scheduler or a timer can take a step of i: it is between two statements,
\* its time will be up before that of its callees, or wazero stops it.
Movable(i) ==
    \/ frame[i].at \in {"startTrace", "insertRow", "load", "completeTrace", "updateRow"}
    \/ /\ Expires(i) /\ ~frame[i].timedOut
       /\ frame[i].parent # Nobody => frame[frame[i].parent].timedOut
    \/ frame[i].at = "running" /\ Wasm(i) /\ Exec(i) \in ended

\* Callers never wait for each other or for one that has returned: while an
\* invocation goes on, one that does can be moved without help of its code.
NobodyStuck == Running # {} => \E i \in Running : Movable(i)

\* Every invocation ends: functions that never return are stopped, also when
\* they wait for one that does not.
EveryInvocationEnds == Running # {} ~> Running = {}
=============================================================================
