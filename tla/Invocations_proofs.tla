--------------------------- MODULE Invocations_proofs ---------------------------
(***************************************************************************)
(* Proofs about Invocations, for any functions, runtimes, traces and       *)
(* numbers of requests: types, metrics and host calls filed under the code *)
(* they are by, the outcome of every invocation in its row, that of a      *)
(* request in its trace, and that callers never wait for nothing.          *)
(***************************************************************************)
EXTENDS Invocations, FiniteSetTheorems, TLAPS

-----------------------------------------------------------------------------
(* Frames.  A step gives frame i a new value f, which keeps who i is.       *)

Keeps(f, g) ==
    /\ g \in Frame
    /\ g.fn = f.fn /\ g.kind = f.kind /\ g.root = f.root /\ g.parent = f.parent
    /\ g.above = f.above /\ g.trace = f.trace

Places == {"startTrace", "insertRow", "load", "running", "calling",
           "completeTrace", "updateRow", "over"}

\* The steps that change more than one field of a frame.
LEMMA KeepsAt ==
    ASSUME NEW f \in Frame, NEW l \in Places
    PROVE  LET g == [f EXCEPT !.at = l]
           IN /\ Keeps(f, g)
              /\ g.at = l /\ g.outcome = f.outcome /\ g.timedOut = f.timedOut
              /\ g.calls = f.calls /\ g.made = f.made
  BY DEF Keeps, Frame, Places

LEMMA KeepsEnd ==
    ASSUME NEW f \in Frame, NEW o \in Outcomes
    PROVE  LET g == [f EXCEPT !.at = "completeTrace", !.outcome = o]
           IN /\ Keeps(f, g)
              /\ g.at = "completeTrace" /\ g.outcome = o /\ g.timedOut = f.timedOut
              /\ g.calls = f.calls /\ g.made = f.made
  BY DEF Keeps, Frame, Places

LEMMA KeepsTimed ==
    ASSUME NEW f \in Frame
    PROVE  LET g == [f EXCEPT !.timedOut = TRUE]
           IN /\ Keeps(f, g)
              /\ g.at = f.at /\ g.outcome = f.outcome /\ g.timedOut = TRUE
              /\ g.calls = f.calls /\ g.made = f.made
<1> DEFINE g == [f EXCEPT !.timedOut = TRUE]
<1>1. g \in Frame
  BY DEF Frame
<1>2. g.fn = f.fn /\ g.kind = f.kind /\ g.root = f.root /\ g.parent = f.parent
  BY DEF Frame
<1>3. g.above = f.above /\ g.trace = f.trace /\ g.at = f.at /\ g.outcome = f.outcome
  BY DEF Frame
<1>4. g.timedOut = TRUE /\ g.calls = f.calls /\ g.made = f.made
  BY DEF Frame
<1> QED BY <1>1, <1>2, <1>3, <1>4 DEF Keeps

LEMMA KeepsCutOff ==
    ASSUME NEW f \in Frame
    PROVE  LET g == [f EXCEPT !.timedOut = TRUE, !.at = "completeTrace", !.outcome = "error"]
           IN /\ Keeps(f, g)
              /\ g.at = "completeTrace" /\ g.outcome = "error" /\ g.timedOut = TRUE
              /\ g.calls = f.calls /\ g.made = f.made
<1> DEFINE g == [f EXCEPT !.timedOut = TRUE, !.at = "completeTrace", !.outcome = "error"]
<1>1. g \in Frame
  BY DEF Frame, Outcomes
<1>2. g.fn = f.fn /\ g.kind = f.kind /\ g.root = f.root /\ g.parent = f.parent
  BY DEF Frame
<1>3. g.above = f.above /\ g.trace = f.trace /\ g.at = "completeTrace" /\ g.outcome = "error"
  BY DEF Frame
<1>4. g.timedOut = TRUE /\ g.calls = f.calls /\ g.made = f.made
  BY DEF Frame
<1> QED BY <1>1, <1>2, <1>3, <1>4 DEF Keeps

LEMMA KeepsSlow ==
    ASSUME NEW f \in Frame, NEW b \in BOOLEAN
    PROVE  LET g == [f EXCEPT !.at = "updateRow", !.slow = b]
           IN /\ Keeps(f, g)
              /\ g.at = "updateRow" /\ g.outcome = f.outcome /\ g.timedOut = f.timedOut
              /\ g.calls = f.calls /\ g.made = f.made
<1> DEFINE g == [f EXCEPT !.at = "updateRow", !.slow = b]
<1>1. g \in Frame
  BY DEF Frame
<1>2. g.fn = f.fn /\ g.kind = f.kind /\ g.root = f.root /\ g.parent = f.parent
  BY DEF Frame
<1>3. g.above = f.above /\ g.trace = f.trace /\ g.at = "updateRow" /\ g.outcome = f.outcome
  BY DEF Frame
<1>4. g.timedOut = f.timedOut /\ g.calls = f.calls /\ g.made = f.made
  BY DEF Frame
<1> QED BY <1>1, <1>2, <1>3, <1>4 DEF Keeps

LEMMA UnusedFrame ==
    /\ Unused \in Frame
    /\ Unused.at = "none" /\ Unused.timedOut = FALSE /\ Unused.above = {}
    /\ Unused.parent = Nobody /\ Unused.root = Nobody /\ Unused.outcome = "none"
    /\ Unused.calls = 0 /\ Unused.made = 0
  BY DEF Unused, Frame, Nobody, NoTrace

-----------------------------------------------------------------------------
(* The invocations there are.                                              *)

Base ==
    /\ TypeOK
    /\ \A i \in Invs : i > used => frame[i] = Unused /\ row[i] = NoRow
    /\ \A i \in Invs : i <= used =>
          /\ frame[i].at # "none" /\ frame[i].fn \in Fns
          /\ frame[i].root \in Invs /\ frame[i].root <= used
          /\ frame[i].above \subseteq 1..used
    /\ \A i \in Invs : frame[i].at \in {"completeTrace", "updateRow"} => frame[i].outcome \in Outcomes
    /\ \A m \in metrics : m.by <= used

\* What a step makes of the frames there were.
Others(i) == \A j \in Invs : j # i => frame'[j] = frame[j]
Move(i) == frame' \in [Invs -> Frame] /\ Keeps(frame[i], frame'[i]) /\ Others(i)

LEMMA MoveTo ==
    ASSUME Base, NEW i \in Invs, NEW g, Keeps(frame[i], g), frame' = [frame EXCEPT ![i] = g]
    PROVE  Move(i) /\ frame'[i] = g
<1>1. frame \in [Invs -> Frame]
  BY DEF Base, TypeOK
<1>2. frame'[i] = g /\ Others(i)
  BY <1>1 DEF Others
<1>3. frame' \in [Invs -> Frame]
  BY <1>1 DEF Keeps
<1> QED BY <1>2, <1>3 DEF Move

LEMMA UsedType ==
    ASSUME Base
    PROVE  used \in Nat /\ used <= MaxInvs /\ MaxInvs \in Nat /\ Invs \subseteq Nat \ {0}
<1>1. used \in 0..MaxInvs
  BY DEF Base, TypeOK
<1>2. MaxInvs \in Nat
  BY InvocationsAssumption
<1> QED BY <1>1, <1>2 DEF Invs

LEMMA AtUsed ==
    ASSUME Base, NEW i \in Invs, frame[i].at # "none"
    PROVE  i <= used /\ frame[i] \in Frame
  BY UsedType, UnusedFrame DEF Base, TypeOK

LEMMA GotoMove ==
    ASSUME Base, NEW i \in Invs, frame[i].at # "none",
           NEW l \in Places, Goto(i, l)
    PROVE  /\ Move(i)
           /\ frame'[i].at = l /\ frame'[i].outcome = frame[i].outcome
           /\ frame'[i].timedOut = frame[i].timedOut
           /\ frame'[i].calls = frame[i].calls /\ frame'[i].made = frame[i].made
<1>1. frame' = [frame EXCEPT ![i] = [frame[i] EXCEPT !.at = l]]
  BY DEF Goto
<1> DEFINE g == [frame[i] EXCEPT !.at = l]
<1>2. frame' = [frame EXCEPT ![i] = g]
  BY <1>1
<1>3. frame[i] \in Frame
  BY AtUsed
<1>4. /\ Keeps(frame[i], g) /\ g.at = l /\ g.outcome = frame[i].outcome
      /\ g.timedOut = frame[i].timedOut /\ g.calls = frame[i].calls /\ g.made = frame[i].made
  BY <1>3, KeepsAt
<1> HIDE DEF g
<1>5. Move(i) /\ frame'[i] = g
  BY <1>2, <1>4, MoveTo
<1> QED BY <1>4, <1>5

LEMMA EndsMove ==
    ASSUME Base, NEW i \in Invs, frame[i].at # "none", NEW o \in Outcomes, Ends(i, o)
    PROVE  /\ Move(i)
           /\ frame'[i].at = "completeTrace" /\ frame'[i].outcome = o
           /\ frame'[i].timedOut = frame[i].timedOut
           /\ frame'[i].calls = frame[i].calls /\ frame'[i].made = frame[i].made
<1>1. frame' = [frame EXCEPT ![i] = [frame[i] EXCEPT !.at = "completeTrace", !.outcome = o]]
  BY DEF Ends, Base, TypeOK
<1> DEFINE g == [frame[i] EXCEPT !.at = "completeTrace", !.outcome = o]
<1>2. frame' = [frame EXCEPT ![i] = g]
  BY <1>1
<1>3. frame[i] \in Frame
  BY AtUsed
<1>4. /\ Keeps(frame[i], g) /\ g.at = "completeTrace" /\ g.outcome = o
      /\ g.timedOut = frame[i].timedOut /\ g.calls = frame[i].calls /\ g.made = frame[i].made
  BY <1>3, KeepsEnd
<1> HIDE DEF g
<1>5. Move(i) /\ frame'[i] = g
  BY <1>2, <1>4, MoveTo
<1> QED BY <1>4, <1>5

LEMMA CallsMove ==
    ASSUME Base, NEW i \in Invs, Calls(i)
    PROVE  /\ Move(i) /\ frame[i].at = "running" /\ Wasm(i)
           /\ frame'[i].at = "running" /\ frame'[i].outcome = frame[i].outcome
           /\ frame'[i].timedOut = frame[i].timedOut
           /\ frame'[i].calls = frame[i].calls + 1 /\ frame'[i].made = frame[i].made + 1
<1>1. frame[i].at = "running" /\ frame[i] \in Frame /\ Wasm(i)
  BY AtUsed DEF Calls
<1>2. frame[i].made \in Nat /\ frame[i].calls \in Nat
  BY <1>1 DEF Frame
<1>3. frame[i].made + 1 \in Nat /\ frame[i].calls + 1 \in Nat /\ "running" \in Places
  BY <1>2 DEF Places
<1>4. PICK m \in Nat, n \in Nat, l \in Places :
         m = frame[i].made + 1 /\ n = frame[i].calls + 1 /\ l = "running"
  BY <1>3, Zenon
<1> DEFINE g == [frame[i] EXCEPT !.at = l, !.made = m, !.calls = n]
<1>5. frame' = [frame EXCEPT ![i] = g]
  <2>1. frame' = [frame EXCEPT ![i] = [frame[i] EXCEPT !.made = m, !.calls = n]]
    BY <1>4 DEF Calls, StateOf, Base, TypeOK
  <2>2. [frame[i] EXCEPT !.made = m, !.calls = n] = g
    BY <1>1, <1>4 DEF Frame
  <2> QED BY <2>1, <2>2
<1>6. PICK h : h = [frame[i] EXCEPT !.at = l, !.made = m, !.calls = n] /\ h = g
  OBVIOUS
<1> HIDE DEF g
<1>7. /\ Keeps(frame[i], h) /\ h.at = l /\ h.outcome = frame[i].outcome
      /\ h.timedOut = frame[i].timedOut /\ h.calls = n /\ h.made = m
  <2>1. h \in Frame
    BY <1>1, <1>6 DEF Frame, Places
  <2>2. /\ h.fn = frame[i].fn /\ h.kind = frame[i].kind /\ h.root = frame[i].root
        /\ h.parent = frame[i].parent
    BY <1>1, <1>6 DEF Frame, Places
  <2>3. h.above = frame[i].above /\ h.trace = frame[i].trace
    BY <1>1, <1>6 DEF Frame, Places
  <2>4. h.at = l /\ h.outcome = frame[i].outcome
    BY <1>1, <1>6 DEF Frame, Places
  <2>5. h.timedOut = frame[i].timedOut /\ h.calls = n /\ h.made = m
    BY <1>1, <1>6 DEF Frame, Places
  <2> QED BY <2>1, <2>2, <2>3, <2>4, <2>5 DEF Keeps
<1>8. Move(i) /\ frame'[i] = h
  BY <1>5, <1>6, <1>7, MoveTo
<1> QED BY <1>1, <1>4, <1>7, <1>8

LEMMA SlowMove ==
    ASSUME Base, NEW i \in Invs, completeTrace(i)
    PROVE  /\ Move(i) /\ frame[i].at = "completeTrace"
           /\ frame'[i].at = "updateRow" /\ frame'[i].outcome = frame[i].outcome
           /\ frame'[i].timedOut = frame[i].timedOut
           /\ frame'[i].calls = frame[i].calls /\ frame'[i].made = frame[i].made
<1>1. PICK slow \in BOOLEAN : frame' = [frame EXCEPT ![i].at = "updateRow",
                 ![i].slow = slow /\ frame[i].trace # NoTrace /\ frame[i].parent = Nobody]
  BY DEF completeTrace
<1> DEFINE b == slow /\ frame[i].trace # NoTrace /\ frame[i].parent = Nobody
<1>2. b \in BOOLEAN
  OBVIOUS
<1>3. frame' = [frame EXCEPT ![i] = [frame[i] EXCEPT !.at = "updateRow", !.slow = b]]
  BY <1>1 DEF Base, TypeOK
<1> HIDE DEF b
<1>5. frame[i].at = "completeTrace" /\ frame[i] \in Frame
  BY AtUsed DEF completeTrace
<1> DEFINE g == [frame[i] EXCEPT !.at = "updateRow", !.slow = b]
<1>6. /\ Keeps(frame[i], g) /\ g.at = "updateRow" /\ g.outcome = frame[i].outcome
      /\ g.timedOut = frame[i].timedOut /\ g.calls = frame[i].calls /\ g.made = frame[i].made
  BY <1>2, <1>5, KeepsSlow
<1>7. frame' = [frame EXCEPT ![i] = g]
  BY <1>3
<1> HIDE DEF g
<1>8. Move(i) /\ frame'[i] = g
  BY <1>6, <1>7, MoveTo
<1> QED BY <1>5, <1>6, <1>8

LEMMA TimeoutMove ==
    ASSUME Base, NEW i \in Invs, timeout(i)
    PROVE  /\ Move(i) /\ frame[i].at \in {"running", "calling"}
           /\ IF Wasm(i) THEN frame'[i].at = frame[i].at /\ frame'[i].outcome = frame[i].outcome
                         ELSE frame'[i].at = "completeTrace" /\ frame'[i].outcome = "error"
           /\ frame'[i].timedOut = TRUE
           /\ frame'[i].calls = frame[i].calls /\ frame'[i].made = frame[i].made
<1>1. frame[i].at \in {"running", "calling"} /\ frame[i] \in Frame
  BY AtUsed DEF timeout, Expires
<1>2. CASE Wasm(i)
  <2> DEFINE g == [frame[i] EXCEPT !.timedOut = TRUE]
  <2>1. frame' = [frame EXCEPT ![i] = g]
    BY <1>2 DEF timeout
  <2>2. /\ Keeps(frame[i], g) /\ g.at = frame[i].at /\ g.outcome = frame[i].outcome
        /\ g.timedOut = TRUE /\ g.calls = frame[i].calls /\ g.made = frame[i].made
    BY <1>1, KeepsTimed
  <2> HIDE DEF g
  <2>3. Move(i) /\ frame'[i] = g
    BY <2>1, <2>2, MoveTo
  <2> QED BY <1>1, <1>2, <2>2, <2>3
<1>3. CASE ~Wasm(i)
  <2> DEFINE g == [frame[i] EXCEPT !.timedOut = TRUE, !.at = "completeTrace", !.outcome = "error"]
  <2>1. frame' = [frame EXCEPT ![i] = g]
    BY <1>3 DEF timeout, Base, TypeOK
  <2>2. /\ Keeps(frame[i], g) /\ g.at = "completeTrace" /\ g.outcome = "error"
        /\ g.timedOut = TRUE /\ g.calls = frame[i].calls /\ g.made = frame[i].made
    BY <1>1, KeepsCutOff
  <2> HIDE DEF g
  <2>3. Move(i) /\ frame'[i] = g
    BY <2>1, <2>2, MoveTo
  <2> QED BY <1>1, <1>3, <2>2, <2>3
<1> QED BY <1>2, <1>3

\* A frame that changes at most in where it stands.
Same(f, g) ==
    /\ Keeps(f, g)
    /\ g.outcome = f.outcome /\ g.timedOut = f.timedOut
    /\ g.calls = f.calls /\ g.made = f.made

LEMMA SameSelf ==
    ASSUME NEW f \in Frame
    PROVE  Same(f, f)
  BY DEF Same, Keeps

LEMMA SameAt ==
    ASSUME NEW f \in Frame, NEW l \in Places
    PROVE  Same(f, [f EXCEPT !.at = l]) /\ [f EXCEPT !.at = l].at = l
  BY KeepsAt DEF Same

\* A caller that waits for invocation i goes on.
Resumes(i, j) == j = frame[i].parent /\ frame[j].at = "calling"

LEMMA ReturnsMove ==
    ASSUME Base, NEW i \in Invs, frame[i].at = "updateRow", Returns(i)
    PROVE  /\ frame' \in [Invs -> Frame]
           /\ Same(frame[i], frame'[i]) /\ frame'[i].at = "over"
           /\ \A j \in Invs \ {i} :
                IF Resumes(i, j) THEN Same(frame[j], frame'[j]) /\ frame'[j].at = "running"
                                 ELSE frame'[j] = frame[j]
<1> DEFINE p == frame[i].parent
           over == [frame EXCEPT ![i].at = "over"]
<1>1. frame \in [Invs -> Frame] /\ p \in Invs \cup {Nobody} /\ Nobody \notin Invs
  BY UsedType DEF Base, TypeOK, Frame, Nobody
<1>2. PICK l \in Places, k \in Places : l = "over" /\ k = "running"
  BY DEF Places
<1>3. Same(frame[i], [frame[i] EXCEPT !.at = l]) /\ [frame[i] EXCEPT !.at = l].at = l
  BY <1>1, SameAt
<1>4. [frame[i] EXCEPT !.at = l] \in Frame
  BY <1>3 DEF Same, Keeps
<1>5. CASE p # Nobody /\ frame[p].at = "calling"
  <2>1. p \in Invs /\ p # i
    BY <1>1, <1>5
  <2>2. Same(frame[p], [frame[p] EXCEPT !.at = k]) /\ [frame[p] EXCEPT !.at = k].at = k
    BY <1>1, <2>1, SameAt
  <2>3. [frame[p] EXCEPT !.at = k] \in Frame
    BY <2>2 DEF Same, Keeps
  <2>4. frame' = [[frame EXCEPT ![i] = [frame[i] EXCEPT !.at = l]]
                          EXCEPT ![p] = [frame[p] EXCEPT !.at = k]]
    BY <1>1, <1>2, <1>5, <2>1 DEF Returns
  <2>5. frame' \in [Invs -> Frame]
    BY <1>1, <1>4, <2>3, <2>4
  <2>6. /\ frame'[i] = [frame[i] EXCEPT !.at = l] /\ frame'[p] = [frame[p] EXCEPT !.at = k]
        /\ \A j \in Invs \ {i, p} : frame'[j] = frame[j]
    BY <1>1, <2>1, <2>4
  <2>7. Same(frame[i], frame'[i]) /\ frame'[i].at = "over"
    BY <1>2, <1>3, <2>6
  <2>8. Same(frame[p], frame'[p]) /\ frame'[p].at = "running"
    BY <1>2, <2>2, <2>6
  <2>9. ASSUME NEW j \in Invs \ {i}
        PROVE  IF Resumes(i, j) THEN Same(frame[j], frame'[j]) /\ frame'[j].at = "running"
                                ELSE frame'[j] = frame[j]
    <3>1. Resumes(i, j) <=> j = p
      BY <1>5 DEF Resumes
    <3> HIDE DEF p
    <3>2. CASE j = p
      BY <2>8, <3>1, <3>2
    <3>3. CASE j # p
      BY <2>6, <3>1, <3>3
    <3> QED BY <3>2, <3>3
  <2> QED BY <2>5, <2>7, <2>9
<1>6. CASE ~(p # Nobody /\ frame[p].at = "calling")
  <2>1. frame' = [frame EXCEPT ![i] = [frame[i] EXCEPT !.at = l]]
    BY <1>1, <1>2, <1>6 DEF Returns
  <2>2. /\ frame' \in [Invs -> Frame] /\ frame'[i] = [frame[i] EXCEPT !.at = l]
        /\ \A j \in Invs \ {i} : frame'[j] = frame[j]
    BY <1>1, <1>4, <2>1
  <2>3. \A j \in Invs \ {i} : ~Resumes(i, j)
    BY <1>1, <1>6 DEF Resumes
  <2> QED BY <1>2, <1>3, <2>2, <2>3
<1> QED BY <1>5, <1>6

\* The frame of an invocation that has just begun.
Born(i, f, k, r, p, A, t) ==
    /\ frame'[i].at = "startTrace" /\ frame'[i].fn = f /\ frame'[i].kind = k
    /\ frame'[i].root = r /\ frame'[i].parent = p /\ frame'[i].above = A /\ frame'[i].trace = t
    /\ frame'[i].outcome = "none" /\ frame'[i].timedOut = FALSE
    /\ frame'[i].calls = 0 /\ frame'[i].made = 0

LEMMA InvokeMove ==
    ASSUME Base, NEW f \in Fns, NEW k \in {"http", "trigger"},
           NEW t \in Traces \cup {NoTrace}, Invoke(f, k, t)
    PROVE  /\ used + 1 \in Invs /\ used' = used + 1
           /\ frame' \in [Invs -> Frame]
           /\ Born(used + 1, f, k, used + 1, Nobody, {}, t)
           /\ Others(used + 1)
<1>1. PICK i \in Invs : i = used + 1
  BY UsedType DEF Invoke, Invs
<1>2. PICK g : g = [Unused EXCEPT !.at = "startTrace", !.fn = f, !.kind = k, !.root = i,
                                  !.trace = t]
  OBVIOUS
<1>3. used' = i /\ frame' = [frame EXCEPT ![i] = g]
  BY <1>1, <1>2 DEF Invoke
<1>4. g \in Frame
  BY <1>2 DEF Unused, Frame, Nobody, NoTrace
<1>5. g.at = "startTrace" /\ g.fn = f /\ g.kind = k /\ g.root = i
  BY <1>2 DEF Unused
<1>6. g.parent = Nobody /\ g.above = {} /\ g.trace = t
  BY <1>2 DEF Unused
<1>7. g.outcome = "none" /\ g.timedOut = FALSE /\ g.calls = 0 /\ g.made = 0
  BY <1>2 DEF Unused
<1>8. frame \in [Invs -> Frame]
  BY DEF Base, TypeOK
<1>9. frame' \in [Invs -> Frame] /\ frame'[i] = g /\ Others(i)
  BY <1>3, <1>4, <1>8 DEF Others
<1>10. Born(i, f, k, i, Nobody, {}, t)
  BY <1>5, <1>6, <1>7, <1>9 DEF Born
<1> QED BY <1>1, <1>3, <1>9, <1>10

LEMMA FnInvokeMove ==
    ASSUME Base, NEW p \in Invs, NEW f \in Fns, fn_invoke(p, f)
    PROVE  /\ used + 1 \in Invs /\ used' = used + 1 /\ p <= used
           /\ frame' \in [Invs -> Frame]
           /\ frame[p].at = "running"
           /\ Keeps(frame[p], frame'[p]) /\ frame'[p].at = "calling"
           /\ frame'[p].outcome = frame[p].outcome /\ frame'[p].timedOut = frame[p].timedOut
           /\ frame'[p].made = frame[p].made + 1
           /\ frame'[p].calls = IF Wasm(p) THEN frame[p].calls + 1 ELSE frame[p].calls
           /\ Born(used + 1, f, "call", frame[p].root, p, frame[p].above \cup {p}, frame[p].trace)
           /\ \A j \in Invs \ {p, used + 1} : frame'[j] = frame[j]
<1> DEFINE i == used + 1
<1>a. PICK r \in Invs, A \in SUBSET Invs, t \in Traces \cup {NoTrace} :
         r = frame[p].root /\ A = frame[p].above \cup {p} /\ t = frame[p].trace
  BY AtUsed DEF fn_invoke, Base, Frame
<1>b. PICK c : c = [Unused EXCEPT !.at = "startTrace", !.fn = f, !.kind = "call",
                      !.root = r, !.parent = p, !.above = A, !.trace = t]
  OBVIOUS
<1>1. frame[p].at = "running" /\ frame[p] \in Frame /\ p <= used
  BY AtUsed DEF fn_invoke
<1>2. i \in Invs /\ used' = i /\ i # p
  BY UsedType, <1>1 DEF fn_invoke, Invs
<1>3. PICK m \in Nat, n \in Nat :
         /\ m = frame[p].made + 1
         /\ n = IF Wasm(p) THEN frame[p].calls + 1 ELSE frame[p].calls
  <2>1. frame[p].made \in Nat /\ frame[p].calls \in Nat
    BY <1>1 DEF Frame
  <2>2. frame[p].made + 1 \in Nat
        /\ (IF Wasm(p) THEN frame[p].calls + 1 ELSE frame[p].calls) \in Nat
    BY <2>1
  <2> QED BY <2>2, Zenon
<1>4. frame \in [Invs -> Frame]
  BY DEF Base, TypeOK
<1>5. PICK h : h = [frame[p] EXCEPT !.at = "calling", !.made = m, !.calls = n]
  OBVIOUS
<1>6. frame' = [[frame EXCEPT ![p] = h] EXCEPT ![i] = c]
  BY <1>a, <1>b, <1>2, <1>3, <1>4, <1>5 DEF fn_invoke, StateOf, Frame
<1>7. /\ c \in Frame
      /\ c.at = "startTrace" /\ c.fn = f /\ c.kind = "call" /\ c.root = r
      /\ c.parent = p /\ c.above = A /\ c.trace = t
      /\ c.outcome = "none" /\ c.timedOut = FALSE /\ c.calls = 0 /\ c.made = 0
  <2>1. c \in Frame
    BY <1>b DEF Unused, Frame, Nobody, NoTrace
  <2>2. c.at = "startTrace" /\ c.fn = f /\ c.kind = "call" /\ c.root = r
    BY <1>b DEF Unused
  <2>3. c.parent = p /\ c.above = A /\ c.trace = t
    BY <1>b DEF Unused
  <2>4. c.outcome = "none" /\ c.timedOut = FALSE /\ c.calls = 0 /\ c.made = 0
    BY <1>b DEF Unused
  <2> QED BY <2>1, <2>2, <2>3, <2>4
<1>8. h \in Frame
  BY <1>1, <1>5 DEF Frame
<1>9. /\ h.fn = frame[p].fn /\ h.kind = frame[p].kind /\ h.root = frame[p].root
      /\ h.parent = frame[p].parent /\ h.above = frame[p].above
  BY <1>1, <1>5 DEF Frame
<1>10. h.trace = frame[p].trace /\ h.at = "calling" /\ h.outcome = frame[p].outcome
  BY <1>1, <1>5 DEF Frame
<1>11. h.timedOut = frame[p].timedOut /\ h.calls = n /\ h.made = m
  BY <1>1, <1>5 DEF Frame
<1>12. /\ frame' \in [Invs -> Frame] /\ frame'[p] = h /\ frame'[i] = c
       /\ \A j \in Invs \ {p, i} : frame'[j] = frame[j]
  BY <1>2, <1>4, <1>6, <1>7, <1>8
<1>13. Keeps(frame[p], frame'[p])
  BY <1>8, <1>9, <1>10, <1>12 DEF Keeps
<1>14. Born(i, f, "call", frame[p].root, p, frame[p].above \cup {p}, frame[p].trace)
  BY <1>a, <1>7, <1>12 DEF Born
<1> QED BY <1>1, <1>2, <1>3, <1>10, <1>11, <1>12, <1>13, <1>14

LEMMA CrashMove ==
    ASSUME Base, crash
    PROVE  /\ frame' \in [Invs -> Frame]
           /\ \A j \in Invs : j <= used => Same(frame[j], frame'[j]) /\ frame'[j].at = "over"
           /\ \A j \in Invs : j > used => frame'[j] = frame[j]
<1>1. frame \in [Invs -> Frame]
  BY DEF Base, TypeOK
<1>2. PICK l \in Places : l = "over"
  BY DEF Places
<1>3. frame' = [j \in Invs |-> IF j \in Running THEN [frame[j] EXCEPT !.at = l] ELSE frame[j]]
  BY <1>2 DEF crash
<1>4. \A j \in Invs : /\ Same(frame[j], [frame[j] EXCEPT !.at = l])
                      /\ [frame[j] EXCEPT !.at = l].at = l /\ Same(frame[j], frame[j])
  BY <1>1, SameAt, SameSelf
<1>5. \A j \in Invs : [frame[j] EXCEPT !.at = l] \in Frame
  BY <1>4 DEF Same, Keeps
<1>6. frame' \in [Invs -> Frame]
  BY <1>1, <1>3, <1>5
<1>7. ASSUME NEW j \in Invs, j <= used
      PROVE  Same(frame[j], frame'[j]) /\ frame'[j].at = "over"
  <2>1. CASE j \in Running
    BY <1>2, <1>3, <1>4, <2>1
  <2>2. CASE j \notin Running
    <3>1. frame[j].at = "over" /\ frame'[j] = frame[j]
      BY <1>3, <1>7, <2>2 DEF Running, Base
    <3> QED BY <1>4, <3>1
  <2> QED BY <2>1, <2>2
<1>8. ASSUME NEW j \in Invs, j > used
      PROVE  frame'[j] = frame[j]
  BY <1>3, <1>8, UnusedFrame DEF Running, Base
<1> QED BY <1>6, <1>7, <1>8

-----------------------------------------------------------------------------
(* What a step does to the frames, whatever else it does.                  *)

Early == {"startTrace", "insertRow", "load", "running"}
Late == {"completeTrace", "updateRow"}

\* Invocation i goes on.
Advance(i) ==
    /\ used' = used /\ Move(i)
    /\ frame[i].at \in Early \cup {"calling"} \cup Late
    /\ frame'[i].at \in Early \cup {"calling"} \cup Late
    /\ frame'[i].at \in Early => frame[i].at \in Early
    /\ frame'[i].at \in Late => frame'[i].outcome \in Outcomes
    /\ frame'[i].at = "calling" => frame[i].at = "calling"
    /\ frame[i].at = "calling" => frame'[i].at = "calling" \/ (~Wasm(i) /\ frame'[i].timedOut)
    /\ frame[i].timedOut => frame'[i].timedOut
    /\ \/ frame'[i].calls = frame[i].calls /\ frame'[i].made = frame[i].made
       \/ frame'[i].calls = frame[i].calls + 1 /\ frame'[i].made = frame[i].made + 1

\* It returns to its caller.
Back(i) ==
    /\ used' = used /\ frame' \in [Invs -> Frame]
    /\ frame[i].at = "updateRow"
    /\ Same(frame[i], frame'[i]) /\ frame'[i].at = "over"
    /\ \A j \in Invs \ {i} :
          IF Resumes(i, j) THEN Same(frame[j], frame'[j]) /\ frame'[j].at = "running"
                           ELSE frame'[j] = frame[j]

New(i) ==
    /\ i = used + 1 /\ used' = i /\ frame' \in [Invs -> Frame]
    /\ frame'[i].at = "startTrace" /\ frame'[i].fn \in Fns
    /\ frame'[i].timedOut = FALSE /\ frame'[i].calls = 0 /\ frame'[i].made = 0

\* A request or an event begins one.
Arrival(i) ==
    /\ New(i) /\ Others(i)
    /\ frame'[i].root = i /\ frame'[i].parent = Nobody /\ frame'[i].above = {}

\* Invocation p begins one and waits for it.
Descent(p, i) ==
    /\ New(i) /\ p <= used
    /\ frame[p].at = "running"
    /\ Keeps(frame[p], frame'[p]) /\ frame'[p].at = "calling"
    /\ frame'[p].outcome = frame[p].outcome /\ frame'[p].timedOut = frame[p].timedOut
    /\ frame'[p].made = frame[p].made + 1
    /\ frame'[p].calls = IF Wasm(p) THEN frame[p].calls + 1 ELSE frame[p].calls
    /\ frame'[i].root = frame[p].root /\ frame'[i].parent = p
    /\ frame'[i].above = frame[p].above \cup {p}
    /\ \A j \in Invs \ {p, i} : frame'[j] = frame[j]

\* All of them end where they are.
Death ==
    /\ used' = used /\ frame' \in [Invs -> Frame]
    /\ \A j \in Invs : j <= used => Same(frame[j], frame'[j]) /\ frame'[j].at = "over"
    /\ \A j \in Invs : j > used => frame'[j] = frame[j]

FrameStep ==
    \/ used' = used /\ frame' = frame
    \/ \E i \in Invs : Advance(i) \/ Back(i) \/ Arrival(i)
    \/ \E p, i \in Invs : Descent(p, i)
    \/ Death

LEMMA PlacesApart ==
    /\ Early \subseteq Places /\ Late \subseteq Places
    /\ \A l \in Early : l \notin Late /\ l # "calling" /\ l # "over" /\ l # "none"
    /\ \A l \in Late : l # "calling" /\ l # "over" /\ l # "none"
  BY DEF Early, Late, Places

\* The steps of one invocation.
LEMMA AdvanceBy ==
    ASSUME Base, NEW i \in Invs,
           \/ startTrace(i) \/ insertRow(i) \/ load(i) \/ interrupt(i) \/ completeTrace(i)
           \/ hostCall(i) \/ metrics_publish(i) \/ finish(i) \/ timeout(i)
    PROVE  Advance(i)
<1>1. CASE startTrace(i)
  <2>1. frame[i].at = "startTrace" /\ Goto(i, "insertRow") /\ used' = used
    BY <1>1 DEF startTrace
  <2>2. "insertRow" \in Places
    BY DEF Places
  <2> QED BY <2>1, <2>2, GotoMove DEF Advance, Early, Late
<1>2. CASE insertRow(i)
  <2>1. frame[i].at = "insertRow" /\ Goto(i, AfterInsert(i)) /\ used' = used
    BY <1>2 DEF insertRow
  <2>2. AfterInsert(i) \in {"load", "running"} /\ AfterInsert(i) \in Places
    BY DEF Places, AfterInsert
  <2>3. PICK l \in Places : l = AfterInsert(i) /\ l \in {"load", "running"}
    BY <2>2
  <2> QED BY <2>1, <2>3, GotoMove DEF Advance, Early, Late
<1>3. CASE load(i)
  <2>1. frame[i].at = "load" /\ used' = used
    BY <1>3 DEF load
  <2>2. CASE Goto(i, "running")
    <3>1. "running" \in Places
      BY DEF Places
    <3> QED BY <2>1, <2>2, <3>1, GotoMove DEF Advance, Early, Late
  <2>3. CASE Ends(i, "error")
    <3>1. "error" \in Outcomes
      BY DEF Outcomes
    <3> QED BY <2>1, <2>3, <3>1, EndsMove DEF Advance, Early, Late
  <2> QED BY <1>3, <2>2, <2>3 DEF load
<1>4. CASE interrupt(i)
  <2>1. frame[i].at = "running" /\ used' = used /\ Ends(i, "error") /\ "error" \in Outcomes
    BY <1>4 DEF interrupt, Outcomes
  <2> QED BY <2>1, EndsMove DEF Advance, Early, Late
<1>5. CASE completeTrace(i)
  <2>1. used' = used /\ frame[i].outcome \in Outcomes /\ frame[i].at = "completeTrace"
    BY <1>5 DEF completeTrace, Base
  <2> QED BY <1>5, <2>1, SlowMove DEF Advance, Early, Late
<1>6. CASE hostCall(i)
  <2>1. used' = used /\ Calls(i)
    BY <1>6 DEF hostCall
  <2> QED BY <2>1, CallsMove DEF Advance, Early, Late
<1>7. CASE metrics_publish(i)
  <2>1. used' = used /\ Calls(i)
    BY <1>7 DEF metrics_publish
  <2> QED BY <2>1, CallsMove DEF Advance, Early, Late
<1>8. CASE finish(i)
  <2>1. frame[i].at = "running" /\ used' = used
    BY <1>8 DEF finish
  <2>2. PICK o \in Outcomes : Ends(i, o)
    BY <1>8 DEF finish
  <2> QED BY <2>1, <2>2, EndsMove DEF Advance, Early, Late
<1>9. CASE timeout(i)
  <2>1. used' = used /\ "error" \in Outcomes
    BY <1>9 DEF timeout, Outcomes
  <2> QED BY <1>9, <2>1, TimeoutMove DEF Advance, Early, Late
<1> QED BY <1>1, <1>2, <1>3, <1>4, <1>5, <1>6, <1>7, <1>8, <1>9

LEMMA BackBy ==
    ASSUME Base, NEW i \in Invs, frame[i].at = "updateRow", Returns(i), used' = used
    PROVE  Back(i)
  BY ReturnsMove DEF Back

LEMMA FailureStep ==
    ASSUME Base, NEW i \in Invs, statementFails(i)
    PROVE  Advance(i) \/ Back(i)
<1>1. used' = used
  BY DEF statementFails
<1>2. CASE frame[i].at = "startTrace" /\ Goto(i, "insertRow")
  <2>1. "insertRow" \in Places
    BY DEF Places
  <2> QED BY <1>1, <1>2, <2>1, GotoMove DEF Advance, Early, Late
<1>3. CASE frame[i].at = "insertRow" /\ Goto(i, AfterInsert(i))
  <2>1. PICK l \in Places : l = AfterInsert(i) /\ l \in {"load", "running"}
    BY DEF Places, AfterInsert
  <2> QED BY <1>1, <1>3, <2>1, GotoMove DEF Advance, Early, Late
<1>4. CASE frame[i].at = "completeTrace" /\ Goto(i, "updateRow")
  <2>1. "updateRow" \in Places /\ frame[i].outcome \in Outcomes
    BY <1>4 DEF Places, Base
  <2> QED BY <1>1, <1>4, <2>1, GotoMove DEF Advance, Early, Late
<1>5. CASE frame[i].at = "updateRow" /\ Returns(i)
  BY <1>1, <1>5, BackBy
<1> QED BY <1>2, <1>3, <1>4, <1>5 DEF statementFails

LEMMA Arrives ==
    ASSUME Base, NEW f \in Fns, NEW k \in {"http", "trigger"},
           NEW t \in Traces \cup {NoTrace}, Invoke(f, k, t)
    PROVE  used + 1 \in Invs /\ Arrival(used + 1)
  BY InvokeMove DEF Born, Arrival, New

LEMMA Descends ==
    ASSUME Base, NEW p \in Invs, NEW f \in Fns, fn_invoke(p, f)
    PROVE  used + 1 \in Invs /\ Descent(p, used + 1)
  BY FnInvokeMove DEF Born, Descent, New

LEMMA StepFrames ==
    ASSUME Base, [Next]_vars
    PROVE  FrameStep
<1>1. ASSUME NEW f \in Fns, NEW k \in {"http", "trigger"}, NEW t \in Traces \cup {NoTrace},
             Invoke(f, k, t)
      PROVE  FrameStep
  BY <1>1, Arrives DEF FrameStep
<1>2. ASSUME NEW p \in Invs, NEW f \in Fns, fn_invoke(p, f)
      PROVE  FrameStep
  BY <1>2, Descends DEF FrameStep
<1>3. ASSUME NEW i \in Invs,
             \/ startTrace(i) \/ insertRow(i) \/ load(i) \/ interrupt(i) \/ completeTrace(i)
             \/ hostCall(i) \/ metrics_publish(i) \/ finish(i) \/ timeout(i)
      PROVE  FrameStep
  BY <1>3, AdvanceBy DEF FrameStep
<1>4. ASSUME NEW i \in Invs, updateRow(i)
      PROVE  FrameStep
  BY <1>4, BackBy DEF FrameStep, updateRow
<1>5. ASSUME NEW i \in Invs, statementFails(i)
      PROVE  FrameStep
  BY <1>5, FailureStep DEF FrameStep
<1>6. ASSUME NEW i \in Invs, endRequest(i) \/ disconnect(i)
      PROVE  FrameStep
  BY <1>6 DEF FrameStep, endRequest, disconnect
<1>7. ASSUME NEW f \in Fns, DeleteFunction(f)
      PROVE  FrameStep
  BY <1>7 DEF FrameStep, DeleteFunction
<1>8. CASE crash
  BY <1>8, CrashMove DEF FrameStep, Death, crash
<1>9. CASE UNCHANGED vars
  BY <1>9 DEF FrameStep, vars
<1> QED BY <1>1, <1>2, <1>3, <1>4, <1>5, <1>6, <1>7, <1>8, <1>9
        DEF Next, Begin, Step, Surroundings

-----------------------------------------------------------------------------
(* Types.                                                                  *)

\* What Base says of the frames.
FramesOK ==
    /\ frame \in [Invs -> Frame]
    /\ used \in 0..MaxInvs
    /\ \A i \in Invs : i > used => frame[i] = Unused
    /\ \A i \in Invs : i <= used =>
          /\ frame[i].at # "none" /\ frame[i].fn \in Fns
          /\ frame[i].root \in Invs /\ frame[i].root <= used
          /\ frame[i].above \subseteq 1..used
    /\ \A i \in Invs : frame[i].at \in Late => frame[i].outcome \in Outcomes

\* And what it says of all else.
Data ==
    /\ row \in [Invs -> [state : {"none", "pending"} \cup Outcomes, calls : Nat]]
    /\ trace \in [Traces -> {"none", "running"} \cup Outcomes]
    /\ metrics \subseteq [by : Invs, invocation : Invs \cup {Nobody},
                          fn : Fns \ deleted, trace : Traces \cup {NoTrace}]
    /\ captured \in Invs \cup {Nobody}
    /\ ended \subseteq {"request", "exec"} \X Invs
    /\ deleted \subseteq Fns
    /\ hosts \in Nat /\ faults \in Nat
    /\ left \subseteq Invs
    /\ faulted \subseteq Invs

\* Nothing is by an invocation that has not begun.
Unborn ==
    /\ \A i \in Invs : i > used => row[i] = NoRow
    /\ \A m \in metrics : m.by <= used

LEMMA BaseParts == Base <=> FramesOK /\ Data /\ Unborn
  BY DEF Base, TypeOK, FramesOK, Data, Unborn, Late

LEMMA BasePartsNext == Base' <=> FramesOK' /\ Data' /\ Unborn'
  BY DEF Base, TypeOK, FramesOK, Data, Unborn, Late

\* Who an invocation is never changes.
Who == \A j \in Invs : j <= used =>
          /\ Keeps(frame[j], frame'[j])
          /\ frame[j].timedOut => frame'[j].timedOut
          /\ frame[j].at = "over" => Same(frame[j], frame'[j]) /\ frame'[j].at = "over"

LEMMA FramesWho ==
    ASSUME Base, FrameStep
    PROVE  Who
<1>1. frame \in [Invs -> Frame] /\ used \in Nat
  BY UsedType DEF Base, TypeOK
<1>2. \A j \in Invs : Same(frame[j], frame[j])
  BY <1>1, SameSelf
<1>3. ASSUME NEW i \in Invs, Advance(i)
      PROVE  Who
  <2>1. frame[i].at # "over"
    BY <1>3 DEF Advance, Early, Late
  <2> QED BY <1>2, <1>3, <2>1 DEF Advance, Move, Others, Who, Same
<1>4. ASSUME NEW i \in Invs, Back(i)
      PROVE  Who
  BY <1>2, <1>4 DEF Back, Resumes, Who, Same
<1>5. ASSUME NEW i \in Invs, Arrival(i)
      PROVE  Who
  BY <1>1, <1>2, <1>5 DEF Arrival, New, Others, Who, Same
<1>6. ASSUME NEW p \in Invs, NEW i \in Invs, Descent(p, i)
      PROVE  Who
  BY <1>1, <1>2, <1>6 DEF Descent, New, Who, Same
<1>7. CASE Death
  BY <1>2, <1>7 DEF Death, Who, Same
<1>8. CASE used' = used /\ frame' = frame
  BY <1>2, <1>8 DEF Who, Same
<1> QED BY <1>3, <1>4, <1>5, <1>6, <1>7, <1>8 DEF FrameStep

LEMMA FramesType ==
    ASSUME Base, FrameStep
    PROVE  FramesOK' /\ used <= used'
<1>1. FramesOK
  BY BaseParts
<1>2. used \in Nat /\ MaxInvs \in Nat /\ Invs \subseteq Nat /\ used <= MaxInvs /\ Invs = 1..MaxInvs
  BY UsedType DEF Invs
<1>3. Who
  BY FramesWho
<1>4. CASE used' = used /\ frame' = frame
  BY <1>1, <1>2, <1>4 DEF FramesOK
<1>5. ASSUME NEW i \in Invs, Advance(i)
      PROVE  FramesOK' /\ used <= used'
  <2>1. frame' \in [Invs -> Frame] /\ used' = used /\ i <= used
    BY <1>5, AtUsed DEF Advance, Move, Early, Late
  <2>2. \A j \in Invs : j > used => frame'[j] = Unused
    BY <1>1, <1>5, <2>1, <1>2 DEF Advance, Move, Others, FramesOK
  <2>3. \A j \in Invs : j <= used => frame'[j].at # "none"
    BY <1>1, <1>5 DEF Advance, Move, Others, Early, Late, FramesOK
  <2>4. \A j \in Invs : frame'[j].at \in Late => frame'[j].outcome \in Outcomes
    BY <1>1, <1>5 DEF Advance, Move, Others, FramesOK
  <2> QED BY <1>1, <1>2, <1>3, <2>1, <2>2, <2>3, <2>4 DEF FramesOK, Who, Keeps
<1>6. ASSUME NEW i \in Invs, Back(i)
      PROVE  FramesOK' /\ used <= used'
  <2>1. frame' \in [Invs -> Frame] /\ used' = used /\ i <= used
    BY <1>6, AtUsed DEF Back
  <2>2. \A j \in Invs : j > used => frame'[j] = Unused
    BY <1>1, <1>6, <2>1, <1>2, UnusedFrame DEF Back, Resumes, FramesOK
  <2>3. \A j \in Invs : j <= used => frame'[j].at # "none"
    BY <1>1, <1>6 DEF Back, FramesOK
  <2>4. \A j \in Invs : frame'[j].at \in Late => frame'[j].outcome \in Outcomes
    BY <1>1, <1>6 DEF Back, FramesOK, Late
  <2> QED BY <1>1, <1>2, <1>3, <2>1, <2>2, <2>3, <2>4 DEF FramesOK, Who, Keeps
<1>7. ASSUME NEW i \in Invs, Arrival(i)
      PROVE  FramesOK' /\ used <= used'
  <2>1. frame' \in [Invs -> Frame] /\ used' = used + 1 /\ i = used + 1 /\ used' \in 0..MaxInvs
    BY <1>2, <1>7 DEF Arrival, New
  <2>2. \A j \in Invs : j > used' => frame'[j] = Unused
    BY <1>1, <1>2, <1>7, <2>1 DEF Arrival, Others, FramesOK
  <2>3. ASSUME NEW j \in Invs, j <= used'
        PROVE  /\ frame'[j].at # "none" /\ frame'[j].fn \in Fns
               /\ frame'[j].root \in Invs /\ frame'[j].root <= used'
               /\ frame'[j].above \subseteq 1..used'
    <3>1. CASE j = i
      BY <1>7, <2>1, <3>1 DEF Arrival, New
    <3>2. CASE j # i
      <4>1. j <= used /\ frame'[j] = frame[j]
        BY <1>2, <1>7, <2>1, <2>3, <3>2 DEF Arrival, Others
      <4>2. /\ frame[j].at # "none" /\ frame[j].fn \in Fns
            /\ frame[j].root \in Invs /\ frame[j].root <= used
            /\ frame[j].above \subseteq 1..used
        BY <1>1, <4>1 DEF FramesOK
      <4> QED BY <1>2, <2>1, <4>1, <4>2
    <3> QED BY <3>1, <3>2
  <2>4. \A j \in Invs : frame'[j].at \in Late => frame'[j].outcome \in Outcomes
    BY <1>1, <1>7 DEF Arrival, New, Others, FramesOK, Late
  <2> QED BY <1>2, <2>1, <2>2, <2>3, <2>4 DEF FramesOK
<1>8. ASSUME NEW p \in Invs, NEW i \in Invs, Descent(p, i)
      PROVE  FramesOK' /\ used <= used'
  <2>1. frame' \in [Invs -> Frame] /\ used' = used + 1 /\ i = used + 1 /\ used' \in 0..MaxInvs
    BY <1>2, <1>8 DEF Descent, New
  <2>2. p <= used /\ frame[p].root \in Invs /\ frame[p].root <= used /\ frame[p].above \subseteq 1..used
    BY <1>1, <1>8 DEF Descent, FramesOK
  <2>3. \A j \in Invs : j > used' => frame'[j] = Unused
    BY <1>1, <1>2, <1>8, <2>1, <2>2 DEF Descent, FramesOK
  <2>4. ASSUME NEW j \in Invs, j <= used'
        PROVE  /\ frame'[j].at # "none" /\ frame'[j].fn \in Fns
               /\ frame'[j].root \in Invs /\ frame'[j].root <= used'
               /\ frame'[j].above \subseteq 1..used'
    <3>1. CASE j = i
      <4>1. /\ frame'[j].at = "startTrace" /\ frame'[j].fn \in Fns
            /\ frame'[j].root = frame[p].root /\ frame'[j].above = frame[p].above \cup {p}
        BY <1>8, <3>1 DEF Descent, New
      <4> QED BY <1>2, <2>1, <2>2, <4>1
    <3>2. CASE j # i
      <4>1. j <= used
        BY <1>2, <2>1, <2>4, <3>2
      <4>2. frame'[j].at # "none"
        BY <1>1, <1>8, <3>2, <4>1 DEF Descent, FramesOK
      <4>3. /\ frame'[j].fn = frame[j].fn /\ frame'[j].root = frame[j].root
            /\ frame'[j].above = frame[j].above
        BY <1>3, <4>1 DEF Who, Keeps
      <4>4. /\ frame[j].fn \in Fns /\ frame[j].root \in Invs /\ frame[j].root <= used
            /\ frame[j].above \subseteq 1..used
        BY <1>1, <4>1 DEF FramesOK
      <4> QED BY <1>2, <2>1, <4>2, <4>3, <4>4
    <3> QED BY <3>1, <3>2
  <2>5. \A j \in Invs : frame'[j].at \in Late => frame'[j].outcome \in Outcomes
    BY <1>1, <1>8 DEF Descent, New, FramesOK, Late
  <2> QED BY <1>2, <2>1, <2>3, <2>4, <2>5 DEF FramesOK
<1>9. CASE Death
  <2>1. frame' \in [Invs -> Frame] /\ used' = used
    BY <1>9 DEF Death
  <2>2. \A j \in Invs : j <= used => frame'[j].at = "over"
    BY <1>9 DEF Death
  <2>3. \A j \in Invs : j > used => frame'[j] = Unused /\ frame'[j].at = "none"
    BY <1>1, <1>9, UnusedFrame DEF Death, FramesOK
  <2>4. \A j \in Invs : frame'[j].at \notin Late
    BY <1>2, <2>2, <2>3 DEF Late
  <2>5. \A j \in Invs : j <= used => frame'[j].fn = frame[j].fn /\ frame'[j].root = frame[j].root
                                    /\ frame'[j].above = frame[j].above
    BY <1>3 DEF Who, Keeps
  <2>6. \A j \in Invs : j <= used' =>
          /\ frame'[j].at # "none" /\ frame'[j].fn \in Fns
          /\ frame'[j].root \in Invs /\ frame'[j].root <= used'
          /\ frame'[j].above \subseteq 1..used'
    BY <1>1, <2>1, <2>2, <2>5 DEF FramesOK
  <2> QED BY <1>1, <1>2, <2>1, <2>3, <2>4, <2>6 DEF FramesOK
<1> QED BY <1>4, <1>5, <1>6, <1>7, <1>8, <1>9 DEF FrameStep

\* The rows that one invocation writes.
LEMMA RowsType ==
    ASSUME Base, Data, NEW i \in Invs, i <= used, used' = used, Unborn,
           NEW r \in [state : {"none", "pending"} \cup Outcomes, calls : Nat],
           row' = [row EXCEPT ![i] = r]
    PROVE  /\ row' \in [Invs -> [state : {"none", "pending"} \cup Outcomes, calls : Nat]]
           /\ \A j \in Invs : j > used' => row'[j] = NoRow
<1>1. row \in [Invs -> [state : {"none", "pending"} \cup Outcomes, calls : Nat]]
  BY DEF Data
<1>2. row' \in [Invs -> [state : {"none", "pending"} \cup Outcomes, calls : Nat]]
  BY <1>1
<1>3. ASSUME NEW j \in Invs, j > used' PROVE row'[j] = NoRow
  <2>1. j # i
    BY <1>3, UsedType
  <2> QED BY <1>1, <1>3, <2>1 DEF Unborn
<1> QED BY <1>2, <1>3

LEMMA DataStep ==
    ASSUME Base, [Next]_vars
    PROVE  Data' /\ Unborn'
<1> USE DEF history
<1>1. Data /\ Unborn /\ FramesOK
  BY BaseParts
<1>2. Invs \subseteq Nat /\ used \in Nat /\ used <= used'
  BY UsedType, FramesType, StepFrames
<1>3. CASE UNCHANGED vars
  BY <1>1, <1>3 DEF Data, Unborn, vars
<1>4. ASSUME NEW f \in Fns, NEW k \in {"http", "trigger"}, NEW t \in Traces \cup {NoTrace},
             Invoke(f, k, t)
      PROVE  Data' /\ Unborn'
  <2>1. UNCHANGED <<row, trace, metrics, captured, ended, deleted, hosts, faults, left, faulted>>
        /\ used' = used + 1
    BY <1>4 DEF Invoke
  <2>2. Data'
    BY <1>1, <2>1 DEF Data
  <2>3. \A i \in Invs : i > used' => row'[i] = NoRow
    BY <1>1, <1>2, <2>1 DEF Unborn
  <2>4. ASSUME NEW m \in metrics PROVE m.by <= used'
    <3>1. m.by <= used /\ m.by \in Nat
      BY <1>1, <1>2 DEF Unborn, Data
    <3> QED BY <1>2, <2>1, <3>1
  <2>5. Unborn'
    BY <2>1, <2>3, <2>4 DEF Unborn
  <2> QED BY <2>2, <2>5
<1>5. ASSUME NEW p \in Invs, NEW f \in Fns, fn_invoke(p, f)
      PROVE  Data' /\ Unborn'
  <2>1. UNCHANGED <<row, trace, metrics, captured, ended, deleted, hosts, faults, left, faulted>>
        /\ used' = used + 1
    BY <1>5 DEF fn_invoke
  <2>2. Data'
    BY <1>1, <2>1 DEF Data
  <2>3. \A i \in Invs : i > used' => row'[i] = NoRow
    BY <1>1, <1>2, <2>1 DEF Unborn
  <2>4. ASSUME NEW m \in metrics PROVE m.by <= used'
    <3>1. m.by <= used /\ m.by \in Nat
      BY <1>1, <1>2 DEF Unborn, Data
    <3> QED BY <1>2, <2>1, <3>1
  <2>5. Unborn'
    BY <2>1, <2>3, <2>4 DEF Unborn
  <2> QED BY <2>2, <2>5
<1>6. ASSUME NEW i \in Invs, startTrace(i)
      PROVE  Data' /\ Unborn'
  BY <1>1, <1>6 DEF startTrace, Data, Unborn
<1>7. ASSUME NEW i \in Invs, insertRow(i)
      PROVE  Data' /\ Unborn'
  <2>1. i <= used /\ used' = used
    BY <1>7, AtUsed DEF insertRow
  <2>2. UNCHANGED <<trace, metrics, captured, ended, deleted, hosts, faults, left, faulted>>
    BY <1>7 DEF insertRow
  <2>3. CASE row' = row
    BY <1>1, <2>1, <2>2, <2>3 DEF Data, Unborn
  <2>4. CASE row' = [row EXCEPT ![i].state = "pending"]
    <3>1. PICK r : r = [row[i] EXCEPT !.state = "pending"]
      OBVIOUS
    <3>2. r \in [state : {"none", "pending"} \cup Outcomes, calls : Nat]
      BY <1>1, <3>1 DEF Data
    <3>3. row' = [row EXCEPT ![i] = r]
      BY <2>4, <3>1
    <3> QED BY <1>1, <2>1, <2>2, <3>2, <3>3, RowsType DEF Data, Unborn
  <2> QED BY <1>7, <2>3, <2>4 DEF insertRow
<1>8. ASSUME NEW i \in Invs, load(i)
      PROVE  Data' /\ Unborn'
  BY <1>1, <1>8 DEF load, Data, Unborn
<1>9. ASSUME NEW i \in Invs, interrupt(i)
      PROVE  Data' /\ Unborn'
  BY <1>1, <1>9 DEF interrupt, Data, Unborn
<1>10. ASSUME NEW i \in Invs, completeTrace(i)
      PROVE  Data' /\ Unborn'
  <2>1. frame[i].outcome \in Outcomes
    BY <1>1, <1>10 DEF completeTrace, FramesOK, Late
  <2>2. trace' = trace \/ trace' = CompleteTrace(frame[i].trace, frame[i].outcome)
    BY <1>10 DEF completeTrace
  <2>3. trace' \in [Traces -> {"none", "running"} \cup Outcomes]
    BY <1>1, <2>1, <2>2 DEF CompleteTrace, Data
  <2> QED BY <1>1, <1>10, <2>3 DEF completeTrace, Data, Unborn
<1>11. ASSUME NEW i \in Invs, updateRow(i)
      PROVE  Data' /\ Unborn'
  <2>1. i <= used /\ used' = used /\ frame[i] \in Frame /\ frame[i].outcome \in Outcomes
    BY <1>1, <1>11, AtUsed DEF updateRow, FramesOK, Late
  <2>2. UNCHANGED <<trace, metrics, captured, ended, deleted, hosts, faults, left, faulted>>
    BY <1>11 DEF updateRow
  <2>3. CASE row' = row
    BY <1>1, <2>1, <2>2, <2>3 DEF Data, Unborn
  <2>4. CASE row' # row
    <3>1. PICK r : r = [state |-> frame[i].outcome, calls |-> IF Wasm(i) THEN frame[i].calls ELSE 0]
      OBVIOUS
    <3>2. r \in [state : {"none", "pending"} \cup Outcomes, calls : Nat]
      BY <2>1, <3>1 DEF Frame
    <3>3. row' = [row EXCEPT ![i] = r]
      BY <1>11, <2>4, <3>1 DEF updateRow
    <3> QED BY <1>1, <2>1, <2>2, <3>2, <3>3, RowsType DEF Data, Unborn
  <2> QED BY <2>3, <2>4
<1>12. ASSUME NEW i \in Invs, hostCall(i)
      PROVE  Data' /\ Unborn'
  BY <1>1, <1>12 DEF hostCall, Calls, Data, Unborn
<1>13. ASSUME NEW i \in Invs, metrics_publish(i)
      PROVE  Data' /\ Unborn'
  <2>1. UNCHANGED <<used, row, trace, captured, ended, deleted, faults, left, faulted>>
        /\ hosts' = hosts + 1 /\ i <= used
    BY <1>13, AtUsed DEF metrics_publish, Calls
  <2>2. frame[i] \in Frame /\ frame[i].fn \in Fns
    BY <1>1, <2>1 DEF FramesOK
  <2>3. CASE metrics' = metrics
    BY <1>1, <2>1, <2>3 DEF Data, Unborn
  <2>4. CASE metrics' # metrics
    <3>1. PICK m : m = [by |-> i, invocation |-> i, fn |-> frame[i].fn, trace |-> frame[i].trace]
      OBVIOUS
    <3>2. frame[i].fn \notin deleted /\ metrics' = metrics \cup {m}
      BY <1>13, <2>4, <3>1 DEF metrics_publish, Filed, Attributed
    <3>3. m \in [by : Invs, invocation : Invs \cup {Nobody},
                 fn : Fns \ deleted, trace : Traces \cup {NoTrace}] /\ m.by = i
      BY <2>2, <3>1, <3>2 DEF Frame
    <3> QED BY <1>1, <2>1, <3>2, <3>3 DEF Data, Unborn
  <2> QED BY <2>3, <2>4
<1>14. ASSUME NEW i \in Invs, finish(i)
      PROVE  Data' /\ Unborn'
  BY <1>1, <1>14 DEF finish, Data, Unborn
<1>15. ASSUME NEW i \in Invs, timeout(i)
      PROVE  Data' /\ Unborn'
  BY <1>1, <1>15 DEF timeout, Exec, Request, Data, Unborn
<1>16. ASSUME NEW i \in Invs, endRequest(i)
      PROVE  Data' /\ Unborn'
  BY <1>1, <1>16 DEF endRequest, Request, Data, Unborn
<1>17. ASSUME NEW i \in Invs, disconnect(i)
      PROVE  Data' /\ Unborn'
  BY <1>1, <1>17 DEF disconnect, Upset, Request, Data, Unborn
<1>18. ASSUME NEW i \in Invs, statementFails(i)
      PROVE  Data' /\ Unborn'
  BY <1>1, <1>18 DEF statementFails, Upset, Data, Unborn
<1>19. ASSUME NEW f \in Fns, DeleteFunction(f)
      PROVE  Data' /\ Unborn'
  <2>1. UNCHANGED <<used, trace, captured, hosts, ended, left, faulted>> /\ faults' = faults + 1
        /\ deleted' = deleted \cup {f}
    BY <1>19 DEF DeleteFunction, Upset
  <2>2. row' = [i \in Invs |-> IF frame[i].fn = f THEN NoRow ELSE row[i]]
    BY <1>19 DEF DeleteFunction
  <2>3. metrics' = {m \in metrics : m.fn # f}
    BY <1>19 DEF DeleteFunction
  <2>4. NoRow \in [state : {"none", "pending"} \cup Outcomes, calls : Nat]
    BY DEF NoRow
  <2>5. /\ row' \in [Invs -> [state : {"none", "pending"} \cup Outcomes, calls : Nat]]
        /\ \A i \in Invs : i > used => row'[i] = NoRow
    BY <1>1, <2>2, <2>4 DEF Data, Unborn
  <2>6. metrics' \subseteq [by : Invs, invocation : Invs \cup {Nobody},
                            fn : Fns \ deleted', trace : Traces \cup {NoTrace}]
    BY <1>1, <2>1, <2>3 DEF Data
  <2>7. \A m \in metrics' : m.by <= used
    BY <1>1, <2>3 DEF Unborn
  <2> QED BY <1>1, <2>1, <2>5, <2>6, <2>7 DEF Data, Unborn
<1>20. CASE crash
  <2>1. UNCHANGED <<used, row, trace, metrics, deleted, hosts, left>>
        /\ faults' = faults + 1 /\ captured' = Nobody
    BY <1>20 DEF crash
  <2>2. faulted' \subseteq Invs
    BY <1>1, <1>20 DEF crash, Running, Data
  <2>3. ended' \subseteq {"request", "exec"} \X Invs
    <3>1. \A i \in Running : i \in Invs /\ i <= used
      BY AtUsed DEF Running
    <3>2. \A i \in Running : frame[i].root \in Invs
      BY <1>1, <3>1 DEF FramesOK
    <3> QED BY <1>1, <1>20, <3>2 DEF crash, Request, Data
  <2> QED BY <1>1, <2>1, <2>2, <2>3 DEF Data, Unborn
<1> QED
  BY <1>3, <1>4, <1>5, <1>6, <1>7, <1>8, <1>9, <1>10, <1>11, <1>12, <1>13, <1>14, <1>15,
     <1>16, <1>17, <1>18, <1>19, <1>20 DEF Next, Begin, Step, Surroundings

LEMMA BaseStep ==
    ASSUME Base, [Next]_vars
    PROVE  Base'
  BY StepFrames, FramesType, DataStep, BasePartsNext

LEMMA BaseInit ==
    ASSUME Init
    PROVE  Base
<1>1. MaxInvs \in Nat
  BY InvocationsAssumption
<1>2. FramesOK
  BY <1>1, UnusedFrame DEF Init, FramesOK, Invs, Late
<1>3. Data
  BY DEF Init, Data, NoRow, Outcomes
<1>4. Unborn
  BY DEF Init, Unborn
<1> QED BY <1>2, <1>3, <1>4, BaseParts

\* Invocations, rows, traces, metrics and contexts have their types, and no
\* metric is of a function that is gone (Store.Delete, custom metrics).
THEOREM TypeCorrect == Spec => []TypeOK
<1>1. Init => Base
  BY BaseInit
<1>2. Base /\ [Next]_vars => Base'
  BY BaseStep
<1>3. Base => TypeOK
  BY DEF Base
<1> QED BY <1>1, <1>2, <1>3, PTL DEF Spec

-----------------------------------------------------------------------------
(* Metrics and host calls.                                                 *)

LEMMA OwnStep ==
    ASSUME Base, MetricsAreOwn, [Next]_vars
    PROVE  MetricsAreOwn'
<1>1. Who
  BY StepFrames, FramesWho
<1>2. \A m \in metrics : /\ m.by \in Invs /\ m.by <= used
                         /\ frame'[m.by].fn = frame[m.by].fn
                         /\ frame'[m.by].trace = frame[m.by].trace
  BY <1>1, BaseParts DEF Data, Unborn, Who, Keeps
<1>3. CASE metrics' \subseteq metrics
  BY <1>2, <1>3 DEF MetricsAreOwn
<1>4. ASSUME NEW i \in Invs, metrics_publish(i)
      PROVE  MetricsAreOwn'
  <2>1. CASE metrics' = metrics
    BY <1>3, <2>1
  <2>2. CASE metrics' # metrics
    <3>1. metrics' = metrics \cup {[by |-> i, invocation |-> i, fn |-> frame[i].fn,
                                    trace |-> frame[i].trace]}
      BY <1>4, <2>2 DEF metrics_publish, Attributed
    <3>2. i <= used
      BY <1>4, AtUsed DEF metrics_publish, Calls
    <3>3. frame'[i].fn = frame[i].fn /\ frame'[i].trace = frame[i].trace
      BY <1>1, <3>2 DEF Who, Keeps
    <3> QED BY <1>2, <3>1, <3>3 DEF MetricsAreOwn
  <2> QED BY <2>1, <2>2
<1>5. metrics' \subseteq metrics \/ \E i \in Invs : metrics_publish(i)
  BY DEF Next, Begin, Step, Surroundings, Invoke, fn_invoke, startTrace, insertRow, load,
         interrupt, completeTrace, updateRow, hostCall, finish, timeout, endRequest, disconnect,
         statementFails, DeleteFunction, crash, vars
<1> QED BY <1>3, <1>4, <1>5

\* A custom metric names the invocation and the trace of the code that
\* published it, for any number of invocations (hostfuncs.go, recordCustomMetric).
THEOREM MetricsOwn == Spec => []MetricsAreOwn
<1>1. Init => Base /\ MetricsAreOwn
  BY BaseInit DEF Init, MetricsAreOwn
<1>2. Base /\ MetricsAreOwn /\ [Next]_vars => (Base /\ MetricsAreOwn)'
  BY BaseStep, OwnStep
<1> QED BY <1>1, <1>2, PTL DEF Spec

\* An execution counts what its code called; a complete row has that number.
Counted ==
    \A i \in Invs : i <= used =>
       /\ Wasm(i) => frame[i].calls = frame[i].made
       /\ row[i].state \in Outcomes =>
             /\ frame[i].at = "over"
             /\ row[i].calls = (IF Wasm(i) THEN frame[i].made ELSE 0)

LEMMA WasmKept ==
    ASSUME Who, NEW j \in Invs, j <= used
    PROVE  Wasm(j)' <=> Wasm(j)
  BY DEF Who, Keeps, Wasm

LEMMA CountsStep ==
    ASSUME Base, FrameStep, Counted, NEW j \in Invs, j <= used'
    PROVE  Wasm(j)' => frame'[j].calls = frame'[j].made
<1>1. Who /\ used \in Nat /\ Invs \subseteq Nat
  BY FramesWho, UsedType
<1>2. \A i \in Invs : i <= used => (Wasm(i)' <=> Wasm(i))
  BY <1>1, WasmKept
<1>3. \A i \in Invs : i <= used /\ Wasm(i) => frame[i].calls = frame[i].made
  BY DEF Counted
<1>4. CASE used' = used /\ frame' = frame
  BY <1>2, <1>3, <1>4
<1>5. ASSUME NEW i \in Invs, Advance(i)
      PROVE  Wasm(j)' => frame'[j].calls = frame'[j].made
  BY <1>2, <1>3, <1>5 DEF Advance, Move, Others
<1>6. ASSUME NEW i \in Invs, Back(i)
      PROVE  Wasm(j)' => frame'[j].calls = frame'[j].made
  BY <1>2, <1>3, <1>6 DEF Back, Same
<1>7. ASSUME NEW i \in Invs, Arrival(i)
      PROVE  Wasm(j)' => frame'[j].calls = frame'[j].made
  BY <1>1, <1>2, <1>3, <1>7 DEF Arrival, New, Others
<1>8. ASSUME NEW p \in Invs, NEW i \in Invs, Descent(p, i)
      PROVE  Wasm(j)' => frame'[j].calls = frame'[j].made
  <2>1. CASE j = i
    BY <1>8, <2>1 DEF Descent, New
  <2>2. CASE j # i
    <3>1. j <= used
      BY <1>1, <1>8, <2>2 DEF Descent, New
    <3> QED BY <1>2, <1>3, <1>8, <2>2, <3>1 DEF Descent
  <2> QED BY <2>1, <2>2
<1>9. CASE Death
  BY <1>2, <1>3, <1>9 DEF Death, Same
<1> QED BY <1>4, <1>5, <1>6, <1>7, <1>8, <1>9 DEF FrameStep

\* Only updateRow writes an outcome.
LEMMA OutcomeBy ==
    ASSUME Base, [Next]_vars, NEW j \in Invs, row'[j].state \in Outcomes
    PROVE  row'[j] = row[j] \/ updateRow(j)
<1>1. row \in [Invs -> [state : {"none", "pending"} \cup Outcomes, calls : Nat]]
  BY BaseParts DEF Data
<1>2. CASE row' = row
  BY <1>2
<1>3. ASSUME NEW i \in Invs, insertRow(i)
      PROVE  row'[j] = row[j] \/ updateRow(j)
  BY <1>1, <1>3 DEF insertRow, Outcomes
<1>4. ASSUME NEW i \in Invs, updateRow(i)
      PROVE  row'[j] = row[j] \/ updateRow(j)
  BY <1>1, <1>4 DEF updateRow
<1>5. ASSUME NEW f \in Fns, DeleteFunction(f)
      PROVE  row'[j] = row[j] \/ updateRow(j)
  BY <1>5 DEF DeleteFunction, NoRow, Outcomes
<1>6. \/ row' = row
      \/ \E i \in Invs : insertRow(i) \/ updateRow(i)
      \/ \E f \in Fns : DeleteFunction(f)
  BY DEF Next, Begin, Step, Surroundings, Invoke, fn_invoke, startTrace, load,
         interrupt, completeTrace, hostCall, metrics_publish, finish, timeout, endRequest,
         disconnect, statementFails, crash, vars
<1> QED BY <1>2, <1>3, <1>4, <1>5, <1>6

LEMMA CountedStep ==
    ASSUME Base, Counted, [Next]_vars
    PROVE  Counted'
<1>1. Who /\ FrameStep
  BY StepFrames, FramesWho
<1>2. Base'
  BY BaseStep
<1> SUFFICES ASSUME NEW j \in Invs, j <= used', row'[j].state \in Outcomes
             PROVE  /\ frame'[j].at = "over"
                    /\ row'[j].calls = (IF Wasm(j)' THEN frame'[j].made ELSE 0)
  BY <1>1, CountsStep DEF Counted
<1>3. CASE row'[j] = row[j]
  <2>1. row[j].state \in Outcomes
    BY <1>3
  <2>2. j <= used
    <3>1. row[j] # NoRow
      BY <2>1 DEF NoRow, Outcomes
    <3> QED BY <3>1, UsedType, BaseParts DEF Unborn
  <2>3. frame[j].at = "over" /\ row[j].calls = (IF Wasm(j) THEN frame[j].made ELSE 0)
    BY <2>1, <2>2 DEF Counted
  <2>4. frame'[j].at = "over" /\ frame'[j].made = frame[j].made
    BY <1>1, <2>2, <2>3 DEF Who, Same
  <2> QED BY <1>1, <1>3, <2>2, <2>3, <2>4, WasmKept
<1>4. CASE updateRow(j) /\ row'[j] # row[j]
  <2>1. /\ frame[j].at = "updateRow" /\ Returns(j) /\ j <= used
        /\ row'[j] = [state |-> frame[j].outcome, calls |-> IF Wasm(j) THEN frame[j].calls ELSE 0]
    BY <1>4, AtUsed, BaseParts DEF updateRow, Data
  <2>2. frame'[j].at = "over" /\ frame'[j].made = frame[j].made
    BY <2>1, ReturnsMove DEF Same
  <2> QED BY <1>1, <2>1, <2>2, WasmKept DEF Counted
<1> QED BY <1>3, <1>4, OutcomeBy

\* A completed row tells the host calls of its own code, however deep calls
\* nest (hostfuncs.go, invState; store.go, completeInvocation).
THEOREM HostCallsOwn == Spec => []HostCallsAreOwn
<1>1. Init => Base /\ Counted
  BY BaseInit DEF Init, Counted, Unused, NoRow, Outcomes
<1>2. Base /\ Counted /\ [Next]_vars => (Base /\ Counted)'
  BY BaseStep, CountedStep
<1>3. Base /\ Counted => HostCallsAreOwn
  <2> SUFFICES ASSUME Base, Counted, NEW i \in Invs, row[i].state \in Outcomes
               PROVE  row[i].calls = (IF Wasm(i) THEN frame[i].made ELSE 0)
    BY DEF HostCallsAreOwn
  <2>1. row[i] # NoRow
    BY DEF NoRow, Outcomes
  <2>2. i <= used
    BY <2>1, UsedType, BaseParts DEF Unborn
  <2> QED BY <2>2 DEF Counted
<1> QED BY <1>1, <1>2, <1>3, PTL DEF Spec

\* Host call counts and metrics are those of the code that made the calls,
\* although it shares one host module with all others (wasm.go, hostfuncs.go).
THEOREM HostEffectsOwn == Spec => []HostEffectsAreOwn
<1>1. HostCallsAreOwn /\ MetricsAreOwn => HostEffectsAreOwn
  BY DEF HostEffectsAreOwn
<1> QED BY <1>1, HostCallsOwn, MetricsOwn, PTL

-----------------------------------------------------------------------------
(* Who waits for whom.                                                     *)

Active(i) == frame[i].at \notin {"none", "over"}

\* Those above an invocation are its caller and those above that.
Chain ==
    \A i \in Invs : i <= used =>
       /\ frame[i].parent # Nobody => frame[i].parent \in Invs /\ frame[i].parent <= used
       /\ frame[i].root = i \/ frame[i].root \in frame[i].above
       /\ \A a \in frame[i].above :
             a = frame[i].parent \/ \E d \in frame[i].above : frame[d].parent = a

\* A caller has one callee at most that goes on, and none while it runs itself.
Kids ==
    /\ \A c \in Invs : Active(c) /\ frame[c].parent # Nobody => frame[frame[c].parent].at \notin Early
    /\ \A c, d \in Invs :
          Active(c) /\ Active(d) /\ frame[c].parent = frame[d].parent /\ frame[c].parent # Nobody
             => c = d

\* No function above i has timed out and returned over its callee.
Unhurried(i) == \A a \in frame[i].above : Wasm(a) \/ ~frame[a].timedOut

\* While i goes on, all above it wait, unless one of them returned over it.
Waits ==
    \A i \in Invs : Active(i) /\ Unhurried(i) =>
       \A a \in frame[i].above : frame[a].at = "calling"

LEMMA ActiveUsed ==
    ASSUME Base, NEW i \in Invs, Active(i)
    PROVE  i <= used
  BY AtUsed DEF Active

\* An invocation that goes on did so before, or has just begun.
LEMMA ActiveBack ==
    ASSUME Base, FrameStep, NEW i \in Invs, i <= used, Active(i)'
    PROVE  Active(i)
<1>1. Who
  BY FramesWho
<1>2. frame[i].at # "none"
  BY DEF Base
<1> QED BY <1>1, <1>2 DEF Who, Active

LEMMA AboveUsed ==
    ASSUME Base, NEW i \in Invs, i <= used
    PROVE  \A a \in frame[i].above : a \in Invs /\ a <= used
<1>1. frame[i].above \subseteq 1..used /\ frame[i] \in Frame
  BY DEF Base, TypeOK
<1>2. \A a \in frame[i].above : a \in 1..used
  BY <1>1
<1>3. \A a \in 1..used : a \in Invs /\ a <= used
  BY UsedType DEF Invs
<1> QED BY <1>2, <1>3

LEMMA UnhurriedBack ==
    ASSUME Base, FrameStep, NEW i \in Invs, i <= used, Unhurried(i)'
    PROVE  Unhurried(i)
<1>1. Who /\ frame'[i].above = frame[i].above
  BY FramesWho DEF Who, Keeps
<1> QED BY <1>1, AboveUsed DEF Unhurried, Who, Keeps, Wasm

LEMMA ChainKept ==
    ASSUME Base, FrameStep, Chain, NEW i \in Invs, i <= used
    PROVE  /\ frame'[i].parent # Nobody => frame'[i].parent \in Invs /\ frame'[i].parent <= used'
           /\ frame'[i].root = i \/ frame'[i].root \in frame'[i].above
           /\ \A a \in frame'[i].above :
                a = frame'[i].parent \/ \E d \in frame'[i].above : frame'[d].parent = a
<1>1. Who /\ used <= used' /\ used \in Nat /\ used' \in Nat /\ Invs \subseteq Nat
  BY FramesWho, FramesType, UsedType DEF FramesOK
<1>2. /\ frame'[i].parent = frame[i].parent /\ frame'[i].root = frame[i].root
      /\ frame'[i].above = frame[i].above
  BY <1>1 DEF Who, Keeps
<1>3. \A d \in frame[i].above : frame'[d].parent = frame[d].parent
  BY <1>1, AboveUsed DEF Who, Keeps
<1>4. frame[i].parent # Nobody => frame[i].parent \in Invs /\ frame[i].parent <= used
  BY DEF Chain
<1>5. \A a \in frame[i].above :
         a = frame[i].parent \/ \E d \in frame[i].above : frame[d].parent = a
  BY DEF Chain
<1>6. frame[i].root = i \/ frame[i].root \in frame[i].above
  BY DEF Chain
<1>7. frame'[i].parent # Nobody => frame'[i].parent \in Invs /\ frame'[i].parent <= used'
  <2>1. \A p \in Invs : p <= used => p <= used'
    BY <1>1
  <2> QED BY <1>2, <1>4, <2>1
<1>8. \A a \in frame'[i].above :
         a = frame'[i].parent \/ \E d \in frame'[i].above : frame'[d].parent = a
  BY <1>2, <1>3, <1>5
<1> QED BY <1>2, <1>6, <1>7, <1>8

LEMMA ChainStep ==
    ASSUME Base, FrameStep, Chain
    PROVE  Chain'
<1>1. used \in Nat /\ Invs \subseteq Nat
  BY UsedType
<1>2. \A j \in Invs : j <= used =>
         /\ frame'[j].parent # Nobody => frame'[j].parent \in Invs /\ frame'[j].parent <= used'
         /\ frame'[j].root = j \/ frame'[j].root \in frame'[j].above
         /\ \A a \in frame'[j].above :
               a = frame'[j].parent \/ \E d \in frame'[j].above : frame'[d].parent = a
  BY ChainKept
<1>3. ASSUME NEW i \in Invs, Arrival(i)
      PROVE  Chain'
  <2>1. i = used + 1 /\ used' = used + 1
    BY <1>3 DEF Arrival, New
  <2>2. /\ frame'[i].parent = Nobody /\ frame'[i].root = i /\ frame'[i].above = {}
    BY <1>3 DEF Arrival
  <2>3. \A j \in Invs : j <= used' => j = i \/ j <= used
    BY <1>1, <2>1
  <2> QED BY <1>2, <2>2, <2>3 DEF Chain
<1>4. ASSUME NEW p \in Invs, NEW i \in Invs, Descent(p, i)
      PROVE  Chain'
  <2>1. i = used + 1 /\ used' = used + 1 /\ p <= used /\ i # p
    BY <1>1, <1>4 DEF Descent, New
  <2>2. /\ frame'[i].parent = p /\ frame'[i].root = frame[p].root
        /\ frame'[i].above = frame[p].above \cup {p}
        /\ Keeps(frame[p], frame'[p])
    BY <1>4 DEF Descent
  <2>3. \A j \in Invs : j <= used' => j = i \/ j <= used
    BY <1>1, <2>1
  <2>4. frame[p].root = p \/ frame[p].root \in frame[p].above
    BY <2>1 DEF Chain
  <2>5. ASSUME NEW a \in frame'[i].above
        PROVE  a = p \/ \E d \in frame'[i].above : frame'[d].parent = a
    <3>1. CASE a = p
      BY <3>1
    <3>2. CASE a \in frame[p].above /\ a = frame[p].parent
      <4>1. p \in frame'[i].above /\ frame'[p].parent = a
        BY <2>2, <3>2 DEF Keeps
      <4> QED BY <4>1
    <3>3. CASE a \in frame[p].above /\ a # frame[p].parent
      <4>1. PICK d \in frame[p].above : frame[d].parent = a
        BY <2>1, <3>3 DEF Chain
      <4>2. d \in Invs /\ d <= used
        BY <2>1, <4>1, AboveUsed
      <4>3. frame'[d].parent = a
        BY <4>1, <4>2, FramesWho DEF Who, Keeps
      <4> QED BY <2>2, <4>1, <4>3
    <3> QED BY <2>2, <3>1, <3>2, <3>3
  <2>6. frame'[i].root = i \/ frame'[i].root \in frame'[i].above
    BY <2>2, <2>4
  <2>7. frame'[i].parent \in Invs /\ frame'[i].parent <= used'
    BY <1>1, <2>1, <2>2
  <2>8. \A a \in frame'[i].above :
           a = frame'[i].parent \/ \E d \in frame'[i].above : frame'[d].parent = a
    BY <2>2, <2>5
  <2> QED BY <1>2, <2>3, <2>6, <2>7, <2>8 DEF Chain
<1>5. \/ used' = used
      \/ \E i \in Invs : Arrival(i)
      \/ \E p, i \in Invs : Descent(p, i)
  BY DEF FrameStep, Advance, Back, Death
<1>6. CASE used' = used
  BY <1>2, <1>6 DEF Chain
<1> QED BY <1>3, <1>4, <1>5, <1>6

\* Only a beginning makes a new frame active.
LEMMA Newborn ==
    ASSUME Base, FrameStep, NEW c \in Invs, c > used, Active(c)'
    PROVE  Arrival(c) \/ \E q \in Invs : Descent(q, c)
<1>1. used \in Nat /\ Invs \subseteq Nat
  BY UsedType
<1>2. frame[c] = Unused /\ Unused.at = "none"
  BY UnusedFrame DEF Base
<1>3. frame'[c] # frame[c]
  BY <1>2 DEF Active
<1>4. ASSUME NEW q \in Invs, NEW i \in Invs, Descent(q, i)
      PROVE  c = i
  BY <1>1, <1>3, <1>4 DEF Descent
<1>5. ASSUME NEW i \in Invs, Advance(i) PROVE FALSE
  BY <1>1, <1>3, <1>5, AtUsed DEF Advance, Move, Others, Early, Late
<1>6. ASSUME NEW i \in Invs, Back(i) PROVE FALSE
  <2>1. i <= used
    BY <1>6, AtUsed DEF Back
  <2> QED BY <1>1, <1>2, <1>3, <1>6, <2>1 DEF Back, Resumes
<1>7. ASSUME NEW i \in Invs, Arrival(i) PROVE c = i
  BY <1>3, <1>7 DEF Arrival, Others
<1>8. CASE Death
  BY <1>3, <1>8 DEF Death
<1> QED BY <1>3, <1>4, <1>5, <1>6, <1>7, <1>8 DEF FrameStep

\* The first half of Kids: which callers run.
LEMMA KidsFirst ==
    ASSUME Base, FrameStep, Chain, Kids, NEW c \in Invs, Active(c)', frame'[c].parent # Nobody
    PROVE  frame'[frame'[c].parent].at \notin Early
<1>1. Who /\ used \in Nat /\ Invs \subseteq Nat
  BY FramesWho, UsedType
<1>2. CASE c <= used
  <2> DEFINE p == frame[c].parent
  <2>1. frame'[c].parent = p /\ Active(c)
    BY <1>1, <1>2, ActiveBack DEF Who, Keeps
  <2>2. p \in Invs /\ p <= used /\ p # Nobody
    BY <1>2, <2>1 DEF Chain
  <2>3. frame[p].at \notin Early
    BY <2>1, <2>2 DEF Kids
  <2> HIDE DEF p
  <2>4. ASSUME used' = used /\ frame' = frame PROVE frame'[p].at \notin Early
    BY <2>3, <2>4
  <2>5. ASSUME NEW i \in Invs, Advance(i) PROVE frame'[p].at \notin Early
    BY <2>2, <2>3, <2>5 DEF Advance, Move, Others
  <2>6. ASSUME NEW i \in Invs, Back(i) PROVE frame'[p].at \notin Early
    <3>1. CASE Resumes(i, p) /\ p # i
      <4>1. frame[i].parent = p /\ Active(i) /\ c # i
        <5>1. frame[i].parent = p
          BY <3>1 DEF Resumes
        <5>2. Active(i) /\ frame'[i].at = "over"
          BY <2>6 DEF Back, Active
        <5> QED BY <5>1, <5>2 DEF Active
      <4>2. frame[c].parent = p
        BY DEF p
      <4> QED BY <2>1, <2>2, <4>1, <4>2 DEF Kids
    <3>2. CASE ~Resumes(i, p) /\ p # i
      BY <2>2, <2>3, <2>6, <3>2 DEF Back
    <3>3. CASE p = i
      BY <2>6, <3>3 DEF Back, Early
    <3> QED BY <3>1, <3>2, <3>3
  <2>7. ASSUME NEW i \in Invs, Arrival(i) PROVE frame'[p].at \notin Early
    BY <1>1, <2>2, <2>3, <2>7 DEF Arrival, New, Others
  <2>8. ASSUME NEW q \in Invs, NEW i \in Invs, Descent(q, i) PROVE frame'[p].at \notin Early
    BY <1>1, <2>2, <2>3, <2>8 DEF Descent, New, Early
  <2>9. ASSUME Death PROVE frame'[p].at \notin Early
    BY <2>2, <2>9 DEF Death, Early
  <2>10. frame'[p].at \notin Early
    BY <2>4, <2>5, <2>6, <2>7, <2>8, <2>9 DEF FrameStep
  <2> QED BY <2>1, <2>10
<1>3. CASE c > used
  <2>1. PICK q \in Invs : Descent(q, c)
    BY <1>3, Newborn DEF Arrival
  <2> QED BY <2>1 DEF Descent, Early
<1>4. c <= used \/ c > used
  BY <1>1
<1> QED BY <1>2, <1>3, <1>4

LEMMA KidsStep ==
    ASSUME Base, FrameStep, Chain, Kids
    PROVE  Kids'
<1>1. Who /\ used \in Nat /\ Invs \subseteq Nat
  BY FramesWho, UsedType
<1>2. \A c \in Invs : Active(c)' /\ frame'[c].parent # Nobody
                         => frame'[frame'[c].parent].at \notin Early
  BY KidsFirst
<1>3. ASSUME NEW c \in Invs, NEW d \in Invs, Active(c)', Active(d)',
             frame'[c].parent = frame'[d].parent, frame'[c].parent # Nobody,
             c <= used
      PROVE  c = d
  <2>1. Active(c) /\ frame'[c].parent = frame[c].parent
    BY <1>1, <1>3, ActiveBack DEF Who, Keeps
  <2>2. CASE d <= used
    <3>1. Active(d) /\ frame'[d].parent = frame[d].parent
      BY <1>1, <1>3, <2>2, ActiveBack DEF Who, Keeps
    <3> QED BY <1>3, <2>1, <3>1 DEF Kids
  <2>3. CASE d > used
    <3>1. PICK q \in Invs : Descent(q, d)
      BY <1>3, <2>3, Newborn DEF Arrival
    <3>2. frame[c].parent = q /\ frame[q].at \in Early
      BY <1>3, <2>1, <3>1 DEF Descent, Early
    <3> QED BY <1>3, <2>1, <3>2 DEF Kids
  <2> QED BY <1>1, <2>2, <2>3
<1>4. ASSUME NEW c \in Invs, NEW d \in Invs, Active(c)', Active(d)', c > used, d > used
      PROVE  c = d
  <2>1. \A x \in Invs : Arrival(x) \/ (\E q \in Invs : Descent(q, x)) => x = used + 1
    BY DEF Arrival, Descent, New
  <2> QED BY <1>4, <2>1, Newborn
<1>5. ASSUME NEW c \in Invs, NEW d \in Invs, Active(c)', Active(d)',
             frame'[c].parent = frame'[d].parent, frame'[c].parent # Nobody
      PROVE  c = d
  <2>1. (c <= used \/ c > used) /\ (d <= used \/ d > used)
    BY <1>1
  <2>2. CASE c <= used
    BY <1>3, <1>5, <2>2
  <2>3. CASE d <= used
    <3>1. frame'[d].parent = frame'[c].parent /\ frame'[d].parent # Nobody
      BY <1>5
    <3>2. d = c
      BY <1>3, <1>5, <2>3, <3>1
    <3> QED BY <3>2
  <2>4. CASE c > used /\ d > used
    BY <1>4, <1>5, <2>4
  <2> QED BY <2>1, <2>2, <2>3, <2>4
<1> QED BY <1>2, <1>5 DEF Kids

\* One that went on before: nobody above it stops waiting.
LEMMA WaitsKept ==
    ASSUME Base, FrameStep, Chain, Kids, Waits, NEW j \in Invs, j <= used,
           Active(j)', Unhurried(j)', NEW a \in frame[j].above
    PROVE  frame'[a].at = "calling"
<1>1. used \in Nat /\ Invs \subseteq Nat /\ Nobody \notin Invs
  BY UsedType DEF Nobody
<1>2. Active(j) /\ Unhurried(j)
  BY ActiveBack, UnhurriedBack
<1>3. \A d \in frame[j].above : d \in Invs /\ d <= used /\ frame[d].at = "calling"
  BY <1>2, AboveUsed DEF Waits
<1>4. Wasm(a) \/ ~frame'[a].timedOut
  BY <1>3, FramesWho DEF Who, Keeps, Unhurried, Wasm
<1>5. a \in Invs /\ a <= used /\ frame[a].at = "calling"
  BY <1>3
<1>6. CASE used' = used /\ frame' = frame
  BY <1>5, <1>6
<1>7. ASSUME NEW i \in Invs, Advance(i) PROVE frame'[a].at = "calling"
  BY <1>4, <1>5, <1>7 DEF Advance, Move, Others
<1>8. ASSUME NEW i \in Invs, Back(i) PROVE frame'[a].at = "calling"
  <2>1. frame[i].at = "updateRow" /\ frame'[i].at = "over" /\ Active(i)
    BY <1>8 DEF Back, Active
  <2>2. i # j /\ i # a
    BY <1>5, <2>1 DEF Active
  <2>3. CASE Resumes(i, a)
    <3>1. frame[i].parent = a /\ a # Nobody
      BY <1>1, <1>5, <2>3 DEF Resumes
    <3>2. CASE a = frame[j].parent
      BY <1>2, <2>1, <2>2, <3>1, <3>2 DEF Kids
    <3>3. CASE a # frame[j].parent
      <4>1. PICK d \in frame[j].above : frame[d].parent = a
        BY <3>3 DEF Chain
      <4>2. d \in Invs /\ frame[d].at = "calling" /\ Active(d)
        BY <1>3, <4>1 DEF Active
      <4>3. d = i
        BY <2>1, <3>1, <4>1, <4>2 DEF Kids
      <4> QED BY <2>1, <4>2, <4>3
    <3> QED BY <3>2, <3>3
  <2>4. CASE ~Resumes(i, a)
    BY <1>5, <1>8, <2>2, <2>4 DEF Back
  <2> QED BY <2>3, <2>4
<1>9. ASSUME NEW i \in Invs, Arrival(i) PROVE frame'[a].at = "calling"
  BY <1>1, <1>5, <1>9 DEF Arrival, New, Others
<1>10. ASSUME NEW q \in Invs, NEW i \in Invs, Descent(q, i) PROVE frame'[a].at = "calling"
  BY <1>1, <1>5, <1>10 DEF Descent, New
<1>11. CASE Death
  BY <1>11 DEF Death, Active
<1> QED BY <1>6, <1>7, <1>8, <1>9, <1>10, <1>11 DEF FrameStep

LEMMA WaitsStep ==
    ASSUME Base, FrameStep, Chain, Kids, Waits
    PROVE  Waits'
<1>1. Who /\ used \in Nat /\ Invs \subseteq Nat
  BY FramesWho, UsedType
<1> SUFFICES ASSUME NEW j \in Invs, Active(j)', Unhurried(j)', NEW a \in frame'[j].above
             PROVE  frame'[a].at = "calling"
  BY DEF Waits
<1>2. CASE j <= used
  <2>1. frame'[j].above = frame[j].above
    BY <1>1, <1>2 DEF Who, Keeps
  <2> QED BY <1>2, <2>1, WaitsKept
<1>3. CASE j > used
  <2>1. PICK q \in Invs : Descent(q, j)
    BY <1>3, Newborn DEF Arrival
  <2>2. /\ frame'[j].above = frame[q].above \cup {q} /\ frame[q].at = "running"
        /\ frame'[q].at = "calling" /\ q <= used
        /\ \A i \in Invs \ {q, j} : frame'[i] = frame[i]
    BY <2>1 DEF Descent
  <2>3. \A b \in frame[q].above : b \in Invs /\ b <= used
    BY <2>2, AboveUsed
  <2>4. Unhurried(q)
    BY <1>1, <2>2, <2>3 DEF Unhurried, Who, Keeps, Wasm
  <2>5. \A b \in frame[q].above : frame[b].at = "calling"
    BY <2>2, <2>4 DEF Waits, Active
  <2>6. CASE a = q
    BY <2>2, <2>6
  <2>7. CASE a # q
    <3>1. a \in Invs /\ a <= used /\ frame[a].at = "calling" /\ a # j
      BY <1>1, <1>3, <2>2, <2>3, <2>5, <2>7
    <3> QED BY <2>2, <2>7, <3>1
  <2> QED BY <2>6, <2>7
<1> QED BY <1>1, <1>2, <1>3

-----------------------------------------------------------------------------
(* The contexts that are done.                                             *)

Done ==
    /\ \A a \in Invs : Exec(a) \in ended => frame[a].timedOut
    /\ \A r \in Invs : Request(r) \in ended =>
          \/ r \in left
          \/ frame[r].kind = "trigger" /\ frame[r].timedOut
          \/ frame[r].at = "over"

\* A frame that timed out, or is over, stays so.
LEMMA DoneKept ==
    ASSUME Base, FrameStep, NEW r \in Invs
    PROVE  /\ frame[r].timedOut => frame'[r].timedOut
           /\ frame[r].kind = "trigger" /\ frame[r].timedOut =>
                 frame'[r].kind = "trigger" /\ frame'[r].timedOut
           /\ frame[r].at = "over" => frame'[r].at = "over"
<1>1. Who /\ used \in Nat /\ Invs \subseteq Nat
  BY FramesWho, UsedType
<1>2. frame[r].timedOut \/ frame[r].at = "over" => r <= used
  BY <1>1, UnusedFrame DEF Base
<1> QED BY <1>1, <1>2 DEF Who, Keeps

LEMMA DoneStep ==
    ASSUME Base, Done, [Next]_vars
    PROVE  Done'
<1>1. FrameStep
  BY StepFrames
<1>2. left \subseteq left'
  BY DEF Next, Begin, Step, Surroundings, Invoke, fn_invoke, startTrace, insertRow, load,
         interrupt, completeTrace, updateRow, hostCall, metrics_publish, finish, timeout,
         endRequest, disconnect, statementFails, DeleteFunction, crash, history, vars
<1>3. \A a \in Invs : Exec(a) \in ended => frame'[a].timedOut
  BY <1>1, DoneKept DEF Done
<1>4. \A r \in Invs : Request(r) \in ended =>
         \/ r \in left'
         \/ frame'[r].kind = "trigger" /\ frame'[r].timedOut
         \/ frame'[r].at = "over"
  BY <1>1, <1>2, DoneKept DEF Done
<1>5. CASE ended' = ended
  BY <1>3, <1>4, <1>5 DEF Done, Exec, Request
<1>6. ASSUME NEW i \in Invs, timeout(i) PROVE Done'
  <2>1. frame'[i].timedOut /\ frame'[i].kind = frame[i].kind
    BY <1>6, TimeoutMove DEF Move, Keeps
  <2>2. \A a \in Invs : Exec(a) \in ended' => Exec(a) \in ended \/ a = i
    BY <1>6 DEF timeout, Exec, Request
  <2>3. \A r \in Invs : Request(r) \in ended' =>
                       Request(r) \in ended \/ (r = i /\ frame[i].kind = "trigger")
    BY <1>6 DEF timeout, Exec, Request
  <2> QED BY <1>3, <1>4, <2>1, <2>2, <2>3 DEF Done, Exec, Request
<1>7. ASSUME NEW i \in Invs, endRequest(i) PROVE Done'
  <2>1. ended' = ended \cup {Request(i)} /\ frame'[i].at = "over"
    BY <1>7 DEF endRequest
  <2> QED BY <1>3, <1>4, <2>1 DEF Done, Exec, Request
<1>8. ASSUME NEW i \in Invs, disconnect(i) PROVE Done'
  <2>1. ended' = ended \cup {Request(i)} /\ i \in left'
    BY <1>8 DEF disconnect
  <2> QED BY <1>3, <1>4, <2>1 DEF Done, Exec, Request
<1>9. CASE crash
  <2>1. ended' = ended \cup {Request(frame[i].root) : i \in Running}
    BY <1>9 DEF crash
  <2>2. \A i \in Running : frame'[frame[i].root].at = "over"
    <3>1. \A i \in Running : i \in Invs /\ i <= used
      BY AtUsed DEF Running
    <3>2. \A i \in Running : frame[i].root \in Invs /\ frame[i].root <= used
      BY <3>1 DEF Base
    <3> QED BY <1>9, <3>2, CrashMove
  <2>3. \A r \in Invs : Request(r) \in ended' =>
                       Request(r) \in ended \/ \E i \in Running : r = frame[i].root
    BY <2>1 DEF Request
  <2>4. \A a \in Invs : Exec(a) \in ended' => Exec(a) \in ended
    BY <2>1 DEF Request, Exec
  <2> QED BY <1>3, <1>4, <2>2, <2>3, <2>4 DEF Done, Exec, Request
<1>10. \/ ended' = ended
       \/ \E i \in Invs : timeout(i) \/ endRequest(i) \/ disconnect(i)
       \/ crash
  BY DEF Next, Begin, Step, Surroundings, Invoke, fn_invoke, startTrace, insertRow, load,
         interrupt, completeTrace, updateRow, hostCall, metrics_publish, finish,
         statementFails, DeleteFunction, vars
<1> QED BY <1>5, <1>6, <1>7, <1>8, <1>9, <1>10

\* While nothing above i is out of time, its context lives as long as i does.
LEMMA AliveInTime ==
    ASSUME Base, Chain, Waits, Done, NEW i \in Invs, Active(i), InTime(i)
    PROVE  Alive(i)
<1>1. i <= used
  BY ActiveUsed
<1>2. \A a \in frame[i].above : a \in Invs /\ ~frame[a].timedOut
  BY <1>1, AboveUsed DEF InTime
<1>3. frame[i].root \in Invs /\ (frame[i].root = i \/ frame[i].root \in frame[i].above)
  BY <1>1 DEF Base, Chain
<1>4. frame[frame[i].root].at # "over"
  <2>1. \A a \in frame[i].above : frame[a].at = "calling"
    BY <1>2 DEF Waits, Unhurried
  <2> QED BY <1>3, <2>1 DEF Active
<1>5. Request(frame[i].root) \notin ended
  BY <1>3, <1>4 DEF Done, InTime
<1>6. \A a \in frame[i].above : Exec(a) \notin ended
  BY <1>2 DEF Done
<1> QED BY <1>5, <1>6 DEF Alive, Contexts

-----------------------------------------------------------------------------
(* The outcome of an invocation reaches its row.                           *)

\* Where an invocation stands whose row has been inserted.
Inserted == {"load", "running", "calling", "completeTrace", "updateRow"}

\* Nothing kept invocation i from writing its row.
Uncut(i) == InTime(i) /\ i \notin faulted /\ frame[i].fn \notin deleted

Account(i) ==
    Uncut(i) => /\ frame[i].at \in Inserted => row[i].state = "pending"
                /\ frame[i].at = "over" => row[i].state = frame[i].outcome

Accounts == \A i \in Invs : i <= used => Account(i)

\* What a step may change about the causes: there are ever more of them.
LEMMA CausesGrow ==
    ASSUME [Next]_vars
    PROVE  left \subseteq left' /\ faulted \subseteq faulted' /\ deleted \subseteq deleted'
  BY DEF Next, Begin, Step, Surroundings, Invoke, fn_invoke, startTrace, insertRow, load,
         interrupt, completeTrace, updateRow, hostCall, metrics_publish, finish, timeout,
         endRequest, disconnect, statementFails, DeleteFunction, crash, history, vars

LEMMA UncutBack ==
    ASSUME Base, [Next]_vars, NEW i \in Invs, i <= used, Uncut(i)'
    PROVE  Uncut(i)
<1>1. FrameStep /\ Who
  BY StepFrames, FramesWho
<1>2. /\ frame'[i].root = frame[i].root /\ frame'[i].above = frame[i].above
      /\ frame'[i].fn = frame[i].fn
  BY <1>1 DEF Who, Keeps
<1>3. frame[i].root \in Invs /\ \A a \in frame[i].above : a \in Invs
  BY AboveUsed DEF Base
<1>4. frame[i].root \notin left
  BY <1>2, CausesGrow DEF Uncut, InTime
<1>5. \A a \in frame[i].above : ~frame[a].timedOut
  BY <1>1, <1>2, <1>3, DoneKept DEF Uncut, InTime
<1>6. frame[frame[i].root].kind = "trigger" => ~frame[frame[i].root].timedOut
  BY <1>1, <1>2, <1>3, DoneKept DEF Uncut, InTime
<1>7. i \notin faulted /\ frame[i].fn \notin deleted
  BY <1>2, CausesGrow DEF Uncut
<1> QED BY <1>4, <1>5, <1>6, <1>7 DEF Uncut, InTime

\* An invocation whose row the step leaves alone, and which it does not move
\* past the insertion or to its end.
LEMMA AccountKept ==
    ASSUME Base, [Next]_vars, Accounts, NEW j \in Invs, j <= used, row'[j] = row[j],
           frame'[j].at \in Inserted => frame[j].at \in Inserted,
           frame'[j].at = "over" => frame[j].at = "over"
    PROVE  Account(j)'
<1>1. Uncut(j)' => Uncut(j)
  BY UncutBack
<1>2. frame[j].at = "over" => frame'[j].outcome = frame[j].outcome
  BY StepFrames, FramesWho DEF Who, Same
<1> QED BY <1>1, <1>2 DEF Accounts, Account

\* Whether a step leaves all rows alone, and moves nobody but i and its caller.
Quiet(i) ==
    /\ row' = row
    /\ frame'[i].at \in Inserted => frame[i].at \in Inserted
    /\ frame'[i].at = "over" => frame[i].at = "over"

LEMMA AdvanceQuiet ==
    ASSUME Base, [Next]_vars, Accounts, NEW i \in Invs, Advance(i), Quiet(i),
           NEW j \in Invs, j <= used
    PROVE  Account(j)'
<1>1. j # i => frame'[j] = frame[j]
  BY DEF Advance, Move, Others
<1>2. frame'[j].at \in Inserted => frame[j].at \in Inserted
  BY <1>1 DEF Quiet
<1>3. frame'[j].at = "over" => frame[j].at = "over"
  BY <1>1 DEF Quiet
<1> QED BY <1>2, <1>3, AccountKept DEF Quiet

LEMMA AccountStep ==
    ASSUME Base, Chain, Waits, Done, Accounts, [Next]_vars, NEW j \in Invs, j <= used
    PROVE  Account(j)'
<1>1. FrameStep /\ Who
  BY StepFrames, FramesWho
<1>2. CASE UNCHANGED vars
  BY <1>2, AccountKept DEF vars
<1>3. ASSUME NEW f \in Fns, NEW k \in {"http", "trigger"}, NEW t \in Traces \cup {NoTrace},
             Invoke(f, k, t)
      PROVE  Account(j)'
  <2>1. Arrival(used + 1) /\ row' = row /\ j # used + 1
    <3>1. Arrival(used + 1)
      BY <1>3, Arrives
    <3>2. row' = row
      BY <1>3 DEF Invoke
    <3>3. j # used + 1
      BY UsedType
    <3> QED BY <3>1, <3>2, <3>3
  <2>2. frame'[j] = frame[j]
    BY <2>1 DEF Arrival, Others
  <2> QED BY <2>1, <2>2, AccountKept
<1>4. ASSUME NEW p \in Invs, NEW f \in Fns, fn_invoke(p, f)
      PROVE  Account(j)'
  <2>1. Descent(p, used + 1) /\ row' = row /\ j # used + 1
    <3>1. Descent(p, used + 1)
      BY <1>4, Descends
    <3>2. row' = row
      BY <1>4 DEF fn_invoke
    <3>3. j # used + 1
      BY UsedType
    <3> QED BY <3>1, <3>2, <3>3
  <2>2. CASE j = p
    BY <2>1, <2>2, AccountKept DEF Descent, Inserted
  <2>3. CASE j # p
    BY <2>1, <2>3, AccountKept DEF Descent
  <2> QED BY <2>2, <2>3
<1>5. ASSUME NEW i \in Invs,
             \/ load(i) \/ interrupt(i) \/ completeTrace(i)
             \/ hostCall(i) \/ metrics_publish(i) \/ finish(i) \/ timeout(i)
      PROVE  Account(j)'
  <2>1. Advance(i)
    BY <1>5, AdvanceBy
  <2>2. row' = row /\ frame[i].at \in Inserted
    BY <1>5 DEF load, interrupt, completeTrace, hostCall, metrics_publish, Calls, finish,
                timeout, Expires, Inserted
  <2>3. frame'[i].at # "over"
    BY <2>1 DEF Advance, Early, Late
  <2> QED BY <2>1, <2>2, <2>3, AdvanceQuiet DEF Quiet
<1>6. ASSUME NEW i \in Invs, startTrace(i)
      PROVE  Account(j)'
  <2>1. Advance(i) /\ row' = row
    BY <1>6, AdvanceBy DEF startTrace
  <2>2. frame'[i].at = "insertRow"
    <3>1. "insertRow" \in Places
      BY DEF Places
    <3> QED BY <1>6, <3>1, GotoMove DEF startTrace
  <2> QED BY <2>1, <2>2, AdvanceQuiet DEF Quiet, Inserted
<1>7. ASSUME NEW i \in Invs, insertRow(i)
      PROVE  Account(j)'
  <2>1. Advance(i) /\ frame[i].at = "insertRow" /\ frame'[i].at # "over"
    BY <1>7, AdvanceBy DEF insertRow, Advance, Early, Late
  <2>2. CASE j = i
    <3>1. Uncut(j)' => Uncut(j)
      BY UncutBack
    <3>2. Uncut(j) => Alive(j) /\ frame[j].fn \notin deleted
      BY <2>1, <2>2, AliveInTime DEF Uncut, Active
    <3>3. Uncut(j) => row'[j].state = "pending"
      <4>1. row \in [Invs -> [state : {"none", "pending"} \cup Outcomes, calls : Nat]]
        BY BaseParts DEF Data
      <4>2. Uncut(j) => row' = [row EXCEPT ![j].state = "pending"]
        BY <1>7, <2>2, <3>2 DEF insertRow
      <4> QED BY <4>1, <4>2
    <3> QED BY <2>1, <2>2, <3>1, <3>3 DEF Account
  <2>3. CASE j # i
    <3>1. row'[j] = row[j] /\ frame'[j] = frame[j]
      BY <1>7, <2>1, <2>3, BaseParts DEF insertRow, Data, Advance, Move, Others
    <3> QED BY <3>1, AccountKept
  <2> QED BY <2>2, <2>3
<1>8. ASSUME NEW i \in Invs, updateRow(i)
      PROVE  Account(j)'
  <2>1. frame[i].at = "updateRow" /\ Back(i)
    BY <1>8, BackBy DEF updateRow
  <2>2. CASE j = i
    <3>1. Uncut(j)' => Uncut(j)
      BY UncutBack
    <3>2. Uncut(j) => Alive(j) /\ row[j].state = "pending"
      BY <2>1, <2>2, AliveInTime DEF Uncut, Active, Accounts, Account, Inserted
    <3>3. Uncut(j) => row'[j].state = frame[j].outcome
      <4>1. row \in [Invs -> [state : {"none", "pending"} \cup Outcomes, calls : Nat]]
        BY BaseParts DEF Data
      <4>2. Uncut(j) => row' = [row EXCEPT ![j] = [state |-> frame[j].outcome,
                                    calls |-> IF Wasm(j) THEN frame[j].calls ELSE 0]]
        BY <1>8, <2>2, <3>2 DEF updateRow, Writable
      <4> QED BY <4>1, <4>2
    <3>4. frame'[j].at = "over" /\ frame'[j].outcome = frame[j].outcome
      BY <2>1, <2>2 DEF Back, Same
    <3> QED BY <3>1, <3>3, <3>4 DEF Account, Inserted
  <2>3. CASE j # i
    <3>1. row'[j] = row[j]
      BY <1>8, <2>3, BaseParts DEF updateRow, Data
    <3>2. CASE Resumes(i, j)
      BY <2>1, <2>3, <3>1, <3>2, AccountKept DEF Back, Resumes, Inserted
    <3>3. CASE ~Resumes(i, j)
      BY <2>1, <2>3, <3>1, <3>3, AccountKept DEF Back
    <3> QED BY <3>2, <3>3
  <2> QED BY <2>2, <2>3
<1>9. ASSUME NEW i \in Invs, statementFails(i)
      PROVE  Account(j)'
  <2>1. row' = row /\ faulted' = faulted \cup {i}
    BY <1>9 DEF statementFails
  <2>2. CASE j = i
    BY <2>1, <2>2 DEF Account, Uncut
  <2>3. CASE j # i /\ Advance(i)
    BY <2>1, <2>3, AccountKept DEF Advance, Move, Others
  <2>4. CASE j # i /\ Back(i)
    <3>1. CASE Resumes(i, j)
      BY <2>1, <2>4, <3>1, AccountKept DEF Back, Resumes, Inserted
    <3>2. CASE ~Resumes(i, j)
      BY <2>1, <2>4, <3>2, AccountKept DEF Back
    <3> QED BY <3>1, <3>2
  <2> QED BY <1>9, <2>2, <2>3, <2>4, FailureStep
<1>10. ASSUME NEW i \in Invs, endRequest(i) \/ disconnect(i)
      PROVE  Account(j)'
  BY <1>10, AccountKept DEF endRequest, disconnect
<1>11. ASSUME NEW f \in Fns, DeleteFunction(f)
      PROVE  Account(j)'
  <2>1. frame' = frame /\ deleted' = deleted \cup {f}
    BY <1>11 DEF DeleteFunction
  <2>2. CASE frame[j].fn = f
    BY <2>1, <2>2 DEF Account, Uncut
  <2>3. CASE frame[j].fn # f
    BY <1>11, <2>1, <2>3, AccountKept DEF DeleteFunction
  <2> QED BY <2>2, <2>3
<1>12. CASE crash
  <2>1. CASE j \in Running
    BY <1>12, <2>1 DEF crash, Account, Uncut
  <2>2. CASE j \notin Running
    <3>1. frame'[j] = frame[j] /\ row' = row
      BY <1>12, <2>2 DEF crash
    <3> QED BY <3>1, AccountKept
  <2> QED BY <2>1, <2>2
<1> QED BY <1>2, <1>3, <1>4, <1>5, <1>6, <1>7, <1>8, <1>9, <1>10, <1>11, <1>12
        DEF Next, Begin, Step, Surroundings

LEMMA AccountsStep ==
    ASSUME Base, Chain, Waits, Done, Accounts, [Next]_vars
    PROVE  Accounts'
<1>1. FrameStep /\ used \in Nat /\ Invs \subseteq Nat
  BY StepFrames, UsedType
<1>2. \A j \in Invs : j <= used => Account(j)'
  BY AccountStep
<1>3. ASSUME NEW j \in Invs, j <= used', j > used
      PROVE  frame'[j].at = "startTrace"
  <2>1. \/ used' = used
        \/ \E i \in Invs : i = used + 1 /\ used' = i /\ frame'[i].at = "startTrace"
    BY <1>1 DEF FrameStep, Advance, Back, Death, Arrival, Descent, New
  <2> QED BY <1>1, <1>3, <2>1
<1>4. \A j \in Invs : j <= used' /\ j > used => Account(j)'
  BY <1>3 DEF Account, Inserted
<1>5. \A j \in Invs : j <= used \/ j > used
  BY <1>1
<1> QED BY <1>2, <1>4, <1>5 DEF Accounts

IInv == Base /\ Chain /\ Kids /\ Waits /\ Done /\ Accounts

\* Every invocation that is over has its outcome in its row, at any depth,
\* unless one above it timed out, its client left, a fault struck or its
\* function is gone (store.go, completeInvocation under the caller's context).
THEOREM OutcomesReachRows == Spec => []AccountedUnlessCut
<1>1. Init => IInv
  <2> SUFFICES ASSUME Init PROVE IInv
    OBVIOUS
  <2>1. Base /\ used = 0 /\ Invs \subseteq Nat \ {0}
    BY BaseInit, UsedType DEF Init
  <2>2. \A i \in Invs : ~(i <= used) /\ ~Active(i) /\ Exec(i) \notin ended /\ Request(i) \notin ended
    BY <2>1, UnusedFrame DEF Init, Active
  <2> QED BY <2>1, <2>2 DEF IInv, Chain, Kids, Waits, Done, Accounts
<1>2. IInv /\ [Next]_vars => IInv'
  BY BaseStep, StepFrames, ChainStep, KidsStep, WaitsStep, DoneStep, AccountsStep DEF IInv
<1>3. IInv => AccountedUnlessCut
  <2> SUFFICES ASSUME IInv, NEW i \in Invs, frame[i].at = "over", Uncut(i)
               PROVE  row[i].state = frame[i].outcome
    BY DEF AccountedUnlessCut, Uncut
  <2>1. i <= used
    BY AtUsed DEF IInv
  <2> QED BY <2>1 DEF IInv, Accounts, Account
<1> QED BY <1>1, <1>2, <1>3, PTL DEF Spec

-----------------------------------------------------------------------------
(* The trace of a request tells how the request ended.                     *)

\* What a request's own frame says of it.
RootsOK ==
    \A r \in Invs : frame[r].root = r =>
       /\ frame[r].parent = Nobody /\ frame[r].above = {}
       /\ frame[r].kind = "trigger" <=> frame[r].trace = NoTrace

\* Nothing of request r has gone wrong so far: its client is there, its trace
\* is its own, no fault has hit it and no function returned over its callee.
Calm(r) ==
    /\ frame[r].root = r /\ frame[r].trace # NoTrace /\ r \notin left
    /\ \A i \in Invs : frame[i].trace = frame[r].trace => frame[i].root = r
    /\ \A i \in Tree(r) : i \notin faulted /\ Unhurried(i)

\* Then it has its trace once it has begun, and once it has told its outcome
\* nobody says otherwise.
Told(r) ==
    LET t == frame[r].trace IN
    Calm(r) =>
       /\ frame[r].at # "startTrace" => trace[t] # "none"
       /\ frame[r].slow =>
             frame[r].at \in {"updateRow", "over"} /\ trace[t] = frame[r].outcome

Tells == \A r \in Invs : Told(r)

\* The steps that write a trace.
LEMMA TraceBy ==
    ASSUME [Next]_vars
    PROVE  trace' = trace \/ \E i \in Invs : startTrace(i) \/ completeTrace(i)
  BY DEF Next, Begin, Step, Surroundings, Invoke, fn_invoke, insertRow, load,
         interrupt, updateRow, hostCall, metrics_publish, finish, timeout,
         endRequest, disconnect, statementFails, DeleteFunction, crash, vars

\* A step that leaves invocation r's report to the trace alone.
Silent(r) == frame'[r].slow = frame[r].slow

LEMMA GotoSilent ==
    ASSUME Base, NEW i \in Invs, NEW l, Goto(i, l), NEW r \in Invs
    PROVE  Silent(r)
  BY DEF Goto, Silent, Base, TypeOK, Frame

LEMMA EndsSilent ==
    ASSUME Base, NEW i \in Invs, NEW o, Ends(i, o), NEW r \in Invs
    PROVE  Silent(r)
  BY DEF Ends, Silent, Base, TypeOK, Frame

LEMMA CallsSilent ==
    ASSUME Base, NEW i \in Invs, Calls(i), NEW r \in Invs
    PROVE  Silent(r)
  BY DEF Calls, StateOf, Silent, Base, TypeOK, Frame

LEMMA TimeoutSilent ==
    ASSUME Base, NEW i \in Invs, timeout(i), NEW r \in Invs
    PROVE  Silent(r)
  BY DEF timeout, Silent, Base, TypeOK, Frame

LEMMA ReturnsSilent ==
    ASSUME Base, NEW i \in Invs, Returns(i), NEW r \in Invs
    PROVE  Silent(r)
  BY DEF Returns, Silent, Base, TypeOK, Frame

LEMMA CrashSilent ==
    ASSUME Base, crash, NEW r \in Invs
    PROVE  Silent(r)
  BY DEF crash, Silent, Base, TypeOK, Frame

LEMMA FnInvokeSilent ==
    ASSUME Base, NEW p \in Invs, NEW f \in Fns, fn_invoke(p, f), NEW r \in Invs, r <= used
    PROVE  Silent(r)
  BY UsedType DEF fn_invoke, StateOf, Silent, Base, TypeOK, Frame

\* Only completeTrace(r) reports to the trace of r.
LEMMA SilentStep ==
    ASSUME Base, [Next]_vars, NEW r \in Invs, r <= used, ~completeTrace(r)
    PROVE  Silent(r)
<1>1. CASE UNCHANGED vars
  BY <1>1 DEF vars, Silent
<1>2. ASSUME NEW f \in Fns, NEW k \in {"http", "trigger"}, NEW t \in Traces \cup {NoTrace},
             Invoke(f, k, t)
      PROVE  Silent(r)
  BY <1>2, InvokeMove, UsedType DEF Others, Silent
<1>3. ASSUME NEW i \in Invs, startTrace(i) \/ insertRow(i) PROVE Silent(r)
  BY <1>3, GotoSilent DEF startTrace, insertRow
<1>4. ASSUME NEW i \in Invs, load(i) \/ interrupt(i) \/ finish(i) PROVE Silent(r)
  BY <1>4, GotoSilent, EndsSilent DEF load, interrupt, finish
<1>5. ASSUME NEW i \in Invs, hostCall(i) \/ metrics_publish(i) PROVE Silent(r)
  BY <1>5, CallsSilent DEF hostCall, metrics_publish
<1>6. ASSUME NEW i \in Invs, completeTrace(i) PROVE Silent(r)
  BY <1>6, SlowMove DEF Move, Others, Silent
<1>7. ASSUME NEW i \in Invs, updateRow(i) \/ statementFails(i) PROVE Silent(r)
  BY <1>7, GotoSilent, ReturnsSilent DEF updateRow, statementFails
<1>8. ASSUME NEW i \in Invs, endRequest(i) \/ disconnect(i) PROVE Silent(r)
  BY <1>8 DEF endRequest, disconnect, Silent
<1>9. ASSUME NEW f \in Fns, DeleteFunction(f) PROVE Silent(r)
  BY <1>9 DEF DeleteFunction, Silent
<1> QED
  BY <1>1, <1>2, <1>3, <1>4, <1>5, <1>6, <1>7, <1>8, <1>9,
     FnInvokeSilent, TimeoutSilent, CrashSilent
  DEF Next, Begin, Step, Surroundings

\* Where invocation r has reported, its outcome is final.
Final(r) == frame[r].at \in {"updateRow", "over"}

LEMMA FinalStep ==
    ASSUME Base, [Next]_vars, NEW r \in Invs, Final(r)
    PROVE  Final(r)' /\ frame'[r].outcome = frame[r].outcome
<1>1. r <= used /\ used \in Nat /\ Invs \subseteq Nat
  BY AtUsed, UsedType DEF Final
<1>2. CASE frame'[r] = frame[r]
  BY <1>2 DEF Final
<1>3. ASSUME NEW i \in Invs, Others(i), frame[i].at \notin {"updateRow", "over"}
      PROVE  frame'[r] = frame[r]
  BY <1>3 DEF Others, Final
<1>4. ASSUME NEW f \in Fns, NEW k \in {"http", "trigger"}, NEW t \in Traces \cup {NoTrace},
             Invoke(f, k, t)
      PROVE  frame'[r] = frame[r]
  BY <1>1, <1>4, InvokeMove DEF Others
<1>5. ASSUME NEW p \in Invs, NEW f \in Fns, fn_invoke(p, f)
      PROVE  frame'[r] = frame[r]
  BY <1>1, <1>5, Descends DEF Descent, Final
<1>6. ASSUME NEW i \in Invs, startTrace(i) \/ insertRow(i) PROVE frame'[r] = frame[r]
  BY <1>3, <1>6, AdvanceBy DEF Advance, Move, startTrace, insertRow
<1>7. ASSUME NEW i \in Invs, load(i) \/ interrupt(i) \/ finish(i) \/ completeTrace(i)
      PROVE  frame'[r] = frame[r]
  BY <1>3, <1>7, AdvanceBy DEF Advance, Move, load, interrupt, finish, completeTrace
<1>8. ASSUME NEW i \in Invs, hostCall(i) \/ metrics_publish(i) \/ timeout(i)
      PROVE  frame'[r] = frame[r]
  BY <1>3, <1>8, AdvanceBy DEF Advance, Move, hostCall, metrics_publish, timeout, Calls, Expires
<1>9. ASSUME NEW i \in Invs, Back(i) PROVE Final(r)' /\ frame'[r].outcome = frame[r].outcome
  <2>1. CASE r = i
    BY <1>9, <2>1 DEF Back, Same, Final
  <2>2. CASE r # i
    BY <1>2, <1>9, <2>2 DEF Back, Resumes, Final
  <2> QED
    BY <2>1, <2>2
<1>10. ASSUME NEW i \in Invs, statementFails(i)
       PROVE  Final(r)' /\ frame'[r].outcome = frame[r].outcome
  <2>1. CASE frame[i].at = "updateRow"
    <3>1. Returns(i) /\ used' = used
      BY <1>10, <2>1 DEF statementFails
    <3> QED
      BY <1>9, <2>1, <3>1, BackBy
  <2>2. CASE frame[i].at # "updateRow"
    <3>1. frame[i].at \notin {"updateRow", "over"}
      BY <1>10, <2>2 DEF statementFails
    <3>2. Advance(i)
      BY <1>10, <2>2, FailureStep DEF Back
    <3> QED
      BY <1>2, <1>3, <3>1, <3>2 DEF Advance, Move
  <2> QED
    BY <2>1, <2>2
<1>11. ASSUME NEW i \in Invs, updateRow(i)
       PROVE  Final(r)' /\ frame'[r].outcome = frame[r].outcome
  BY <1>9, <1>11, BackBy DEF updateRow
<1>12. CASE crash
  BY <1>1, <1>12, CrashMove DEF Same, Final
<1>13. ASSUME NEW i \in Invs, endRequest(i) \/ disconnect(i) PROVE frame'[r] = frame[r]
  BY <1>13 DEF endRequest, disconnect
<1>14. ASSUME NEW f \in Fns, DeleteFunction(f) PROVE frame'[r] = frame[r]
  BY <1>14 DEF DeleteFunction
<1>15. CASE UNCHANGED vars
  BY <1>2, <1>15 DEF vars
<1> QED
  BY <1>2, <1>4, <1>5, <1>6, <1>7, <1>8, <1>10, <1>11, <1>12, <1>13, <1>14, <1>15
  DEF Next, Begin, Step, Surroundings

\* An invocation is begun by startTrace(i), or a fault strikes it.
LEMMA LeavesStart ==
    ASSUME Base, [Next]_vars, NEW r \in Invs, frame[r].at = "startTrace",
           frame'[r].at # "startTrace"
    PROVE  startTrace(r) \/ r \in faulted'
<1>1. r <= used /\ used \in Nat /\ Invs \subseteq Nat
  BY AtUsed, UsedType
<1>2. ASSUME NEW i \in Invs, Others(i) PROVE r = i
  BY <1>2 DEF Others
<1>3. ASSUME NEW f \in Fns, NEW k \in {"http", "trigger"}, NEW t \in Traces \cup {NoTrace},
             Invoke(f, k, t)
      PROVE  FALSE
  BY <1>1, <1>3, InvokeMove DEF Others
<1>4. ASSUME NEW p \in Invs, NEW f \in Fns, fn_invoke(p, f) PROVE FALSE
  BY <1>1, <1>4, Descends DEF Descent
<1>5. ASSUME NEW i \in Invs,
             \/ insertRow(i) \/ load(i) \/ interrupt(i) \/ completeTrace(i)
             \/ hostCall(i) \/ metrics_publish(i) \/ finish(i) \/ timeout(i)
      PROVE  FALSE
  <2>1. r = i
    BY <1>2, <1>5, AdvanceBy DEF Advance, Move
  <2> QED
    BY <1>5, <2>1 DEF insertRow, load, interrupt, completeTrace, hostCall, metrics_publish,
                      finish, timeout, Calls, Expires
<1>6. ASSUME NEW i \in Invs, startTrace(i) PROVE startTrace(r)
  BY <1>2, <1>6, AdvanceBy DEF Advance, Move
<1>7. ASSUME NEW i \in Invs, Back(i) PROVE FALSE
  BY <1>7 DEF Back, Resumes
<1>8. ASSUME NEW i \in Invs, updateRow(i) PROVE FALSE
  BY <1>7, <1>8, BackBy DEF updateRow
<1>9. ASSUME NEW i \in Invs, statementFails(i) PROVE r \in faulted'
  <2>1. Advance(i)
    BY <1>7, <1>9, FailureStep
  <2>2. r = i
    BY <1>2, <2>1 DEF Advance, Move
  <2> QED
    BY <1>9, <2>2 DEF statementFails
<1>10. CASE crash
  BY <1>10 DEF crash, Running
<1>11. ASSUME NEW i \in Invs, endRequest(i) \/ disconnect(i) PROVE FALSE
  BY <1>11 DEF endRequest, disconnect
<1>12. ASSUME NEW f \in Fns, DeleteFunction(f) PROVE FALSE
  BY <1>12 DEF DeleteFunction
<1>13. CASE UNCHANGED vars
  BY <1>13 DEF vars
<1> QED
  BY <1>3, <1>4, <1>5, <1>6, <1>8, <1>9, <1>10, <1>11, <1>12, <1>13
  DEF Next, Begin, Step, Surroundings

LEMMA InvokeSilent ==
    ASSUME Base, NEW f \in Fns, NEW k \in {"http", "trigger"},
           NEW t \in Traces \cup {NoTrace}, Invoke(f, k, t)
    PROVE  frame'[used + 1].slow = FALSE
<1>1. used + 1 \in Invs /\ frame \in [Invs -> Frame]
  BY InvokeMove DEF Base, TypeOK
<1>2. frame'[used + 1] = [Unused EXCEPT
          !.at = "startTrace", !.fn = f, !.kind = k, !.root = used + 1, !.trace = t]
  BY <1>1 DEF Invoke
<1> QED
  BY <1>2 DEF Unused

\* The frame of a request that has just begun.
Fresh(r) ==
    /\ frame'[r].at = "startTrace" /\ frame'[r].slow = FALSE
    /\ frame'[r].parent = Nobody /\ frame'[r].above = {}
    /\ frame'[r].kind = "trigger" <=> frame'[r].trace = NoTrace

LEMMA FreshRoot ==
    ASSUME Base, [Next]_vars, NEW r \in Invs, r > used, frame'[r].root = r
    PROVE  Fresh(r)
<1>1. used \in Nat /\ Invs \subseteq Nat /\ Nobody \notin Invs
  BY UsedType DEF Nobody
<1>2. CASE used' = used
  <2>1. frame'[r] = Unused
    BY <1>2, BaseStep DEF Base
  <2> QED
    BY <1>1, <2>1, UnusedFrame
<1>3. ASSUME NEW f \in Fns, NEW k \in {"http", "trigger"}, NEW t \in Traces \cup {NoTrace},
             Invoke(f, k, t)
      PROVE  Fresh(r)
  <2>1. Others(used + 1) /\ Born(used + 1, f, k, used + 1, Nobody, {}, t)
    BY <1>3, InvokeMove
  <2>2. r # used + 1 => frame'[r] = Unused
    BY <2>1 DEF Others, Base
  <2>3. r = used + 1
    BY <1>1, <2>2, UnusedFrame
  <2>4. t = NoTrace <=> k = "trigger"
    BY <1>3 DEF Invoke
  <2> QED
    BY <1>3, <2>1, <2>3, <2>4, InvokeSilent DEF Born, Fresh
<1>4. ASSUME NEW p \in Invs, NEW f \in Fns, fn_invoke(p, f) PROVE FALSE
  <2>1. Descent(p, used + 1) /\ used + 1 \in Invs
    BY <1>4, Descends
  <2>2. r = used + 1
    <3>1. CASE r # used + 1
      <4>1. frame'[r] = Unused
        BY <1>1, <2>1, <3>1 DEF Descent, Base
      <4> QED
        BY <1>1, <4>1, UnusedFrame
    <3> QED
      BY <3>1
  <2>3. frame'[r].root = frame[p].root /\ p <= used
    BY <2>1, <2>2 DEF Descent
  <2>4. frame[p].root <= used /\ frame[p].root \in Invs
    BY <2>3 DEF Base
  <2>5. r <= used
    BY <2>2, <2>3, <2>4
  <2> QED
    BY <1>1, <2>5
<1>5. \/ used' = used
      \/ \E f \in Fns, k \in {"http", "trigger"}, t \in Traces \cup {NoTrace} : Invoke(f, k, t)
      \/ \E p \in Invs, f \in Fns : fn_invoke(p, f)
  BY DEF Next, Begin, Step, Surroundings, startTrace, insertRow, load,
         interrupt, completeTrace, updateRow, hostCall, metrics_publish, finish, timeout,
         endRequest, disconnect, statementFails, DeleteFunction, crash, vars
<1> QED
  BY <1>2, <1>3, <1>4, <1>5

LEMMA RootsStep ==
    ASSUME Base, [Next]_vars, RootsOK
    PROVE  RootsOK'
<1>1. Who /\ used \in Nat /\ Invs \subseteq Nat
  BY StepFrames, FramesWho, UsedType
<1>2. ASSUME NEW r \in Invs, frame'[r].root = r, r <= used
      PROVE  /\ frame'[r].parent = Nobody /\ frame'[r].above = {}
             /\ frame'[r].kind = "trigger" <=> frame'[r].trace = NoTrace
  BY <1>1, <1>2 DEF Who, Keeps, RootsOK
<1>3. ASSUME NEW r \in Invs, frame'[r].root = r, r > used
      PROVE  /\ frame'[r].parent = Nobody /\ frame'[r].above = {}
             /\ frame'[r].kind = "trigger" <=> frame'[r].trace = NoTrace
  BY <1>3, FreshRoot DEF Fresh
<1>4. \A r \in Invs : r <= used \/ r > used
  BY <1>1
<1> QED
  BY <1>2, <1>3, <1>4 DEF RootsOK

\* A request that is calm was calm.
LEMMA CalmBack ==
    ASSUME Base, [Next]_vars, NEW r \in Invs, r <= used, Calm(r)'
    PROVE  Calm(r) /\ frame'[r].trace = frame[r].trace
<1>1. FrameStep /\ Who /\ used \in Nat /\ Invs \subseteq Nat /\ Nobody \notin Invs
  BY StepFrames, FramesWho, UsedType DEF Nobody
<1>2. /\ frame'[r].root = frame[r].root /\ frame'[r].trace = frame[r].trace
      /\ left \subseteq left' /\ faulted \subseteq faulted'
  BY <1>1, CausesGrow DEF Who, Keeps
<1>3. frame[r].root = r /\ frame[r].trace # NoTrace /\ r \notin left
  BY <1>2 DEF Calm
<1>4. ASSUME NEW i \in Invs, frame[i].trace = frame[r].trace PROVE frame[i].root = r
  <2>1. i <= used
    <3>1. Unused.trace = NoTrace
      BY DEF Unused
    <3> QED
      BY <1>1, <1>3, <1>4, <3>1 DEF Base
  <2>2. frame'[i].trace = frame[i].trace /\ frame'[i].root = frame[i].root
    BY <1>1, <2>1 DEF Who, Keeps
  <2> QED
    BY <1>2, <1>4, <2>2 DEF Calm
<1>5. ASSUME NEW i \in Tree(r) PROVE i \notin faulted /\ Unhurried(i)
  <2>1. i \in Invs /\ frame[i].root = r
    BY DEF Tree
  <2>2. i <= used
    BY <1>1, <2>1, UnusedFrame DEF Base
  <2>3. frame'[i].root = r
    BY <1>1, <2>1, <2>2 DEF Who, Keeps
  <2>4. i \notin faulted' /\ Unhurried(i)'
    BY <2>1, <2>3 DEF Calm, Tree
  <2> QED
    BY <1>1, <1>2, <2>1, <2>2, <2>4, UnhurriedBack
<1> QED
  BY <1>2, <1>3, <1>4, <1>5 DEF Calm

\* While request r is calm and has reported, nothing it called still goes on.
LEMMA LastWord ==
    ASSUME Base, Chain, Waits, NEW r \in Invs, Calm(r), Final(r),
           NEW i \in Invs, i # r, frame[i].trace = frame[r].trace
    PROVE  ~Active(i)
<1> SUFFICES ASSUME Active(i) PROVE FALSE
  OBVIOUS
<1>1. frame[i].root = r /\ i \in Tree(r) /\ i <= used
  BY ActiveUsed DEF Calm, Tree
<1>2. r \in frame[i].above
  BY <1>1 DEF Chain
<1>3. frame[r].at = "calling"
  BY <1>1, <1>2 DEF Calm, Waits
<1> QED
  BY <1>3 DEF Final

\* A trace that there is stays.
LEMMA TraceStays ==
    ASSUME Base, [Next]_vars, NEW t \in Traces, trace[t] # "none"
    PROVE  trace'[t] # "none"
<1>1. trace \in [Traces -> {"none", "running"} \cup Outcomes]
  BY DEF Base, TypeOK
<1>2. ASSUME NEW i \in Invs, startTrace(i) PROVE trace'[t] # "none"
  BY <1>1, <1>2 DEF startTrace
<1>3. ASSUME NEW i \in Invs, completeTrace(i) PROVE trace'[t] # "none"
  <2>1. frame[i].outcome \in Outcomes
    BY <1>3 DEF completeTrace, Base
  <2>2. trace' = trace \/ trace' = [trace EXCEPT ![frame[i].trace] = frame[i].outcome]
    BY <1>3 DEF completeTrace, CompleteTrace
  <2> QED
    BY <1>1, <2>1, <2>2 DEF Outcomes
<1> QED
  BY <1>2, <1>3, TraceBy

\* What completeTrace(i) remembers, it reports.
LEMMA ReportsSlow ==
    ASSUME Base, NEW i \in Invs, completeTrace(i), frame'[i].slow
    PROVE  trace' = CompleteTrace(frame[i].trace, frame[i].outcome)
<1>1. frame \in [Invs -> Frame]
  BY DEF Base, TypeOK
<1>2. PICK slow \in BOOLEAN :
         /\ trace' = IF slow /\ frame[i].trace # NoTrace
                     THEN CompleteTrace(frame[i].trace, frame[i].outcome) ELSE trace
         /\ frame' = [frame EXCEPT ![i].at = "updateRow",
                  ![i].slow = slow /\ frame[i].trace # NoTrace /\ frame[i].parent = Nobody]
  BY DEF completeTrace
<1>3. frame'[i].slow => slow /\ frame[i].trace # NoTrace
  BY <1>1, <1>2 DEF Frame
<1> QED
  BY <1>2, <1>3

TellInv == Base /\ Chain /\ Kids /\ Waits /\ Done /\ RootsOK /\ Tells

LEMMA TellsStep ==
    ASSUME Base, Chain, Waits, Done, RootsOK, Tells, [Next]_vars
    PROVE  Tells'
<1>1. Who /\ used \in Nat /\ Invs \subseteq Nat /\ Nobody \notin Invs
  BY StepFrames, FramesWho, UsedType DEF Nobody
<1> SUFFICES ASSUME NEW r \in Invs, Calm(r)'
             PROVE  /\ frame'[r].at # "startTrace" => trace'[frame'[r].trace] # "none"
                    /\ frame'[r].slow =>
                          /\ frame'[r].at \in {"updateRow", "over"}
                          /\ trace'[frame'[r].trace] = frame'[r].outcome
  BY DEF Tells, Told
<1>2. CASE r > used
  <2>1. Fresh(r)
    BY <1>2, FreshRoot DEF Calm
  <2> QED
    BY <2>1 DEF Fresh
<1>3. CASE r <= used
  <2> DEFINE t == frame[r].trace
  <2>1. /\ Calm(r) /\ frame'[r].trace = t /\ t \in Traces
        /\ frame[r].root = r /\ frame[r].above = {} /\ frame[r].kind # "trigger"
    <3>1. Calm(r) /\ frame'[r].trace = t
      BY <1>3, CalmBack
    <3>2. frame[r] \in Frame
      BY DEF Base, TypeOK
    <3>3. t \in Traces \cup {NoTrace} /\ t # NoTrace /\ frame[r].root = r
      BY <3>1, <3>2 DEF Calm, Frame
    <3> QED
      BY <3>1, <3>3 DEF RootsOK
  <2>2. /\ frame[r].at # "startTrace" => trace[t] # "none"
        /\ frame[r].slow => Final(r) /\ trace[t] = frame[r].outcome
    BY <2>1 DEF Tells, Told, Final
  <2> HIDE DEF t
  <2>3. trace[t] # "none" => trace'[t] # "none"
    BY <2>1, TraceStays
  <2>4. ASSUME frame'[r].at # "startTrace" PROVE trace'[t] # "none"
    <3>1. CASE frame[r].at # "startTrace"
      BY <2>2, <2>3, <3>1
    <3>2. CASE frame[r].at = "startTrace"
      <4>1. startTrace(r)
        <5>1. r \notin faulted'
          BY <2>1 DEF Calm, Tree
        <5> QED
          BY <2>4, <3>2, <5>1, LeavesStart
      <4>2. Alive(r)
        <5>1. Request(r) \notin ended
          BY <2>1, <3>2 DEF Done, Calm
        <5> QED
          BY <2>1, <5>1 DEF Alive, Contexts
      <4>3. trace' = IF trace[t] = "none" THEN [trace EXCEPT ![t] = "running"] ELSE trace
        BY <2>1, <4>1, <4>2 DEF startTrace, t, Calm
      <4> QED
        BY <2>1, <4>3 DEF Base, TypeOK
    <3> QED
      BY <3>1, <3>2
  <2>5. ASSUME completeTrace(r), frame'[r].slow
        PROVE  frame'[r].at = "updateRow" /\ trace'[t] = frame'[r].outcome
    <3>1. trace' = CompleteTrace(t, frame[r].outcome)
      BY <2>5, ReportsSlow DEF t
    <3>2. /\ frame[r].at = "completeTrace" /\ frame'[r].at = "updateRow"
          /\ frame'[r].outcome = frame[r].outcome
      BY <2>5, SlowMove
    <3>3. trace \in [Traces -> {"none", "running"} \cup Outcomes] /\ trace[t] # "none"
      BY <2>2, <3>2 DEF Base, TypeOK
    <3> QED
      BY <2>1, <3>1, <3>2, <3>3 DEF CompleteTrace
  <2>6. ASSUME ~completeTrace(r), frame'[r].slow
        PROVE  Final(r)' /\ trace'[t] = frame'[r].outcome
    <3>1. frame[r].slow /\ Final(r) /\ trace[t] = frame[r].outcome
      BY <1>3, <2>2, <2>6, SilentStep DEF Silent
    <3>2. Final(r)' /\ frame'[r].outcome = frame[r].outcome
      BY <3>1, FinalStep
    <3>3. trace[t] # "none"
      BY <2>2, <3>1 DEF Final
    <3>4. trace'[t] = trace[t]
      <4>1. CASE trace' = trace
        BY <4>1
      <4>2. ASSUME NEW i \in Invs, startTrace(i) PROVE trace'[t] = trace[t]
        BY <3>3, <4>2 DEF startTrace, Base, TypeOK
      <4>3. ASSUME NEW i \in Invs, completeTrace(i) PROVE trace'[t] = trace[t]
        <5>1. i # r /\ Active(i)
          BY <2>6, <4>3 DEF completeTrace, Active
        <5>2. frame[i].trace # t
          BY <2>1, <3>1, <5>1, LastWord DEF t
        <5> QED
          BY <4>3, <5>2 DEF completeTrace, CompleteTrace, Base, TypeOK
      <4> QED
        BY <4>1, <4>2, <4>3, TraceBy
    <3> QED
      BY <3>1, <3>2, <3>4
  <2> QED
    BY <2>1, <2>4, <2>5, <2>6 DEF Final
<1> QED
  BY <1>1, <1>2, <1>3

\* The trace of a request tells how the request ended and not how a function
\* it called did, however deep it called, unless its client left, a fault
\* struck or a JavaScript function timed out over its callee (store.go,
\* CompleteTrace by every invocation that took a millisecond).
THEOREM RequestTellsTrace == Spec => []TraceTellsOutcome
<1>1. Init => TellInv
  <2> SUFFICES ASSUME Init PROVE TellInv
    OBVIOUS
  <2>1. Base /\ used = 0 /\ Invs \subseteq Nat \ {0}
    BY BaseInit, UsedType DEF Init
  <2>2. \A i \in Invs : ~(i <= used) /\ ~Active(i) /\ Exec(i) \notin ended /\ Request(i) \notin ended
    BY <2>1, UnusedFrame DEF Init, Active
  <2>3. \A i \in Invs : frame[i].root # i
    BY <2>1, UnusedFrame DEF Init, Nobody
  <2> QED
    BY <2>1, <2>2, <2>3 DEF TellInv, Chain, Kids, Waits, Done, RootsOK, Tells, Told, Calm
<1>2. TellInv /\ [Next]_vars => TellInv'
  BY BaseStep, StepFrames, ChainStep, KidsStep, WaitsStep, DoneStep, RootsStep, TellsStep
  DEF TellInv
<1>3. TellInv => TraceTellsOutcome
  <2> SUFFICES ASSUME TellInv, NEW r \in Invs,
                      frame[r].root = r, frame[r].trace # NoTrace, frame[r].slow,
                      \A i \in Invs : frame[i].trace = frame[r].trace => frame[i].root = r,
                      Orderly(r), r \notin left
               PROVE  trace[frame[r].trace] = frame[r].outcome
    BY DEF TraceTellsOutcome
  <2>1. Calm(r)
    BY DEF Calm, Orderly, Unhurried
  <2> QED
    BY <2>1 DEF TellInv, Tells, Told
<1> QED
  BY <1>1, <1>2, <1>3, PTL DEF Spec

-----------------------------------------------------------------------------
(* Whatever waits for whatever, something can be moved.                    *)

\* A caller's index is smaller than its callee's, and its caller is above both.
Upward ==
    \A i \in Invs : i <= used =>
       /\ frame[i].parent = Nobody => frame[i].above = {}
       /\ frame[i].parent # Nobody => frame[i].parent < i /\ frame[i].parent \in frame[i].above
       /\ \A a \in frame[i].above :
             frame[a].parent = Nobody \/ frame[a].parent \in frame[i].above

\* Time is up for a caller before it is up for what it called; then a WASM
\* function is stopped, and a JavaScript function has returned.
Timers ==
    \A i \in Invs : frame[i].timedOut =>
       /\ frame[i].parent # Nobody => frame[frame[i].parent].timedOut
       /\ IF Wasm(i) THEN Exec(i) \in ended
                     ELSE frame[i].at \in Late \cup {"over"}

\* One that waits is waited for by a callee that goes on.
Callees ==
    \A p \in Invs : frame[p].at = "calling" =>
       \E c \in Invs : Active(c) /\ frame[c].parent = p

\* Above an invocation that goes on, those whose time is not up are waiting.
Patience ==
    \A i \in Invs : Active(i) =>
       \A a \in frame[i].above : frame[a].timedOut \/ frame[a].at = "calling"

\* Time runs out for an invocation by timeout only.
LEMMA TimedBy ==
    ASSUME Base, [Next]_vars, NEW i \in Invs, frame'[i].timedOut
    PROVE  frame[i].timedOut \/ timeout(i)
<1>1. used \in Nat /\ Invs \subseteq Nat /\ frame \in [Invs -> Frame]
  BY UsedType DEF Base, TypeOK
<1>2. ASSUME NEW j \in Invs, Others(j), frame'[j].timedOut = frame[j].timedOut
      PROVE  frame[i].timedOut
  BY <1>2 DEF Others
<1>3. ASSUME NEW j \in Invs, Goto(j, "insertRow") \/ Goto(j, AfterInsert(j)) \/ Goto(j, "running")
                             \/ Goto(j, "updateRow")
      PROVE  frame[i].timedOut
  BY <1>1, <1>3 DEF Goto, Frame
<1>4. ASSUME NEW j \in Invs, NEW o, Ends(j, o) PROVE frame[i].timedOut
  BY <1>1, <1>4 DEF Ends, Frame
<1>5. ASSUME NEW j \in Invs, Calls(j) PROVE frame[i].timedOut
  BY <1>1, <1>2, <1>5, CallsMove DEF Move
<1>6. ASSUME NEW j \in Invs, completeTrace(j) PROVE frame[i].timedOut
  BY <1>2, <1>6, SlowMove DEF Move
<1>7. ASSUME NEW j \in Invs, Back(j) PROVE frame[i].timedOut
  BY <1>7 DEF Back, Same
<1>8. ASSUME NEW j \in Invs, updateRow(j) PROVE frame[i].timedOut
  BY <1>7, <1>8, BackBy DEF updateRow
<1>9. ASSUME NEW j \in Invs, statementFails(j) PROVE frame[i].timedOut
  BY <1>3, <1>7, <1>9, BackBy DEF statementFails
<1>10. ASSUME NEW f \in Fns, NEW k \in {"http", "trigger"}, NEW t \in Traces \cup {NoTrace},
              Invoke(f, k, t)
       PROVE  frame[i].timedOut
  BY <1>10, InvokeMove DEF Born, Others
<1>11. ASSUME NEW p \in Invs, NEW f \in Fns, fn_invoke(p, f) PROVE frame[i].timedOut
  BY <1>11, FnInvokeMove DEF Born
<1>12. CASE crash
  <2>1. CASE i <= used
    BY <1>12, <2>1, CrashMove DEF Same
  <2>2. CASE i > used
    BY <1>12, <2>2, CrashMove DEF Base
  <2> QED
    BY <1>1, <2>1, <2>2
<1>13. ASSUME NEW j \in Invs, endRequest(j) \/ disconnect(j) PROVE frame[i].timedOut
  BY <1>13 DEF endRequest, disconnect
<1>14. ASSUME NEW f \in Fns, DeleteFunction(f) PROVE frame[i].timedOut
  BY <1>14 DEF DeleteFunction
<1>15. ASSUME NEW j \in Invs, timeout(j) PROVE frame[i].timedOut \/ timeout(i)
  BY <1>15, TimeoutMove DEF Move, Others
<1>16. CASE UNCHANGED vars
  BY <1>16 DEF vars
<1>17. ASSUME NEW j \in Invs,
              \/ startTrace(j) \/ insertRow(j) \/ load(j) \/ interrupt(j) \/ finish(j)
              \/ hostCall(j) \/ metrics_publish(j)
       PROVE  frame[i].timedOut
  BY <1>3, <1>4, <1>5, <1>17
  DEF startTrace, insertRow, load, interrupt, finish, hostCall, metrics_publish
<1> QED
  BY <1>6, <1>8, <1>9, <1>10, <1>11, <1>12, <1>13, <1>14, <1>15, <1>16, <1>17
  DEF Next, Begin, Step, Surroundings

LEMMA EndedGrows ==
    ASSUME [Next]_vars
    PROVE  ended \subseteq ended'
  BY DEF Next, Begin, Step, Surroundings, Invoke, fn_invoke, startTrace, insertRow, load,
         interrupt, completeTrace, updateRow, hostCall, metrics_publish, finish, timeout,
         endRequest, disconnect, statementFails, DeleteFunction, crash, vars

\* A JavaScript function that timed out stays on its way out.
LEMMA LateStays ==
    ASSUME Base, FrameStep, NEW i \in Invs, frame[i].at \in Late \cup {"over"}
    PROVE  frame'[i].at \in Late \cup {"over"}
<1>1. i <= used /\ used \in Nat /\ Invs \subseteq Nat
  BY AtUsed, UsedType DEF Late
<1>2. ASSUME NEW j \in Invs, Advance(j) PROVE frame'[i].at \in Late \cup {"over"}
  BY <1>2, PlacesApart DEF Advance, Move, Others
<1>3. ASSUME NEW j \in Invs, Back(j) PROVE frame'[i].at \in Late \cup {"over"}
  BY <1>3, PlacesApart DEF Back, Resumes
<1>4. ASSUME NEW j \in Invs, Arrival(j) PROVE frame'[i].at \in Late \cup {"over"}
  BY <1>1, <1>4 DEF Arrival, New, Others
<1>5. ASSUME NEW p \in Invs, NEW j \in Invs, Descent(p, j)
      PROVE  frame'[i].at \in Late \cup {"over"}
  BY <1>1, <1>5 DEF Descent, New, Late
<1>6. CASE Death
  BY <1>1, <1>6 DEF Death
<1> QED
  BY <1>2, <1>3, <1>4, <1>5, <1>6 DEF FrameStep

LEMMA TimersStep ==
    ASSUME Base, [Next]_vars, Chain, Timers
    PROVE  Timers'
<1>1. FrameStep /\ Who /\ used \in Nat /\ Invs \subseteq Nat
  BY StepFrames, FramesWho, UsedType
<1> SUFFICES ASSUME NEW i \in Invs, frame'[i].timedOut
             PROVE  /\ frame'[i].parent # Nobody => frame'[frame'[i].parent].timedOut
                    /\ IF Wasm(i)' THEN Exec(i) \in ended'
                                   ELSE frame'[i].at \in Late \cup {"over"}
  BY DEF Timers, Exec
<1>2. i <= used
  <2>1. frame[i].timedOut => i <= used
    BY <1>1, UnusedFrame DEF Base
  <2>2. timeout(i) => i <= used
    BY AtUsed DEF timeout, Expires
  <2> QED
    BY <2>1, <2>2, TimedBy
<1>3. /\ frame'[i].parent = frame[i].parent /\ frame'[i].fn = frame[i].fn
      /\ frame[i].parent # Nobody => frame[i].parent \in Invs /\ frame[i].parent <= used
  BY <1>1, <1>2 DEF Who, Keeps, Chain
<1>4. frame[i].parent # Nobody => frame[frame[i].parent].timedOut
  BY TimedBy DEF Timers, timeout
<1>5. frame'[i].parent # Nobody => frame'[frame'[i].parent].timedOut
  BY <1>1, <1>3, <1>4 DEF Who
<1>6. Wasm(i)' <=> Wasm(i)
  BY <1>3 DEF Wasm
<1>7. CASE frame[i].timedOut
  BY <1>1, <1>5, <1>6, <1>7, EndedGrows, LateStays DEF Timers
<1>8. CASE timeout(i)
  <2>1. Wasm(i) => Exec(i) \in ended'
    BY <1>8 DEF timeout
  <2>2. ~Wasm(i) => frame'[i].at \in Late
    BY <1>8, TimeoutMove DEF Late
  <2> QED
    BY <1>5, <1>6, <2>1, <2>2
<1> QED
  BY <1>7, <1>8, TimedBy

LEMMA UpwardStep ==
    ASSUME Base, FrameStep, Chain, Upward
    PROVE  Upward'
<1>1. Who /\ used \in Nat /\ Invs \subseteq Nat /\ Nobody \notin Invs
  BY FramesWho, UsedType DEF Nobody
<1> DEFINE Up(i) == /\ frame'[i].parent = Nobody => frame'[i].above = {}
                    /\ frame'[i].parent # Nobody =>
                          frame'[i].parent < i /\ frame'[i].parent \in frame'[i].above
                    /\ \A a \in frame'[i].above :
                          frame'[a].parent = Nobody \/ frame'[a].parent \in frame'[i].above
<1>2. ASSUME NEW i \in Invs, i <= used PROVE Up(i)
  <2>1. /\ frame'[i].parent = frame[i].parent /\ frame'[i].above = frame[i].above
        /\ \A a \in frame[i].above : frame'[a].parent = frame[a].parent
    BY <1>1, <1>2, AboveUsed DEF Who, Keeps
  <2> QED
    BY <1>2, <2>1 DEF Upward
<1>3. ASSUME NEW i \in Invs, Arrival(i) PROVE Up(i)
  BY <1>1, <1>3 DEF Arrival
<1>4. ASSUME NEW p \in Invs, NEW i \in Invs, Descent(p, i) PROVE Up(i)
  <2>1. /\ i = used + 1 /\ p <= used /\ frame'[i].parent = p
        /\ frame'[i].above = frame[p].above \cup {p}
    BY <1>4 DEF Descent, New
  <2>2. \A a \in frame[p].above \cup {p} : frame'[a].parent = frame[a].parent
    BY <1>1, <2>1, AboveUsed DEF Who, Keeps
  <2>3. \A a \in frame[p].above \cup {p} :
           frame[a].parent = Nobody \/ frame[a].parent \in frame[p].above
    BY <2>1 DEF Upward
  <2>4. p # Nobody /\ p < i
    BY <1>1, <2>1
  <2> QED
    BY <2>1, <2>2, <2>3, <2>4
<1>5. used' = used \/ \E i \in Invs : /\ used' = used + 1 /\ i = used + 1
                                      /\ Arrival(i) \/ \E p \in Invs : Descent(p, i)
  BY DEF FrameStep, Advance, Back, Arrival, Descent, New, Death
<1>6. ASSUME NEW i \in Invs, i <= used' PROVE Up(i)
  <2>1. CASE i <= used
    BY <1>2, <2>1
  <2>2. CASE i > used
    BY <1>1, <1>3, <1>4, <1>5, <1>6, <2>2
  <2> QED
    BY <1>1, <2>1, <2>2
<1> QED
  BY <1>6 DEF Upward

LEMMA CalleesStep ==
    ASSUME Base, FrameStep, Callees
    PROVE  Callees'
<1>1. Who /\ used \in Nat /\ Invs \subseteq Nat /\ Nobody \notin Invs
  BY FramesWho, UsedType DEF Nobody
<1> SUFFICES ASSUME NEW p \in Invs, frame'[p].at = "calling"
             PROVE  \E c \in Invs : Active(c)' /\ frame'[c].parent = p
  BY DEF Callees
<1> DEFINE Goal == \E c \in Invs : Active(c)' /\ frame'[c].parent = p
\* A callee that went on before does so still.
<1>2. ASSUME frame[p].at = "calling",
             \A c \in Invs : Active(c) /\ frame[c].parent = p => Active(c)'
      PROVE  Goal
  <2>1. PICK c \in Invs : Active(c) /\ frame[c].parent = p
    BY <1>2 DEF Callees
  <2>2. frame'[c].parent = p
    BY <1>1, <2>1, ActiveUsed DEF Who, Keeps
  <2> QED
    BY <1>2, <2>1, <2>2
<1> HIDE DEF Goal
<1>3. CASE used' = used /\ frame' = frame
  <2>1. frame[p].at = "calling" /\ \A c \in Invs : Active(c) => Active(c)'
    BY <1>3 DEF Active
  <2> QED
    BY <1>2, <2>1 DEF Goal
<1>4. ASSUME NEW i \in Invs, Advance(i) PROVE Goal
  <2>1. frame[p].at = "calling"
    BY <1>4 DEF Advance, Move, Others
  <2>2. \A c \in Invs : Active(c) => Active(c)'
    BY <1>4, PlacesApart DEF Advance, Move, Others, Active
  <2> QED
    BY <1>2, <2>1, <2>2
<1>5. ASSUME NEW i \in Invs, Back(i) PROVE Goal
  <2>1. p # i /\ ~Resumes(i, p) /\ frame'[p] = frame[p]
    BY <1>5 DEF Back
  <2>2. frame[p].at = "calling" /\ frame[i].parent # p
    BY <2>1 DEF Resumes
  <2>3. \A c \in Invs : Active(c) /\ c # i => Active(c)'
    BY <1>5 DEF Back, Active
  <2> QED
    BY <1>2, <2>2, <2>3
<1>6. ASSUME NEW i \in Invs, Arrival(i) PROVE Goal
  <2>1. i > used /\ \A j \in Invs : j <= used => frame'[j] = frame[j]
    BY <1>1, <1>6 DEF Arrival, New, Others
  <2>2. p # i /\ frame[p].at = "calling"
    BY <1>6 DEF Arrival, New, Others
  <2>3. \A c \in Invs : Active(c) => Active(c)'
    BY <2>1, ActiveUsed DEF Active
  <2> QED
    BY <1>2, <2>2, <2>3
<1>7. ASSUME NEW q \in Invs, NEW i \in Invs, Descent(q, i) PROVE Goal
  <2>1. /\ i > used /\ frame'[i].parent = q /\ Active(i)' /\ Active(q)'
        /\ \A j \in Invs \ {q, i} : frame'[j] = frame[j]
    BY <1>1, <1>7 DEF Descent, New, Active
  <2>2. CASE p = q
    BY <2>1, <2>2 DEF Goal
  <2>3. CASE p # q
    <3>1. p # i /\ frame[p].at = "calling"
      BY <1>7, <2>1, <2>3 DEF Descent, New
    <3>2. \A c \in Invs : Active(c) => Active(c)'
      BY <2>1 DEF Active
    <3> QED
      BY <1>2, <3>1, <3>2
  <2> QED
    BY <2>2, <2>3
<1>8. CASE Death
  <2>1. p <= used
    <3>1. p > used => frame'[p] = Unused
      BY <1>8 DEF Death, Base
    <3> QED
      BY <1>1, <3>1, UnusedFrame
  <2> QED
    BY <1>8, <2>1 DEF Death
<1> QED
  BY <1>3, <1>4, <1>5, <1>6, <1>7, <1>8 DEF FrameStep, Goal

\* One that went on before: those above it whose time is not up still wait.
LEMMA PatienceKept ==
    ASSUME Base, FrameStep, Chain, Kids, Timers, Patience, NEW j \in Invs, j <= used,
           Active(j)', NEW a \in frame[j].above, ~frame'[a].timedOut
    PROVE  frame'[a].at = "calling"
<1>1. used \in Nat /\ Invs \subseteq Nat /\ Nobody \notin Invs
  BY UsedType DEF Nobody
<1>2. Active(j) /\ a \in Invs /\ a <= used
  BY ActiveBack, AboveUsed
<1>3. ~frame[a].timedOut
  BY <1>2, FramesWho DEF Who
<1>4. frame[a].at = "calling"
  BY <1>2, <1>3 DEF Patience
<1>5. CASE used' = used /\ frame' = frame
  BY <1>4, <1>5
<1>6. ASSUME NEW i \in Invs, Advance(i) PROVE frame'[a].at = "calling"
  BY <1>2, <1>4, <1>6 DEF Advance, Move, Others
<1>7. ASSUME NEW i \in Invs, Back(i) PROVE frame'[a].at = "calling"
  <2>1. frame[i].at = "updateRow" /\ frame'[i].at = "over" /\ Active(i)
    BY <1>7 DEF Back, Active
  <2>2. i # j /\ i # a
    BY <1>4, <2>1 DEF Active
  <2>3. CASE Resumes(i, a)
    <3>1. frame[i].parent = a /\ a # Nobody
      BY <1>1, <1>2, <2>3 DEF Resumes
    <3>2. CASE a = frame[j].parent
      BY <1>2, <2>1, <2>2, <3>1, <3>2 DEF Kids
    <3>3. CASE a # frame[j].parent
      <4>1. PICK d \in frame[j].above : frame[d].parent = a
        BY <3>3 DEF Chain
      <4>2. d \in Invs
        BY AboveUsed
      <4>3. ~frame[d].timedOut
        BY <1>3, <3>1, <4>1, <4>2 DEF Timers
      <4>4. frame[d].at = "calling" /\ Active(d)
        BY <1>2, <4>1, <4>3 DEF Patience, Active
      <4>5. d = i
        BY <2>1, <3>1, <4>1, <4>2, <4>4 DEF Kids
      <4> QED
        BY <2>1, <4>4, <4>5
    <3> QED
      BY <3>2, <3>3
  <2>4. CASE ~Resumes(i, a)
    BY <1>2, <1>4, <1>7, <2>2, <2>4 DEF Back
  <2> QED
    BY <2>3, <2>4
<1>8. ASSUME NEW i \in Invs, Arrival(i) PROVE frame'[a].at = "calling"
  BY <1>1, <1>2, <1>4, <1>8 DEF Arrival, New, Others
<1>9. ASSUME NEW q \in Invs, NEW i \in Invs, Descent(q, i) PROVE frame'[a].at = "calling"
  BY <1>1, <1>2, <1>4, <1>9 DEF Descent, New
<1>10. CASE Death
  BY <1>10 DEF Death, Active
<1> QED
  BY <1>5, <1>6, <1>7, <1>8, <1>9, <1>10 DEF FrameStep

LEMMA PatienceStep ==
    ASSUME Base, FrameStep, Chain, Kids, Timers, Patience
    PROVE  Patience'
<1>1. Who /\ used \in Nat /\ Invs \subseteq Nat
  BY FramesWho, UsedType
<1> SUFFICES ASSUME NEW j \in Invs, Active(j)', NEW a \in frame'[j].above, ~frame'[a].timedOut
             PROVE  frame'[a].at = "calling"
  BY DEF Patience
<1>2. CASE j <= used
  <2>1. frame'[j].above = frame[j].above
    BY <1>1, <1>2 DEF Who, Keeps
  <2> QED
    BY <1>2, <2>1, PatienceKept
<1>3. CASE j > used
  <2>1. PICK q \in Invs : Descent(q, j)
    BY <1>3, Newborn DEF Arrival
  <2>2. /\ frame'[j].above = frame[q].above \cup {q} /\ frame[q].at = "running"
        /\ frame'[q].at = "calling" /\ q <= used
        /\ \A i \in Invs \ {q, j} : frame'[i] = frame[i]
    BY <2>1 DEF Descent
  <2>3. CASE a = q
    BY <2>2, <2>3
  <2>4. CASE a # q
    <3>1. a \in frame[q].above /\ a \in Invs /\ a <= used /\ a # j
      BY <1>1, <1>3, <2>2, <2>4, AboveUsed
    <3>2. frame'[a] = frame[a]
      BY <2>2, <2>4, <3>1
    <3>3. Active(q)
      BY <2>2 DEF Active
    <3> QED
      BY <3>1, <3>2, <3>3 DEF Patience
  <2> QED
    BY <2>3, <2>4
<1> QED
  BY <1>1, <1>2, <1>3

\* Some index in a set of them is the least: the inclusion of initial segments
\* is well founded.
LEMMA LeastIndex ==
    ASSUME NEW n \in Nat, NEW H \in SUBSET (1..n), H # {}
    PROVE  \E i \in H : \A j \in H : i <= j
<1> DEFINE T == {1..i : i \in H}
<1>1. T \subseteq FiniteSubsetsOf(Nat) /\ T # {}
  <2>1. \A i \in H : 1..i \subseteq Nat /\ IsFiniteSet(1..i)
    BY FS_Interval
  <2> QED
    BY <2>1 DEF FiniteSubsetsOf
<1> HIDE DEF T
<1>2. PICK a \in T : \A b \in T : ~(<<b, a>> \in StrictSubsetOrdering(Nat))
  BY <1>1, FS_StrictSubsetOrderingWellFounded, WFMin
<1>3. PICK i \in H : a = 1..i
  BY <1>2 DEF T
<1>4. ASSUME NEW j \in H, j < i PROVE FALSE
  <2>1. 1..j \subseteq 1..i /\ i \in 1..i /\ i \notin 1..j
    BY <1>4
  <2>2. <<1..j, 1..i>> \in StrictSubsetOrdering(Nat)
    BY <2>1 DEF StrictSubsetOrdering
  <2> QED
    BY <1>2, <1>3, <2>2 DEF T
<1> QED
  BY <1>4

LEMMA GreatestIndex ==
    ASSUME NEW n \in Nat, NEW H \in SUBSET (1..n), H # {}
    PROVE  \E i \in H : \A j \in H : j <= i
<1> DEFINE M == {n + 1 - i : i \in H}
<1>1. M \in SUBSET (1..n) /\ M # {}
  <2>1. \A i \in H : i \in 1..n /\ n + 1 - i \in 1..n
    OBVIOUS
  <2> QED
    BY <2>1
<1>2. PICK m \in M : \A k \in M : m <= k
  <2> HIDE DEF M
  <2> QED
    BY <1>1, LeastIndex
<1>3. PICK i \in H : m = n + 1 - i
  BY <1>2
<1>4. ASSUME NEW j \in H PROVE j <= i
  <2>1. m <= n + 1 - j
    BY <1>2
  <2> HIDE DEF M
  <2>2. i \in 1..n /\ j \in 1..n
    OBVIOUS
  <2> QED
    BY <1>3, <2>1, <2>2
<1> QED
  BY <1>4

MoveInv == Base /\ Chain /\ Kids /\ Upward /\ Timers /\ Callees /\ Patience

\* The last invocation that goes on waits for nobody.  If it runs, either wazero
\* stops it or the topmost one above it whose time is not up runs out of time.
LEMMA LastMoves ==
    ASSUME MoveInv
    PROVE  NobodyStuck
<1> SUFFICES ASSUME Running # {} PROVE \E i \in Running : Movable(i)
  BY DEF NobodyStuck
<1>1. MaxInvs \in Nat /\ Invs = 1..MaxInvs /\ Invs \subseteq Nat \ {0} /\ Nobody \notin Invs
  BY UsedType DEF MoveInv, Invs, Nobody
<1>2. \A i \in Running : i \in Invs /\ Active(i) /\ i <= used
  BY ActiveUsed DEF MoveInv, Running, Active
<1>3. PICK i \in Running : \A j \in Running : j <= i
  BY <1>1, <1>2, GreatestIndex DEF Running
<1>4. i \in Invs /\ Active(i) /\ i <= used
  BY <1>2
<1>5. frame[i].at # "calling"
  <2> SUFFICES ASSUME frame[i].at = "calling" PROVE FALSE
    OBVIOUS
  <2>1. PICK c \in Invs : Active(c) /\ frame[c].parent = i
    BY <1>4 DEF MoveInv, Callees
  <2>2. c \in Running /\ c <= used
    BY <2>1, ActiveUsed DEF MoveInv, Running, Active
  <2>3. i < c
    BY <1>1, <1>4, <2>1, <2>2 DEF MoveInv, Upward
  <2> QED
    BY <1>1, <1>3, <1>4, <2>2, <2>3
<1>6. CASE frame[i].at # "running"
  <2>1. frame[i].at \in {"startTrace", "insertRow", "load", "completeTrace", "updateRow"}
    BY <1>4, <1>5, <1>6 DEF Active, MoveInv, Base, TypeOK, Frame
  <2> QED
    BY <2>1 DEF Movable
<1>7. CASE frame[i].at = "running" /\ frame[i].timedOut
  <2>1. Wasm(i) /\ Exec(i) \in ended
    BY <1>4, <1>7 DEF MoveInv, Timers, Late
  <2> QED
    BY <1>7, <2>1 DEF Movable
<1>8. CASE frame[i].at = "running" /\ ~frame[i].timedOut
  <2> DEFINE H == {m \in frame[i].above \cup {i} : ~frame[m].timedOut}
  <2>1. \A a \in frame[i].above : a \in Invs /\ a <= used
    BY <1>4, AboveUsed DEF MoveInv
  <2>2. H \in SUBSET (1..MaxInvs) /\ H # {}
    BY <1>1, <1>4, <1>8, <2>1
  <2>3. PICK m \in H : \A k \in H : m <= k
    <3> HIDE DEF H
    <3> QED
      BY <1>1, <2>2, LeastIndex
  <2>4. /\ m \in Invs /\ m <= used /\ ~frame[m].timedOut
        /\ m = i \/ m \in frame[i].above
    BY <1>4, <2>1
  <2>5. frame[m].at \in {"running", "calling"}
    BY <1>4, <1>8, <2>4 DEF MoveInv, Patience
  <2>6. ASSUME frame[m].parent # Nobody PROVE frame[frame[m].parent].timedOut
    <3> DEFINE p == frame[m].parent
    <3>1. p \in Invs /\ p < m /\ p \in frame[i].above
      BY <1>4, <2>4, <2>6 DEF MoveInv, Upward, Chain
    <3>2. p \notin H
      BY <1>1, <2>3, <2>4, <3>1
    <3> QED
      BY <3>1, <3>2
  <2>7. m \in Running
    BY <2>4, <2>5 DEF Running
  <2> QED
    BY <2>4, <2>5, <2>6, <2>7 DEF Movable, Expires
<1> QED
  BY <1>6, <1>7, <1>8

\* For any number of invocations, at any depth and in either runtime, there is
\* always one that the scheduler, a timer or wazero can move: the part of
\* EveryInvocationEnds that is about states (store.go, Invoke and buildJSHostObject).
THEOREM NoDeadlock == Spec => []NobodyStuck
<1>1. Init => MoveInv
  <2> SUFFICES ASSUME Init PROVE MoveInv
    OBVIOUS
  <2>1. Base /\ used = 0 /\ Invs \subseteq Nat \ {0}
    BY BaseInit, UsedType DEF Init
  <2>2. \A i \in Invs : /\ ~(i <= used) /\ ~Active(i)
                        /\ frame[i].at # "calling" /\ ~frame[i].timedOut
    BY <2>1, UnusedFrame DEF Init, Active
  <2> QED
    BY <2>1, <2>2 DEF MoveInv, Chain, Kids, Upward, Timers, Callees, Patience
<1>2. MoveInv /\ [Next]_vars => MoveInv'
  BY BaseStep, StepFrames, ChainStep, KidsStep, UpwardStep, TimersStep, CalleesStep, PatienceStep
  DEF MoveInv
<1>3. MoveInv => NobodyStuck
  BY LastMoves
<1> QED
  BY <1>1, <1>2, <1>3, PTL DEF Spec
=============================================================================
