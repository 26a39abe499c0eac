-------------------------- MODULE TimeWindowProofs --------------------------
(***************************************************************************)
(* Theorems about TimeWindow, for any messages, timestamps, windows,       *)
(* workers and failures.                                                   *)
(***************************************************************************)
EXTENDS TimeWindow, FiniteSetTheorems, TLAPS

\* The sets are finite, and a worker that is busy has a message.
Structure ==
  /\ TypeOK
  /\ IsFiniteSet(members)
  /\ IsFiniteSet(handled)
  /\ \A w \in Workers : pc[w] # "idle" => job[w] \in Messages

\* All measurements lie in one window.
Close == \A m, n \in Messages : ts[m] < ts[n] + Span

\* The worker has added its measurement.
Added(w) == pc[w] \in {"prune", "count", "delete"}

\* As long as no alert is raised, the set has what was handled, and that is too little.
KeptWhileSilent ==
  Close /\ silent =>
    /\ handled \subseteq members
    /\ \A w \in Workers : Added(w) => job[w] \in members
    /\ Cardinality(handled) < Required

Begun(m) == m \notin queue \/ attempt[m] > 0

\* In order, one worker is busy at a time, with the latest message.
OneAtATime ==
  orderly =>
    /\ \A v, w \in Workers : pc[v] # "idle" /\ pc[w] # "idle" => v = w
    /\ \A w \in Workers : pc[w] # "idle" =>
         /\ job[w] \notin queue
         /\ \A n \in Messages : Begun(n) => ts[n] <= ts[job[w]]
    /\ \A m \in members \union handled : Begun(m)
    /\ \A a \in alerts : \A m \in a.of : Begun(m)

\* What the worker has in the set is of the window that ends with its measurement.
SetOfWindow ==
  orderly =>
    \A w \in Workers :
      /\ Added(w) => job[w] \in members
      /\ pc[w] = "add" => job[w] \notin members /\ \A a \in alerts : job[w] \notin a.of
      /\ pc[w] \in {"count", "delete"} => members \subseteq WindowOf(job[w])
      /\ pc[w] = "delete" => counted[w] = members

\* Alerts are for measurements of one window, which leave the set.
Separate ==
  orderly =>
    /\ \A a \in alerts : a.of \subseteq WindowOf(a.by) /\ a.of \intersect members = {}
    /\ \A a, b \in alerts : a # b => a.of \intersect b.of = {}

\* What was handled is in the set or in an alert, or too old.
Kept ==
  orderly =>
    \A n \in handled :
      \/ n \in members
      \/ \E a \in alerts : n \in a.of
      \/ \E m \in Messages : Begun(m) /\ ts[n] <= ts[m] - Span
-----------------------------------------------------------------------------
(* Steps *)

\* As long as the order holds, it held, and the alerts are those given.
LEMMA RecordEffect ==
  ASSUME NEW ok \in BOOLEAN, NEW A, orderly \in BOOLEAN, Record(ok, A)
  PROVE  /\ orderly' \in BOOLEAN
         /\ orderly' => orderly /\ ok /\ alerts' = A
         /\ ~orderly' => alerts' = {}
  BY DEF Record

\* What the call of a worker makes of the set.
LEMMA AfterEffect ==
  ASSUME Structure, NEW w \in Workers, pc[w] \in Calls
  PROVE  /\ After(w) \subseteq Messages /\ IsFiniteSet(After(w))
         /\ pc[w] = "add" => After(w) = members \union {job[w]}
         /\ pc[w] = "prune" => After(w) = members \ Pruned(job[w], members)
         /\ pc[w] = "count" => After(w) = members
         /\ pc[w] = "delete" => After(w) = {}
<1>1. /\ pc[w] = "add" => After(w) = members \union {job[w]}
      /\ pc[w] = "prune" => After(w) = members \ Pruned(job[w], members)
      /\ pc[w] = "count" => After(w) = members
      /\ pc[w] = "delete" => After(w) = {}
  BY DEF After
<1>2. pc[w] \in {"add", "prune", "count", "delete"}
  BY DEF Calls
<1>3. members \subseteq Messages /\ IsFiniteSet(members) /\ job[w] \in Messages
  BY <1>2 DEF Structure, TypeOK
<1>4. IsFiniteSet(members \union {job[w]})
  BY <1>3, FS_AddElement
<1>5. IsFiniteSet(members \ Pruned(job[w], members))
  BY <1>3, FS_Difference
<1>6. IsFiniteSet({})
  BY FS_EmptySet
<1> QED
  BY <1>1, <1>2, <1>3, <1>4, <1>5, <1>6

\* A worker that is done is idle, and the others are as they were.
LEMMA ReleaseEffect ==
  ASSUME Structure, NEW w \in Workers, Release(w)
  PROVE  /\ pc' \in [Workers -> Calls \union {"idle"}] /\ pc'[w] = "idle"
         /\ job' \in [Workers -> Messages \union {NoMessage}]
         /\ counted' \in [Workers -> SUBSET Messages]
         /\ \A v \in Workers \ {w} :
              pc'[v] = pc[v] /\ job'[v] = job[v] /\ counted'[v] = counted[v]
  BY DEF Release, Goto, Structure, TypeOK

\* What becomes of a message whose handling failed.
LEMMA FailEffect ==
  ASSUME Structure, NEW w \in Workers, Fail(w)
  PROVE  /\ pc[w] \in Calls /\ job[w] \in Messages
         /\ Release(w) /\ UNCHANGED <<ts, handled>>
         /\ queue' \subseteq Messages /\ attempt' \in [Messages -> 0..MaxAttempts]
         /\ \A n \in Messages \ {job[w]} :
              (n \in queue' <=> n \in queue) /\ attempt'[n] = attempt[n]
         /\ \/ UNCHANGED <<queue, attempt>>
            \/ job[w] \in queue' /\ attempt'[job[w]] > 0
         /\ \/ UNCHANGED <<members, silent, orderly, alerts>>
            \/ /\ members' = After(w)
               /\ silent' \in BOOLEAN
               /\ silent' => silent /\ pc[w] # "delete"
               /\ Record(pc[w] # "delete", alerts)
<1>1. pc[w] \in Calls /\ job[w] \in Messages
  BY DEF Fail, Structure, Calls
<1>2. /\ queue' \subseteq Messages /\ attempt' \in [Messages -> 0..MaxAttempts]
      /\ \A n \in Messages \ {job[w]} :
           (n \in queue' <=> n \in queue) /\ attempt'[n] = attempt[n]
      /\ \/ UNCHANGED <<queue, attempt>>
         \/ job[w] \in queue' /\ attempt'[job[w]] > 0
  <2>1. CASE Exhausted(job[w])
    BY <2>1 DEF Fail, Structure, TypeOK
  <2>2. CASE ~Exhausted(job[w])
    <3>1. /\ queue' = queue \union {job[w]}
          /\ attempt' = [attempt EXCEPT ![job[w]] = @ + 1]
      BY <2>2 DEF Fail
    <3>2. attempt[job[w]] \in 0..MaxAttempts /\ attempt[job[w]] + 1 <= MaxAttempts
      BY <1>1, <2>2, TimeWindowAssumption DEF Exhausted, Structure, TypeOK
    <3>3. attempt[job[w]] + 1 \in 0..MaxAttempts /\ attempt[job[w]] + 1 > 0
      BY <3>2, TimeWindowAssumption
    <3> QED
      BY <1>1, <3>1, <3>3 DEF Structure, TypeOK
  <2> QED
    BY <2>1, <2>2
<1>3. \/ UNCHANGED <<members, silent, orderly, alerts>>
      \/ /\ members' = After(w)
         /\ silent' \in BOOLEAN
         /\ silent' => silent /\ pc[w] # "delete"
         /\ Record(pc[w] # "delete", alerts)
  BY DEF Fail
<1> QED
  BY <1>1, <1>2, <1>3 DEF Fail

-----------------------------------------------------------------------------
(* Types *)

\* The initial states have the structure.
LEMMA StructureInit == Init => Structure
  BY FS_EmptySet, TimeWindowAssumption DEF Init, Structure, TypeOK

\* Every step keeps it.
LEMMA StructureStep == Structure /\ [Next]_vars => Structure'
<1> SUFFICES ASSUME Structure, [Next]_vars PROVE Structure'
  OBVIOUS
<1> USE DEF Structure, TypeOK, Goto
<1>1. ASSUME NEW w \in Workers, Take(w) PROVE Structure'
  <2>1. PICK m \in queue :
          /\ job' = [job EXCEPT ![w] = m] /\ queue' = queue \ {m}
          /\ Record(Turn(m), alerts)
    BY <1>1 DEF Take
  <2>2. Turn(m) \in BOOLEAN
    BY DEF Turn
  <2>3. orderly' \in BOOLEAN /\ alerts' \subseteq [by : Messages, of : SUBSET Messages]
    BY <2>1, <2>2, RecordEffect
  <2>4. pc' = [pc EXCEPT ![w] = "add"]
        /\ UNCHANGED <<ts, attempt, members, counted, handled, silent>>
    BY <1>1 DEF Take
  <2> QED
    BY <2>1, <2>3, <2>4 DEF Calls
<1>2. ASSUME NEW w \in Workers, AddToTimeWindow(w) PROVE Structure'
  <2>1. members' \subseteq Messages /\ IsFiniteSet(members')
    BY <1>2, AfterEffect DEF AddToTimeWindow, Calls
  <2> QED
    BY <1>2, <2>1 DEF AddToTimeWindow, Calls
<1>3. ASSUME NEW w \in Workers, PruneTimeWindow(w) PROVE Structure'
  <2>1. members' \subseteq Messages /\ IsFiniteSet(members')
    BY <1>3, AfterEffect DEF PruneTimeWindow, Calls
  <2> QED
    BY <1>3, <2>1 DEF PruneTimeWindow, Calls
<1>4. ASSUME NEW w \in Workers, CountTimeWindow(w) PROVE Structure'
  <2>1. CASE Enough(members)
    BY <1>4, <2>1 DEF CountTimeWindow, Calls
  <2>2. CASE ~Enough(members)
    <3>1. Release(w) /\ handled' = handled \union {job[w]} /\ job[w] \in Messages
      BY <1>4, <2>2 DEF CountTimeWindow
    <3>2. handled' \subseteq Messages /\ IsFiniteSet(handled')
      BY <3>1, FS_AddElement
    <3> QED
      BY <1>4, <3>1, <3>2, ReleaseEffect DEF CountTimeWindow
  <2> QED
    BY <2>1, <2>2
<1>5. ASSUME NEW w \in Workers, DeleteTimeWindow(w) PROVE Structure'
  <2>1. members' \subseteq Messages /\ IsFiniteSet(members')
    BY <1>5, AfterEffect DEF DeleteTimeWindow, Calls
  <2>2. [by |-> job[w], of |-> counted[w]] \in [by : Messages, of : SUBSET Messages]
    BY <1>5 DEF DeleteTimeWindow
  <2>3. orderly' \in BOOLEAN /\ alerts' \subseteq [by : Messages, of : SUBSET Messages]
    <3>1. Record(TRUE, alerts \union {[by |-> job[w], of |-> counted[w]]})
      BY <1>5 DEF DeleteTimeWindow
    <3> QED
      BY <2>2, <3>1 DEF Record
  <2>4. silent' \in BOOLEAN /\ Release(w)
    BY <1>5 DEF DeleteTimeWindow
  <2>5. handled' = handled \union {job[w]} /\ job[w] \in Messages
    BY <1>5 DEF DeleteTimeWindow
  <2>6. handled' \subseteq Messages /\ IsFiniteSet(handled')
    BY <2>5, FS_AddElement
  <2> QED
    BY <1>5, <2>1, <2>3, <2>4, <2>6, ReleaseEffect DEF DeleteTimeWindow
<1>6. ASSUME NEW w \in Workers, Fail(w) PROVE Structure'
  <2>1. /\ pc[w] \in Calls /\ job[w] \in Messages
        /\ Release(w) /\ UNCHANGED <<ts, handled>>
        /\ queue' \subseteq Messages /\ attempt' \in [Messages -> 0..MaxAttempts]
        /\ \/ UNCHANGED <<members, silent, orderly, alerts>>
           \/ /\ members' = After(w)
              /\ silent' \in BOOLEAN
              /\ Record(pc[w] # "delete", alerts)
    BY <1>6, FailEffect
  <2>2. members' \subseteq Messages /\ IsFiniteSet(members')
    BY <2>1, AfterEffect
  <2>3. orderly' \in BOOLEAN /\ alerts' \subseteq [by : Messages, of : SUBSET Messages]
    <3>1. CASE UNCHANGED <<orderly, alerts>>
      BY <3>1
    <3>2. CASE Record(pc[w] # "delete", alerts)
      BY <3>2 DEF Record
    <3> QED
      BY <2>1, <3>1, <3>2
  <2>4. silent' \in BOOLEAN
    BY <2>1
  <2> QED
    BY <2>1, <2>2, <2>3, <2>4, ReleaseEffect
<1>7. CASE Expire
  <2>1. orderly' \in BOOLEAN /\ alerts' \subseteq [by : Messages, of : SUBSET Messages]
    BY <1>7 DEF Expire, Record
  <2> QED
    BY <1>7, <2>1, FS_EmptySet DEF Expire
<1>8. CASE UNCHANGED vars
  BY <1>8 DEF vars
<1> QED
  BY <1>1, <1>2, <1>3, <1>4, <1>5, <1>6, <1>7, <1>8 DEF Next

-----------------------------------------------------------------------------
(* Whatever the order *)

\* Every step keeps what was handled in the set, until an alert is raised.
LEMMA KeptWhileSilentStep ==
  ASSUME Structure, Structure', KeptWhileSilent, [Next]_vars
  PROVE  KeptWhileSilent'
<1> SUFFICES ASSUME Close', silent'
             PROVE  /\ handled' \subseteq members'
                    /\ \A v \in Workers : Added(v)' => job'[v] \in members'
                    /\ Cardinality(handled') < Required
  BY DEF KeptWhileSilent
<1>1. ts' = ts
  BY DEF Next, Take, AddToTimeWindow, PruneTimeWindow, CountTimeWindow, DeleteTimeWindow,
     Fail, Expire, vars
<1>2. Close
  BY <1>1 DEF Close
<1>3. ASSUME silent
      PROVE  /\ handled \subseteq members
             /\ \A v \in Workers : Added(v) => job[v] \in members
             /\ Cardinality(handled) < Required
  BY <1>2, <1>3 DEF KeptWhileSilent
<1>4. ASSUME NEW m \in Messages PROVE Pruned(m, members) = {}
  <2> SUFFICES ASSUME NEW n \in members, ts[n] <= ts[m] - Span PROVE FALSE
    BY DEF Pruned
  <2>1. n \in Messages /\ ts[n] \in Nat /\ ts[m] \in Nat /\ Span \in Nat
    BY TimeWindowAssumption DEF Structure, TypeOK
  <2> QED
    BY <1>2, <2>1 DEF Close
<1>5. ASSUME NEW w \in Workers, pc[w] \in {"add", "prune", "count"}
      PROVE  members \subseteq After(w) /\ (pc[w] = "add" => job[w] \in After(w))
  <2>1. pc[w] \in Calls /\ job[w] \in Messages
    BY <1>5 DEF Calls, Structure
  <2> QED
    BY <1>4, <1>5, <2>1, AfterEffect
<1>6. ASSUME NEW w \in Workers, Take(w)
      PROVE  silent /\ UNCHANGED <<members, handled>>
             /\ \A v \in Workers : Added(v)' => Added(v) /\ job'[v] = job[v]
  BY <1>6 DEF Take, Goto, Added, Structure, TypeOK
<1>7. ASSUME NEW w \in Workers, AddToTimeWindow(w) \/ PruneTimeWindow(w)
      PROVE  /\ silent /\ members \subseteq members' /\ UNCHANGED <<handled, job>>
             /\ \A v \in Workers : Added(v)' => Added(v) \/ job[v] \in members'
  <2>1. members' = After(w) /\ UNCHANGED <<silent, handled, job>>
    BY <1>7 DEF AddToTimeWindow, PruneTimeWindow
  <2>2. CASE AddToTimeWindow(w)
    BY <1>5, <2>1, <2>2 DEF AddToTimeWindow, Goto, Added, Structure, TypeOK
  <2>3. CASE PruneTimeWindow(w)
    BY <1>5, <2>1, <2>3 DEF PruneTimeWindow, Goto, Added, Structure, TypeOK
  <2> QED
    BY <1>7, <2>2, <2>3
<1>8. ASSUME NEW w \in Workers, CountTimeWindow(w)
      PROVE  /\ handled' \subseteq members'
             /\ \A v \in Workers : Added(v)' => job'[v] \in members'
             /\ Cardinality(handled') < Required
  <2>1. silent /\ members' = members /\ Added(w)
    BY <1>8 DEF CountTimeWindow, Added
  <2>2. CASE Enough(members)
    BY <1>3, <1>8, <2>1, <2>2 DEF CountTimeWindow, Goto, Added, Structure, TypeOK
  <2>3. CASE ~Enough(members)
    <3>1. Release(w) /\ handled' = handled \union {job[w]}
      BY <1>8, <2>3 DEF CountTimeWindow
    <3>2. handled' \in SUBSET members
      BY <1>3, <2>1, <3>1
    <3>3. /\ Cardinality(handled') <= Cardinality(members)
          /\ Cardinality(handled') \in Nat /\ Cardinality(members) \in Nat
      BY <3>2, FS_Subset, FS_CardinalityType DEF Structure
    <3>4. Cardinality(members) < Required
      BY <2>3, <3>3, TimeWindowAssumption DEF Enough
    <3>5. \A v \in Workers : Added(v)' => Added(v) /\ job'[v] = job[v]
      BY <3>1, ReleaseEffect DEF Added
    <3> QED
      BY <1>3, <2>1, <3>2, <3>3, <3>4, <3>5, TimeWindowAssumption
  <2> QED
    BY <2>2, <2>3
<1>9. ASSUME NEW w \in Workers, Fail(w)
      PROVE  /\ silent /\ members \subseteq members' /\ UNCHANGED handled
             /\ \A v \in Workers : Added(v)' => Added(v) /\ job'[v] = job[v]
  <2>1. /\ pc[w] \in Calls /\ Release(w) /\ UNCHANGED handled
        /\ \/ UNCHANGED <<members, silent>>
           \/ members' = After(w) /\ silent /\ pc[w] # "delete"
    BY <1>9, FailEffect
  <2>2. members \subseteq members'
    BY <1>5, <2>1 DEF Calls
  <2>3. silent
    BY <2>1
  <2> QED
    BY <2>1, <2>2, <2>3, ReleaseEffect DEF Added
<1>10. ASSUME NEW w \in Workers, DeleteTimeWindow(w) PROVE FALSE
  BY <1>10 DEF DeleteTimeWindow
<1>11. CASE Expire
  BY <1>11 DEF Expire
<1>12. CASE UNCHANGED vars
  BY <1>3, <1>12 DEF vars, Added
<1> QED
  BY <1>3, <1>6, <1>7, <1>8, <1>9, <1>10, <1>11, <1>12 DEF Next

\* Whatever the workers' calls interleave to, and whatever is late, measurements
\* that all lie in one window have raised an alert once enough of them were handled,
\* unless the set expired or the reply of a delete was lost.
THEOREM CloseMeasurementsRaise == Spec => []SomeAlert
<1>1. Init => KeptWhileSilent
  <2> SUFFICES ASSUME Init PROVE KeptWhileSilent
    OBVIOUS
  <2>1. handled = {} /\ members = {} /\ \A w \in Workers : pc[w] = "idle"
    BY DEF Init
  <2>2. Cardinality(handled) < Required
    BY <2>1, FS_EmptySet, TimeWindowAssumption
  <2> QED
    BY <2>1, <2>2 DEF KeptWhileSilent, Added
<1>2. Structure /\ KeptWhileSilent => SomeAlert
  <2> SUFFICES ASSUME Structure, KeptWhileSilent, Close, silent,
                      Cardinality(handled) >= Required
               PROVE  FALSE
    BY DEF SomeAlert, Close
  <2>1. handled \in SUBSET members /\ Cardinality(handled) < Required
    BY DEF KeptWhileSilent
  <2>2. Cardinality(handled) \in Nat
    BY <2>1, FS_Subset, FS_CardinalityType DEF Structure
  <2> QED
    BY <2>1, <2>2, TimeWindowAssumption
<1> QED
  BY <1>1, <1>2, StructureInit, StructureStep, KeptWhileSilentStep, PTL DEF Spec

-----------------------------------------------------------------------------
(* In order *)

\* What a step does to the set, to the alerts and to what was handled.
SetSteps(w) ==
  \/ pc[w] = "add" /\ members' = members \union {job[w]} /\ UNCHANGED <<alerts, handled>>
  \/ /\ pc[w] = "prune" /\ members' = members \ Pruned(job[w], members)
     /\ UNCHANGED <<alerts, handled>>
  \/ /\ pc[w] = "count" /\ ~Enough(members)
     /\ handled' = handled \union {job[w]} /\ UNCHANGED <<members, alerts>>
  \/ /\ pc[w] = "delete" /\ members' = {}
     /\ alerts' = alerts \union {[by |-> job[w], of |-> counted[w]]}
     /\ handled' = handled \union {job[w]}

\* The steps that keep the order.
LEMMA OrderlyEffect ==
  ASSUME Structure, [Next]_vars, orderly'
  PROVE  /\ orderly /\ ts' = ts
         /\ UNCHANGED <<members, alerts, handled>> \/ \E w \in Workers : SetSteps(w)
<1>1. ts' = ts
  BY DEF Next, Take, AddToTimeWindow, PruneTimeWindow, CountTimeWindow, DeleteTimeWindow,
     Fail, Expire, vars
<1>2. ASSUME NEW w \in Workers, Take(w)
      PROVE  orderly /\ UNCHANGED <<members, alerts, handled>>
  BY <1>2 DEF Take, Record
<1>3. ASSUME NEW w \in Workers, AddToTimeWindow(w) \/ PruneTimeWindow(w)
      PROVE  orderly /\ SetSteps(w)
  BY <1>3, AfterEffect DEF AddToTimeWindow, PruneTimeWindow, SetSteps, Calls
<1>4. ASSUME NEW w \in Workers, CountTimeWindow(w)
      PROVE  orderly /\ (UNCHANGED <<members, alerts, handled>> \/ SetSteps(w))
  BY <1>4 DEF CountTimeWindow, SetSteps
<1>5. ASSUME NEW w \in Workers, DeleteTimeWindow(w)
      PROVE  orderly /\ SetSteps(w)
  <2>1. orderly /\ alerts' = alerts \union {[by |-> job[w], of |-> counted[w]]}
    BY <1>5 DEF DeleteTimeWindow, Record
  <2> QED
    BY <1>5, <2>1, AfterEffect DEF DeleteTimeWindow, SetSteps, Calls
<1>6. ASSUME NEW w \in Workers, Fail(w)
      PROVE  orderly /\ (UNCHANGED <<members, alerts, handled>> \/ SetSteps(w))
  <2>1. /\ pc[w] \in Calls /\ UNCHANGED handled
        /\ \/ UNCHANGED <<members, orderly, alerts>>
           \/ members' = After(w) /\ Record(pc[w] # "delete", alerts)
    BY <1>6, FailEffect
  <2>2. CASE UNCHANGED <<members, orderly, alerts>>
    BY <2>1, <2>2
  <2>3. CASE members' = After(w) /\ Record(pc[w] # "delete", alerts)
    <3>1. orderly /\ pc[w] # "delete" /\ alerts' = alerts
      BY <2>3 DEF Record
    <3> QED
      BY <2>1, <2>3, <3>1, AfterEffect DEF SetSteps, Calls
  <2> QED
    BY <2>1, <2>2, <2>3
<1>7. CASE Expire
  BY <1>7 DEF Expire, Record
<1>8. CASE UNCHANGED vars
  BY <1>8 DEF vars
<1> QED
  BY <1>1, <1>2, <1>3, <1>4, <1>5, <1>6, <1>7, <1>8 DEF Next

\* In order, a message that is begun stays so; a new one is taken when all workers are
\* idle, and otherwise the worker that is busy goes on.
LEMMA OrderlyTurn ==
  ASSUME Structure, Structure', OneAtATime, [Next]_vars, orderly'
  PROVE  \/ /\ \A v \in Workers : /\ pc'[v] \in {pc[v], "idle"}
                                  /\ pc'[v] # "idle" => job'[v] = job[v]
            /\ \A n \in Messages : Begun(n)' <=> Begun(n)
            /\ \A w \in Workers : pc'[w] # "idle" =>
                 (job'[w] \in queue' <=> job[w] \in queue)
         \/ \E w \in Workers :
              /\ pc[w] # "idle" /\ pc'[w] # "idle"
              /\ \A v \in Workers \ {w} : pc'[v] = pc[v]
              /\ UNCHANGED <<job, queue, attempt>>
         \/ \E w \in Workers, m \in queue :
              /\ Take(w) /\ Turn(m) /\ job'[w] = m /\ pc'[w] = "add"
              /\ \A v \in Workers \ {w} : pc'[v] = "idle"
              /\ queue' = queue \ {m} /\ UNCHANGED attempt
<1> USE DEF Structure, TypeOK
<1>1. ASSUME NEW w \in Workers, Take(w)
      PROVE  \E m \in queue :
               /\ Turn(m) /\ job'[w] = m /\ pc'[w] = "add"
               /\ \A v \in Workers \ {w} : pc'[v] = "idle"
               /\ queue' = queue \ {m} /\ UNCHANGED attempt
  <2>1. PICK m \in queue :
          /\ job' = [job EXCEPT ![w] = m] /\ queue' = queue \ {m}
          /\ Record(Turn(m), alerts)
    BY <1>1 DEF Take
  <2>2. Turn(m)
    BY <2>1 DEF Record
  <2>3. \A v \in Workers : pc[v] = "idle"
    BY <2>2 DEF Turn
  <2> QED
    BY <1>1, <2>1, <2>2, <2>3 DEF Take, Goto
<1>2. ASSUME NEW w \in Workers,
             \/ AddToTimeWindow(w) \/ PruneTimeWindow(w)
             \/ CountTimeWindow(w) /\ Enough(members)
      PROVE  /\ pc[w] # "idle" /\ pc'[w] # "idle"
             /\ \A v \in Workers \ {w} : pc'[v] = pc[v]
             /\ UNCHANGED <<job, queue, attempt>>
  BY <1>2 DEF AddToTimeWindow, PruneTimeWindow, CountTimeWindow, Goto
<1>3. ASSUME NEW w \in Workers,
             DeleteTimeWindow(w) \/ (CountTimeWindow(w) /\ ~Enough(members))
      PROVE  Release(w) /\ UNCHANGED <<queue, attempt>>
  BY <1>3 DEF DeleteTimeWindow, CountTimeWindow
<1>4. ASSUME NEW w \in Workers, Release(w)
      PROVE  \A v \in Workers : /\ pc'[v] \in {pc[v], "idle"}
                                /\ pc'[v] # "idle" => job'[v] = job[v]
  BY <1>4, ReleaseEffect
<1>5. ASSUME NEW w \in Workers, Fail(w)
      PROVE  /\ Release(w)
             /\ \A n \in Messages : Begun(n)' <=> Begun(n)
             /\ \A v \in Workers : pc'[v] # "idle" => (job'[v] \in queue' <=> job[v] \in queue)
  <2>1. /\ pc[w] \in Calls /\ job[w] \in Messages /\ Release(w)
        /\ \A n \in Messages \ {job[w]} :
             (n \in queue' <=> n \in queue) /\ attempt'[n] = attempt[n]
        /\ \/ UNCHANGED <<queue, attempt>>
           \/ job[w] \in queue' /\ attempt'[job[w]] > 0
    BY <1>5, FailEffect
  <2>2. orderly /\ pc[w] # "idle"
    BY <2>1, OrderlyEffect DEF Calls
  <2>3. job[w] \notin queue /\ \A v \in Workers : pc[v] # "idle" => v = w
    BY <2>2 DEF OneAtATime
  <2>4. \A v \in Workers : pc'[v] = "idle"
    BY <2>1, <2>3, ReleaseEffect
  <2> QED
    BY <2>1, <2>3, <2>4 DEF Begun
<1>6. CASE UNCHANGED <<queue, attempt, pc, job>>
  BY <1>6 DEF Begun
<1>7. ASSUME NEW w \in Workers, Release(w), UNCHANGED <<queue, attempt>>
      PROVE  /\ \A n \in Messages : Begun(n)' <=> Begun(n)
             /\ \A v \in Workers : pc'[v] # "idle" => (job'[v] \in queue' <=> job[v] \in queue)
  BY <1>4, <1>7 DEF Begun
<1> QED
  BY <1>1, <1>2, <1>3, <1>4, <1>5, <1>6, <1>7 DEF Next, Expire, vars

\* In order, one worker is busy at a time.
LEMMA OneAtATimeStep ==
  ASSUME Structure, Structure', OneAtATime, SetOfWindow, [Next]_vars
  PROVE  OneAtATime'
<1> SUFFICES ASSUME orderly' PROVE OneAtATime'
  BY DEF OneAtATime
<1>1. /\ orderly /\ ts' = ts
      /\ UNCHANGED <<members, alerts, handled>> \/ \E w \in Workers : SetSteps(w)
  BY OrderlyEffect
<1>2. /\ \A v, w \in Workers : pc[v] # "idle" /\ pc[w] # "idle" => v = w
      /\ \A w \in Workers : pc[w] # "idle" =>
           /\ job[w] \in Messages /\ job[w] \notin queue
           /\ \A n \in Messages : Begun(n) => ts[n] <= ts[job[w]]
      /\ \A m \in members \union handled : Begun(m)
      /\ \A a \in alerts : \A m \in a.of : Begun(m)
  BY <1>1 DEF OneAtATime, Structure
<1>3. /\ \A m \in members' \union handled' : m \in Messages /\ Begun(m)
      /\ \A a \in alerts' : \A m \in a.of : m \in Messages /\ Begun(m)
  <2>1. /\ \A m \in members' \union handled' : m \in Messages
        /\ \A a \in alerts' : \A m \in a.of : m \in Messages
    BY DEF Structure, TypeOK
  <2>2. CASE UNCHANGED <<members, alerts, handled>>
    BY <1>2, <2>1, <2>2
  <2>3. ASSUME NEW w \in Workers, SetSteps(w)
        PROVE  /\ \A m \in members' \union handled' : Begun(m)
               /\ \A a \in alerts' : \A m \in a.of : Begun(m)
    <3>1. pc[w] # "idle" /\ Begun(job[w])
      BY <1>2, <2>3 DEF SetSteps, Begun
    <3>2. /\ members' \subseteq members \union {job[w]}
          /\ handled' \subseteq handled \union {job[w]}
      BY <2>3 DEF SetSteps
    <3>3. \A a \in alerts' : a \in alerts \/ a.of = members
      BY <1>1, <2>3 DEF SetSteps, SetOfWindow
    <3> QED
      BY <1>2, <3>1, <3>2, <3>3
  <2> QED
    BY <1>1, <2>1, <2>2, <2>3
<1>4. CASE /\ \A v \in Workers : /\ pc'[v] \in {pc[v], "idle"}
                                 /\ pc'[v] # "idle" => job'[v] = job[v]
           /\ \A n \in Messages : Begun(n)' <=> Begun(n)
           /\ \A w \in Workers : pc'[w] # "idle" =>
                (job'[w] \in queue' <=> job[w] \in queue)
  BY <1>1, <1>2, <1>3, <1>4 DEF OneAtATime
<1>5. CASE \E w \in Workers :
             /\ pc[w] # "idle" /\ pc'[w] # "idle"
             /\ \A v \in Workers \ {w} : pc'[v] = pc[v]
             /\ UNCHANGED <<job, queue, attempt>>
  BY <1>1, <1>2, <1>3, <1>5 DEF OneAtATime, Begun
<1>6. CASE \E w \in Workers, m \in queue :
             /\ Take(w) /\ Turn(m) /\ job'[w] = m /\ pc'[w] = "add"
             /\ \A v \in Workers \ {w} : pc'[v] = "idle"
             /\ queue' = queue \ {m} /\ UNCHANGED attempt
  <2>1. PICK w \in Workers, m \in queue :
          /\ Turn(m) /\ job'[w] = m
          /\ \A v \in Workers \ {w} : pc'[v] = "idle"
          /\ queue' = queue \ {m} /\ UNCHANGED attempt
    BY <1>6
  <2>2. \A n \in Messages : /\ Begun(n) => Begun(n)'
                            /\ Begun(n)' => Begun(n) \/ n = m
    BY <2>1 DEF Begun
  <2>3. \A n \in Messages : Begun(n) => ts[n] <= ts[m]
    BY <2>1 DEF Turn, Begun
  <2>4. m \in Messages /\ ts[m] \in Nat
    BY TimeWindowAssumption DEF Structure, TypeOK
  <2>5. \A n \in Messages : Begun(n)' => ts[n] <= ts[m]
    BY <2>2, <2>3, <2>4
  <2>6. /\ \A m1 \in members' \union handled' : Begun(m1)'
        /\ \A a \in alerts' : \A m1 \in a.of : Begun(m1)'
    BY <1>3, <2>2
  <2>7. /\ \A u, v \in Workers : pc'[u] # "idle" /\ pc'[v] # "idle" => u = v
        /\ \A v \in Workers : pc'[v] # "idle" => v = w
    BY <2>1
  <2> QED
    BY <1>1, <2>1, <2>5, <2>6, <2>7 DEF OneAtATime
<1> QED
  BY <1>4, <1>5, <1>6, OrderlyTurn

\* In order, the set has measurements of the window only when they are counted.
LEMMA SetOfWindowStep ==
  ASSUME Structure, Structure', OneAtATime, SetOfWindow, [Next]_vars
  PROVE  SetOfWindow'
<1> SUFFICES ASSUME orderly' PROVE SetOfWindow'
  BY DEF SetOfWindow
<1>1. orderly /\ ts' = ts
  BY OrderlyEffect
<1>2. /\ \A v, w \in Workers : pc[v] # "idle" /\ pc[w] # "idle" => v = w
      /\ \A w \in Workers : pc[w] # "idle" =>
           \A n \in Messages : Begun(n) => ts[n] <= ts[job[w]]
      /\ \A m \in members : Begun(m)
      /\ \A a \in alerts : \A m \in a.of : Begun(m)
  BY <1>1 DEF OneAtATime
<1>3. ASSUME \A v \in Workers : pc'[v] = "idle" PROVE SetOfWindow'
  BY <1>3 DEF SetOfWindow, Added
<1>4. ASSUME NEW w \in Workers, pc[w] # "idle", Release(w) PROVE SetOfWindow'
  <2>1. \A v \in Workers : pc'[v] = "idle"
    BY <1>2, <1>4, ReleaseEffect
  <2> QED
    BY <1>3, <2>1
<1>5. ASSUME NEW w \in Workers, Take(w) PROVE SetOfWindow'
  <2>1. PICK m \in queue :
          job' = [job EXCEPT ![w] = m] /\ Record(Turn(m), alerts)
    BY <1>5 DEF Take
  <2>2. Turn(m) /\ alerts' = alerts /\ members' = members /\ pc' = [pc EXCEPT ![w] = "add"]
    BY <1>5, <2>1 DEF Take, Goto, Record
  <2>3. m \in Messages /\ ~Begun(m) /\ \A v \in Workers : pc[v] = "idle"
    BY <2>2 DEF Turn, Begun, Structure, TypeOK
  <2>4. m \notin members /\ \A a \in alerts : m \notin a.of
    BY <1>2, <2>3
  <2>5. /\ job'[w] = m /\ pc'[w] = "add"
        /\ \A v \in Workers \ {w} : pc'[v] = "idle"
    BY <2>1, <2>2, <2>3 DEF Structure, TypeOK
  <2> QED
    BY <2>2, <2>4, <2>5 DEF SetOfWindow, Added
<1>6. ASSUME NEW w \in Workers, pc[w] # "idle", NEW step, Goto(w, step)
      PROVE  pc'[w] = step /\ \A v \in Workers \ {w} : pc'[v] = "idle"
  BY <1>2, <1>6 DEF Goto, Structure, TypeOK
<1>7. ASSUME NEW w \in Workers, AddToTimeWindow(w) PROVE SetOfWindow'
  <2>1. pc[w] = "add" /\ job' = job /\ members' = members \union {job[w]}
    BY <1>7, AfterEffect DEF AddToTimeWindow, Calls
  <2>2. pc'[w] = "prune" /\ \A v \in Workers \ {w} : pc'[v] = "idle"
    BY <1>6, <1>7, <2>1 DEF AddToTimeWindow
  <2> QED
    BY <2>1, <2>2 DEF SetOfWindow, Added
<1>8. ASSUME NEW w \in Workers, PruneTimeWindow(w) PROVE SetOfWindow'
  <2>1. /\ pc[w] = "prune" /\ job' = job
        /\ members' = members \ Pruned(job[w], members)
    BY <1>8, AfterEffect DEF PruneTimeWindow, Calls
  <2>2. pc'[w] = "count" /\ \A v \in Workers \ {w} : pc'[v] = "idle"
    BY <1>6, <1>8, <2>1 DEF PruneTimeWindow
  <2>3. job[w] \in members /\ job[w] \in Messages
    BY <1>1, <2>1 DEF SetOfWindow, Added, Structure
  <2>4. \A n \in Messages : ts[n] \in Nat
    BY TimeWindowAssumption DEF Structure, TypeOK
  <2>5. job[w] \in members'
    BY <2>1, <2>3, <2>4, TimeWindowAssumption DEF Pruned
  <2>6. \A n \in members' : ts[job[w]] - Span < ts[n] /\ ts[n] <= ts[job[w]] /\ n \in Messages
    <3> SUFFICES ASSUME NEW n \in members'
                 PROVE  /\ ts[job[w]] - Span < ts[n] /\ ts[n] <= ts[job[w]]
                        /\ n \in Messages
      OBVIOUS
    <3>1. n \in members /\ n \in Messages /\ ~(ts[n] <= ts[job[w]] - Span)
      BY <2>1 DEF Pruned, Structure, TypeOK
    <3>2. ts[n] <= ts[job[w]]
      BY <1>2, <2>1, <3>1
    <3> QED
      BY <2>3, <2>4, <3>1, <3>2, TimeWindowAssumption
  <2>7. (members \subseteq WindowOf(job[w]))'
    BY <1>1, <2>1, <2>6 DEF WindowOf
  <2> QED
    BY <2>1, <2>2, <2>5, <2>7 DEF SetOfWindow, Added
<1>9. ASSUME NEW w \in Workers, CountTimeWindow(w) PROVE SetOfWindow'
  <2>1. CASE Enough(members)
    <3>1. /\ pc[w] = "count" /\ job' = job /\ members' = members
          /\ counted' = [counted EXCEPT ![w] = members]
      BY <1>9, <2>1 DEF CountTimeWindow
    <3>2. pc'[w] = "delete" /\ \A v \in Workers \ {w} : pc'[v] = "idle"
      BY <1>6, <1>9, <2>1, <3>1 DEF CountTimeWindow
    <3>3. job[w] \in members /\ members \subseteq WindowOf(job[w])
      BY <1>1, <3>1 DEF SetOfWindow, Added
    <3>4. counted'[w] = members'
      BY <3>1 DEF Structure, TypeOK
    <3>5. (members \subseteq WindowOf(job[w]))'
      BY <1>1, <3>1, <3>3 DEF WindowOf
    <3> QED
      BY <3>1, <3>2, <3>3, <3>4, <3>5 DEF SetOfWindow, Added
  <2>2. CASE ~Enough(members)
    BY <1>4, <1>9, <2>2 DEF CountTimeWindow
  <2> QED
    BY <2>1, <2>2
<1>10. ASSUME NEW w \in Workers, DeleteTimeWindow(w) PROVE SetOfWindow'
  BY <1>4, <1>10 DEF DeleteTimeWindow
<1>11. ASSUME NEW w \in Workers, Fail(w) PROVE SetOfWindow'
  <2>1. Release(w) /\ pc[w] # "idle"
    BY <1>11, FailEffect DEF Calls
  <2> QED
    BY <1>4, <2>1
<1>12. CASE Expire
  BY <1>12 DEF Expire, Record
<1>13. CASE UNCHANGED vars
  BY <1>1, <1>13 DEF vars, SetOfWindow, Added, WindowOf
<1> QED
  BY <1>5, <1>7, <1>8, <1>9, <1>10, <1>11, <1>12, <1>13 DEF Next

\* In order, the alerts stay apart from each other and from the set.
LEMMA SeparateStep ==
  ASSUME Structure, Structure', OneAtATime, SetOfWindow, Separate, [Next]_vars
  PROVE  Separate'
<1> SUFFICES ASSUME orderly'
             PROVE  /\ \A a \in alerts' : /\ a.of \subseteq WindowOf(a.by)
                                          /\ a.of \intersect members' = {}
                    /\ \A a, b \in alerts' : a # b => a.of \intersect b.of = {}
  <2>1. ts' = ts
    BY DEF Next, Take, AddToTimeWindow, PruneTimeWindow, CountTimeWindow,
       DeleteTimeWindow, Fail, Expire, vars
  <2> QED
    BY <2>1 DEF Separate, WindowOf
<1>1. /\ orderly
      /\ UNCHANGED <<members, alerts, handled>> \/ \E w \in Workers : SetSteps(w)
  BY OrderlyEffect
<1>2. /\ \A a \in alerts : a.of \subseteq WindowOf(a.by) /\ a.of \intersect members = {}
      /\ \A a, b \in alerts : a # b => a.of \intersect b.of = {}
  BY <1>1 DEF Separate
<1>3. CASE UNCHANGED <<members, alerts, handled>>
  BY <1>2, <1>3
<1>4. ASSUME NEW w \in Workers, SetSteps(w)
      PROVE  /\ \A a \in alerts' : /\ a.of \subseteq WindowOf(a.by)
                                   /\ a.of \intersect members' = {}
             /\ \A a, b \in alerts' : a # b => a.of \intersect b.of = {}
  <2>1. CASE pc[w] = "add" /\ members' = members \union {job[w]} /\ alerts' = alerts
    <3>1. \A a \in alerts : job[w] \notin a.of
      BY <1>1, <2>1 DEF SetOfWindow
    <3> QED
      BY <1>2, <2>1, <3>1
  <2>2. CASE members' \subseteq members /\ alerts' = alerts
    BY <1>2, <2>2
  <2>3. CASE /\ pc[w] = "delete" /\ members' = {}
             /\ alerts' = alerts \union {[by |-> job[w], of |-> counted[w]]}
    <3>1. counted[w] = members /\ members \subseteq WindowOf(job[w])
      BY <1>1, <2>3 DEF SetOfWindow
    <3> DEFINE new == [by |-> job[w], of |-> counted[w]]
    <3>2. new.by = job[w] /\ new.of = members
      BY <3>1
    <3>3. alerts' = alerts \union {new} /\ members' = {}
      BY <2>3
    <3> HIDE DEF new
    <3>4. \A a \in alerts' : a.of \subseteq WindowOf(a.by)
      BY <1>2, <3>1, <3>2, <3>3
    <3>5. \A a, b \in alerts' : a # b => a.of \intersect b.of = {}
      BY <1>2, <3>2, <3>3
    <3> QED
      BY <3>3, <3>4, <3>5
  <2> QED
    BY <1>4, <2>1, <2>2, <2>3 DEF SetSteps
<1> QED
  BY <1>1, <1>3, <1>4

\* In order, a measurement leaves the set for an alert, or when it is too old.
LEMMA KeptStep ==
  ASSUME Structure, Structure', OneAtATime, SetOfWindow, Kept, [Next]_vars
  PROVE  Kept'
<1>1. ts' = ts
  BY DEF Next, Take, AddToTimeWindow, PruneTimeWindow, CountTimeWindow,
     DeleteTimeWindow, Fail, Expire, vars
<1> SUFFICES ASSUME orderly', NEW n \in handled'
             PROVE  \/ n \in members'
                    \/ \E a \in alerts' : n \in a.of
                    \/ \E m \in Messages : Begun(m)' /\ ts[n] <= ts[m] - Span
  BY <1>1 DEF Kept
<1>2. /\ orderly
      /\ UNCHANGED <<members, alerts, handled>> \/ \E w \in Workers : SetSteps(w)
  BY OrderlyEffect
<1>3. \A m \in Messages : Begun(m) => Begun(m)'
  BY OrderlyTurn DEF Begun
<1>4. n \in handled => \/ n \in members
                       \/ \E a \in alerts : n \in a.of
                       \/ \E m \in Messages : Begun(m) /\ ts[n] <= ts[m] - Span
  BY <1>2 DEF Kept
<1>5. CASE UNCHANGED <<members, alerts, handled>>
  BY <1>3, <1>4, <1>5
<1>6. ASSUME NEW w \in Workers, SetSteps(w)
      PROVE  \/ n \in members'
             \/ \E a \in alerts' : n \in a.of
             \/ \E m \in Messages : Begun(m)' /\ ts[n] <= ts[m] - Span
  <2>1. pc[w] # "idle" /\ job[w] \in Messages
    BY <1>6 DEF SetSteps, Structure
  <2>2. Begun(job[w])
    BY <1>2, <2>1 DEF OneAtATime, Begun
  <2>3. CASE pc[w] = "add" /\ members' = members \union {job[w]} /\ UNCHANGED <<alerts, handled>>
    BY <1>3, <1>4, <2>3
  <2>4. CASE /\ pc[w] = "prune" /\ members' = members \ Pruned(job[w], members)
             /\ UNCHANGED <<alerts, handled>>
    <3>1. n \in members /\ n \notin members' => ts[n] <= ts[job[w]] - Span
      BY <2>4 DEF Pruned
    <3> QED
      BY <1>3, <1>4, <2>1, <2>2, <2>4, <3>1
  <2>5. CASE /\ pc[w] = "count" /\ handled' = handled \union {job[w]}
             /\ UNCHANGED <<members, alerts>>
    <3>1. job[w] \in members
      BY <1>2, <2>5 DEF SetOfWindow, Added
    <3> QED
      BY <1>3, <1>4, <2>5, <3>1
  <2>6. CASE /\ pc[w] = "delete"
             /\ alerts' = alerts \union {[by |-> job[w], of |-> counted[w]]}
             /\ handled' = handled \union {job[w]}
    <3>1. job[w] \in members /\ counted[w] = members
      BY <1>2, <2>6 DEF SetOfWindow, Added
    <3>2. n \in members => \E a \in alerts' : n \in a.of
      <4>1. [by |-> job[w], of |-> counted[w]] \in alerts'
        BY <2>6
      <4>2. [by |-> job[w], of |-> counted[w]].of = members
        BY <3>1
      <4> QED
        BY <4>1, <4>2, Zenon
    <3>3. n \in handled \/ n \in members
      BY <2>6, <3>1
    <3> QED
      BY <1>3, <1>4, <2>6, <3>2, <3>3
  <2> QED
    BY <1>6, <2>3, <2>4, <2>5, <2>6 DEF SetSteps
<1> QED
  BY <1>2, <1>5, <1>6

\* The order, the set and the alerts.
InOrder == Structure /\ OneAtATime /\ SetOfWindow /\ Separate /\ Kept

\* At the start nothing is begun.
LEMMA InOrderInit == Init => InOrder
<1> SUFFICES ASSUME Init PROVE InOrder
  OBVIOUS
<1>1. Structure
  BY StructureInit
<1>2. /\ members = {} /\ handled = {} /\ alerts = {}
      /\ \A w \in Workers : pc[w] = "idle"
  BY DEF Init
<1> QED
  BY <1>1, <1>2 DEF InOrder, OneAtATime, SetOfWindow, Separate, Kept, Added

\* Every step keeps it.
LEMMA InOrderStep == InOrder /\ [Next]_vars => InOrder'
  BY StructureStep, OneAtATimeStep, SetOfWindowStep, SeparateStep, KeptStep DEF InOrder

\* As long as messages are handled in order, an alert is raised for measurements
\* of one window only, the one that ends with the measurement that raised it, and
\* none of them serves for two alerts.
THEOREM AlertsAreSeparate == Spec => []AlertsSeparate
<1>1. InOrder => AlertsSeparate
  BY DEF InOrder, Structure, Separate, AlertsSeparate
<1> QED
  BY <1>1, InOrderInit, InOrderStep, PTL DEF Spec

\* In order, no window with enough measurements goes without an alert.
LEMMA NoMissedWindowStep ==
  ASSUME InOrder, InOrder', NoMissedWindow, [Next]_vars
  PROVE  NoMissedWindow'
<1> USE DEF InOrder
<1>1. ts' = ts
  BY DEF Next, Take, AddToTimeWindow, PruneTimeWindow, CountTimeWindow,
     DeleteTimeWindow, Fail, Expire, vars
<1> SUFFICES ASSUME orderly', NEW m \in handled',
                    Cardinality(WindowOf(m) \intersect handled') >= Required
             PROVE  \E a \in alerts' : a.of \intersect WindowOf(m) # {}
  BY <1>1 DEF NoMissedWindow, WindowOf
<1>2. /\ orderly
      /\ UNCHANGED <<members, alerts, handled>> \/ \E w \in Workers : SetSteps(w)
  BY OrderlyEffect
<1>3. ASSUME m \in handled, WindowOf(m) \intersect handled' = WindowOf(m) \intersect handled
      PROVE  \E a \in alerts : a.of \intersect WindowOf(m) # {}
  BY <1>2, <1>3 DEF NoMissedWindow
<1>4. /\ m \in Messages /\ handled \subseteq Messages
      /\ \A n \in Messages : ts[n] \in Nat
  BY TimeWindowAssumption DEF Structure, TypeOK
<1>5. CASE UNCHANGED <<alerts, handled>>
  BY <1>3, <1>5
<1>6. ASSUME NEW w \in Workers, SetSteps(w), handled' = handled \union {job[w]},
             pc[w] \in {"count", "delete"}
      PROVE  \E a \in alerts' : a.of \intersect WindowOf(m) # {}
  <2> DEFINE j == job[w]
  <2>1. /\ j \in Messages /\ j \in members /\ Begun(j)
        /\ \A n \in Messages : Begun(n) => ts[n] <= ts[j]
    BY <1>2, <1>6 DEF Structure, SetOfWindow, OneAtATime, Added, Begun
  <2> HIDE DEF j
  <2>2. CASE j \notin WindowOf(m)
    <3>1. j \in WindowOf(j)
      BY <1>4, <2>1, TimeWindowAssumption DEF WindowOf
    <3>2. m \in handled
      BY <1>6, <2>2, <3>1 DEF j
    <3>3. \E a \in alerts : a.of \intersect WindowOf(m) # {}
      BY <1>3, <1>6, <2>2, <3>2 DEF j
    <3>4. alerts \subseteq alerts'
      BY <1>6 DEF SetSteps
    <3> QED
      BY <3>3, <3>4
  <2>3. CASE j \in WindowOf(m)
    <3>1. Begun(m)
      BY <1>2, <1>6, <2>1 DEF OneAtATime, j
    <3>2. ts[m] = ts[j]
      BY <1>4, <2>1, <2>3, <3>1 DEF WindowOf
    <3>3. CASE pc[w] = "delete"
      <4>1. counted[w] = members
        BY <1>2, <3>3 DEF SetOfWindow
      <4>2. alerts' = alerts \union {[by |-> job[w], of |-> counted[w]]}
        BY <1>6, <3>3 DEF SetSteps
      <4>3. \E a \in alerts' : j \in a.of
        <5>1. [by |-> job[w], of |-> counted[w]] \in alerts'
          BY <4>2
        <5>2. [by |-> job[w], of |-> counted[w]].of = members
          BY <4>1
        <5> QED
          BY <2>1, <5>1, <5>2, Zenon
      <4> QED
        BY <2>3, <4>3
    <3>4. CASE pc[w] = "count"
      <4>1. ~Enough(members) /\ alerts' = alerts
        BY <1>6, <3>4 DEF SetSteps
      <4> SUFFICES ASSUME \A a \in alerts : a.of \intersect WindowOf(m) = {}
                   PROVE  FALSE
        BY <4>1
      <4>2. ASSUME NEW n \in WindowOf(m), n \in handled' PROVE n \in members
        <5>1. CASE n \in handled
          <6>1. ASSUME NEW k \in Messages, Begun(k), ts[n] <= ts[k] - Span PROVE FALSE
            <7>1. ts[k] <= ts[m]
              BY <2>1, <3>2, <6>1
            <7>2. n \in Messages /\ ts[m] - Span < ts[n]
              BY <4>2 DEF WindowOf
            <7> QED
              BY <1>4, <6>1, <7>1, <7>2, TimeWindowAssumption
          <6>2. \A a \in alerts : n \notin a.of
            BY <4>2
          <6> QED
            BY <1>2, <5>1, <6>1, <6>2 DEF Kept
        <5> QED
          BY <1>6, <2>1, <4>2, <5>1 DEF j
      <4>3. (WindowOf(m) \intersect handled') \in SUBSET members
        BY <4>2
      <4>4. /\ Cardinality(WindowOf(m) \intersect handled') <= Cardinality(members)
            /\ Cardinality(WindowOf(m) \intersect handled') \in Nat
            /\ Cardinality(members) \in Nat
        BY <4>3, FS_Subset, FS_CardinalityType DEF Structure
      <4> QED
        BY <4>1, <4>4, TimeWindowAssumption DEF Enough
    <3> QED
      BY <1>6, <3>3, <3>4
  <2> QED
    BY <2>2, <2>3
<1> QED
  BY <1>2, <1>5, <1>6 DEF SetSteps

\* As long as messages are handled in order, no alert is missed: when as many
\* measurements of a window were handled as the rule requires, some of them belong
\* to an alert.
THEOREM NoWindowIsMissed == Spec => []NoMissedWindow
<1>1. Init => NoMissedWindow
  BY DEF Init, NoMissedWindow
<1> QED
  BY <1>1, InOrderInit, InOrderStep, NoMissedWindowStep, PTL DEF Spec
=============================================================================
