--------------------------- MODULE PipelineProofs ---------------------------
(***************************************************************************)
(* Theorems about Ingestion, for any events, devices, requests, capacity   *)
(* of the channel and combination of faults, and then about Pipeline, for  *)
(* any devices, scripts and gap on top of them.                            *)
(***************************************************************************)
EXTENDS Pipeline, SequenceTheorems, TLAPS

\* A goroutine has an event as long as it is busy, a process that ended has none,
\* and requests carry events of HTTP.
Holding ==
  /\ \A t \in Threads : pc[t] # "idle" <=> task[t] # NoEvent
  /\ \A t \in Handlers : task[t] \in HttpEvents \union {NoEvent}

Structure == TypeOK /\ Holding
-----------------------------------------------------------------------------
(* Lemmas about sequences *)

\* What is on a sequence with one more element.
LEMMA RangeAppend ==
  ASSUME NEW S, NEW s \in Seq(S), NEW e \in S
  PROVE  Range(Append(s, e)) = Range(s) \union {e}
<1>1. /\ DOMAIN s = 1..Len(s)
      /\ DOMAIN Append(s, e) = 1..Len(s) + 1
      /\ \A i \in 1..Len(s) : Append(s, e)[i] = s[i]
      /\ Append(s, e)[Len(s) + 1] = e
      /\ Len(s) \in Nat
  BY AppendProperties, LenProperties
<1> QED
  BY <1>1 DEF Range

\* A sequence that is not empty has its head and what is behind it.
LEMMA RangeHeadTail ==
  ASSUME NEW S, NEW s \in Seq(S), s # <<>>
  PROVE  /\ Range(s) = {Head(s)} \union Range(Tail(s))
         /\ Head(s) = s[1]
<1>1. /\ DOMAIN s = 1..Len(s)
      /\ Tail(s) \in Seq(S)
      /\ Len(Tail(s)) = Len(s) - 1
      /\ DOMAIN Tail(s) = 1..Len(s) - 1
      /\ \A i \in 1..Len(s) - 1 : Tail(s)[i] = s[i + 1]
      /\ Len(s) \in Nat \ {0}
  BY HeadTailProperties, LenProperties, EmptySeq
<1>2. Head(s) = s[1]
  OBVIOUS
<1>3. ASSUME NEW i \in 1..Len(s), i # 1 PROVE i - 1 \in 1..Len(s) - 1 /\ s[i] = Tail(s)[i - 1]
  BY <1>1, <1>3
<1>4. Range(s) \subseteq {Head(s)} \union Range(Tail(s))
  <2> SUFFICES ASSUME NEW i \in 1..Len(s)
               PROVE  s[i] \in {Head(s)} \union Range(Tail(s))
    BY <1>1 DEF Range
  <2>1. CASE i = 1
    BY <2>1, <1>2
  <2>2. CASE i # 1
    BY <2>2, <1>1, <1>3 DEF Range
  <2> QED
    BY <2>1, <2>2
<1>5. {Head(s)} \union Range(Tail(s)) \subseteq Range(s)
  BY <1>1, <1>2 DEF Range
<1> QED
  BY <1>2, <1>4, <1>5

\* The order of a sequence is that of the sequence without its last element, and
\* everything before that one.
LEMMA BeforeAppend ==
  ASSUME NEW S, NEW s \in Seq(S), NEW e \in S, NEW a, NEW b
  PROVE  /\ Before(s, a, b) => Before(Append(s, e), a, b)
         /\ a \in Range(s) => Before(Append(s, e), a, e)
         /\ Before(Append(s, e), a, b) =>
              Before(s, a, b) \/ (a \in Range(s) /\ b = e)
<1>1. /\ DOMAIN s = 1..Len(s)
      /\ DOMAIN Append(s, e) = 1..Len(s) + 1
      /\ \A i \in 1..Len(s) : Append(s, e)[i] = s[i]
      /\ Append(s, e)[Len(s) + 1] = e
      /\ Len(s) \in Nat
  BY AppendProperties, LenProperties
<1>2. Before(s, a, b) => Before(Append(s, e), a, b)
  BY <1>1 DEF Before
<1>3. a \in Range(s) => Before(Append(s, e), a, e)
  BY <1>1 DEF Before, Range
<1>4. Before(Append(s, e), a, b) => Before(s, a, b) \/ (a \in Range(s) /\ b = e)
  BY <1>1 DEF Before, Range
<1> QED
  BY <1>2, <1>3, <1>4

\* What is before another element behind the head was before it with the head, and
\* the head before all of them.
LEMMA BeforeTail ==
  ASSUME NEW S, NEW s \in Seq(S), s # <<>>, NEW a, NEW b
  PROVE  /\ Before(Tail(s), a, b) => Before(s, a, b)
         /\ b \in Range(Tail(s)) => Before(s, Head(s), b)
<1>1. /\ DOMAIN s = 1..Len(s)
      /\ Tail(s) \in Seq(S)
      /\ DOMAIN Tail(s) = 1..Len(s) - 1
      /\ \A i \in 1..Len(s) - 1 : Tail(s)[i] = s[i + 1]
      /\ Len(s) \in Nat \ {0}
      /\ Head(s) = s[1]
  BY HeadTailProperties, LenProperties, EmptySeq
<1>2. Before(Tail(s), a, b) => Before(s, a, b)
  BY <1>1 DEF Before
<1>3. b \in Range(Tail(s)) => Before(s, Head(s), b)
  BY <1>1 DEF Before, Range
<1> QED
  BY <1>2, <1>3
-----------------------------------------------------------------------------
(* Types *)

\* The initial states have the structure.
LEMMA StructureInit == Init => Structure
  BY IngestionAssumption DEF Fates, Init, Structure, TypeOK, Holding, Sessions, Threads

\* Ending the work on an event keeps the types of what it changes.
LEMMA LeaveKeeps ==
  ASSUME Structure, NEW t \in Threads, Return(t)
  PROVE  /\ pc' \in [Threads -> {"idle", "decode", "device", "event", "publish",
                                 "now", "seen"}]
         /\ task' \in [Threads -> Events \union {NoEvent}]
         /\ UNCHANGED now
         /\ Holding'
         /\ (task[t] \in Events => answered' \subseteq Events)
  BY DEF Return, Leave, Structure, TypeOK, Holding

\* What is published is on the queue or known to be dropped; nothing else comes
\* or goes.
LEMMA EnqueueEffect ==
  ASSUME TypeOK, NEW e \in Events, Enqueue(e)
  PROVE  /\ queue' \in Seq(Events)
         /\ fate' \in [Events -> Fates]
         /\ queue' = queue \/ queue' = Append(queue, e)
         /\ Range(queue) \subseteq Range(queue')
         /\ Range(queue') \subseteq Range(queue) \union {e}
         /\ e \in Range(queue') \/ fate'[e] # "none"
         /\ \A x \in Events : fate[x] # "none" => fate'[x] # "none"
<1> USE DEF TypeOK, Enqueue, Fates
<1>1. CASE amqp = "open" /\ declared
  <2>1. queue' = Append(queue, e) /\ fate' = fate
    BY <1>1
  <2>2. queue' \in Seq(Events)
    BY <2>1
  <2>3. Range(queue') = Range(queue) \union {e}
    BY <2>1, RangeAppend
  <2> QED
    BY <2>1, <2>2, <2>3
<1>2. CASE \/ amqp = "open" /\ ~declared /\ fate' = [fate EXCEPT ![e] = "unrouted"]
           \/ amqp = "broken" /\ fate' = [fate EXCEPT ![e] = "vanished"]
  <2>1. queue' = queue
    BY <1>2
  <2> QED
    BY <1>2, <2>1
<1> QED
  BY <1>1, <1>2

\* A failed call leaves the stores alone or has the effect it would have had.
LEMMA FailedEffect ==
  ASSUME TypeOK, NEW t \in Threads, task[t] \in Events, Failed(t)
  PROVE  /\ devices' \subseteq Devices /\ stored' \subseteq Events
         /\ queue' \in Seq(Events) /\ lastSeen' \in [Devices -> 0..MaxClock]
         /\ devices \subseteq devices' /\ stored \subseteq stored'
         /\ \/ queue' = queue
            \/ pc[t] = "publish" /\ queue' = Append(queue, task[t])
         /\ Range(queue) \subseteq Range(queue')
         /\ Range(queue') \subseteq Range(queue)
              \union (IF pc[t] = "publish" THEN {task[t]} ELSE {})
         /\ \/ lastSeen' = lastSeen
            \/ /\ pc[t] = "seen"
               /\ lastSeen' = [lastSeen EXCEPT ![DeviceOf[task[t]]] = now[t]]
<1> USE DEF TypeOK
<1>1. DeviceOf[task[t]] \in Devices
  BY DEF Devices
<1>2. CASE UNCHANGED stores
  BY <1>2 DEF stores
<1>3. CASE /\ devices' = devices \union {DeviceOf[task[t]]}
           /\ UNCHANGED <<stored, queue, lastSeen>>
  BY <1>1, <1>3
<1>4. CASE /\ stored' = stored \union {task[t]}
           /\ UNCHANGED <<devices, queue, lastSeen>>
  BY <1>4
<1>5. CASE /\ pc[t] = "publish"
           /\ queue' = Append(queue, task[t])
           /\ UNCHANGED <<devices, stored, lastSeen>>
  <2>1. Range(queue') = Range(queue) \union {task[t]}
    BY <1>5, RangeAppend
  <2> QED
    BY <1>5, <2>1
<1>6. CASE /\ pc[t] = "seen"
           /\ lastSeen' = [lastSeen EXCEPT ![DeviceOf[task[t]]] = now[t]]
           /\ UNCHANGED <<devices, stored, queue>>
  BY <1>1, <1>6
<1> QED
  BY <1>2, <1>3, <1>4, <1>5, <1>6 DEF Failed

\* A call that fails keeps the structure.
LEMMA FailedKeeps ==
  ASSUME Structure, NEW t \in Threads, task[t] \in Events, Failed(t)
  PROVE  Structure'
<1> USE DEF Structure, TypeOK, Holding
<1>1. /\ devices' \subseteq Devices /\ stored' \subseteq Events
      /\ queue' \in Seq(Events) /\ lastSeen' \in [Devices -> 0..MaxClock]
  BY FailedEffect
<1>2. fate' \in [Events -> Fates]
  BY DEF Failed, Fates
<1>3. Return(t)
  BY DEF Failed, AfterError
<1>4. UNCHANGED <<clock, input, life>>
  BY DEF Failed
<1> QED
  BY <1>1, <1>2, <1>3, <1>4, LeaveKeeps DEF input, life

\* The end of the process keeps the structure.
LEMMA DieKeeps ==
  ASSUME Structure, Die, disruptions' \in 0..MaxDisruptions
  PROVE  Structure'
<1> USE DEF Structure, TypeOK, Holding, Die
<1>1. fate' \in [Events -> Fates]
  BY DEF Fates
<1>2. channel' \in Seq(Events) /\ Len(channel') <= Cap
  BY IngestionAssumption
<1>3. /\ pc' \in [Threads -> {"idle", "decode", "device", "event", "publish",
                              "now", "seen"}]
      /\ task' \in [Threads -> Events \union {NoEvent}]
      /\ Holding'
  BY DEF Threads
<1>4. UNCHANGED <<devices, stored, queue, lastSeen>>
  BY DEF stores
<1> QED
  BY <1>1, <1>2, <1>3, <1>4

\* Every step keeps it.
LEMMA StructureStep == Structure /\ [Next]_vars => Structure'
<1> SUFFICES ASSUME Structure, [Next]_vars PROVE Structure'
  OBVIOUS
<1> USE IngestionAssumption DEF Structure, TypeOK, Holding
<1>1. ASSUME NEW e \in Events, Receive(e) PROVE Structure'
  BY <1>1 DEF Receive, work, stores, life, outcome
<1>2. ASSUME NEW e \in Events, Unheard(e) PROVE Structure'
  BY <1>2 DEF Fates, Unheard, work, stores, life
<1>3. ASSUME NEW t \in Handlers, NEW e \in Events, Request(t, e) PROVE Structure'
  BY <1>3 DEF Request, Threads, stores, life, outcome
<1>4. ASSUME Push PROVE Structure'
  BY <1>4 DEF Push, Room, work, stores, life, outcome
<1>5. ASSUME NEW t \in Consumers, Take(t) PROVE Structure'
  BY <1>5, HeadTailProperties DEF Take, Consumers, Threads, stores, life, outcome
<1>6. ASSUME NEW t \in Threads, Decode(t) PROVE Structure'
  BY <1>6 DEF Decode, Step, input, stores, life, outcome
<1>7. ASSUME NEW t \in Threads, SaveDevice(t) PROVE Structure'
  BY <1>7 DEF SaveDevice, Step, Devices, input, life, outcome
<1>8. ASSUME NEW t \in Threads, SaveEvent(t) PROVE Structure'
  BY <1>8 DEF SaveEvent, Step, input, life, outcome
<1>9. ASSUME NEW t \in Threads, Publish(t) PROVE Structure'
  <2>1. task[t] \in Events
    BY <1>9 DEF Publish, Step
  <2>2. /\ queue' \in Seq(Events)
        /\ fate' \in [Events -> Fates]
    BY <1>9, <2>1, EnqueueEffect DEF Publish
  <2> QED
    BY <1>9, <2>2 DEF Publish, Step, input, life
<1>10. ASSUME NEW t \in Threads, ReadNow(t) PROVE Structure'
  BY <1>10 DEF ReadNow, Step, input, stores, life, outcome
<1>11. ASSUME NEW t \in Threads, SetLastSeen(t) PROVE Structure'
  BY <1>11, LeaveKeeps DEF SetLastSeen, Return, Leave, Devices, input, life
<1>12. ASSUME NEW t \in Threads, Fail(t) PROVE Structure'
  BY <1>12, FailedKeeps DEF Fail, MayFail
<1>13. ASSUME Crash PROVE Structure'
  BY <1>13, DieKeeps DEF Crash, Disrupt
<1>14. ASSUME Restart PROVE Structure'
  BY <1>14 DEF Restart, Sessions, input, work, stores, outcome
<1>15. ASSUME SessionLost PROVE Structure'
  BY <1>15 DEF SessionLost, Disrupt, input, work, stores, outcome
<1>25. ASSUME AmqpBreaks PROVE Structure'
  BY <1>25 DEF AmqpBreaks, Disrupt, input, work, stores, outcome
<1>26. ASSUME AmqpLost PROVE Structure'
  BY <1>26 DEF AmqpLost, input, work, stores, outcome
<1>16. ASSUME Reconnect PROVE Structure'
  BY <1>16 DEF Reconnect, input, work, stores, outcome
<1>17. ASSUME Stop PROVE Structure'
  BY <1>17 DEF Stop, Disrupt, input, work, stores, outcome
<1>18. ASSUME Drained PROVE Structure'
  BY <1>18 DEF Drained, input, work, stores, outcome
<1>19. ASSUME DrainTimeout PROVE Structure'
  BY <1>19, DieKeeps DEF DrainTimeout
<1>20. ASSUME Close PROVE Structure'
  BY <1>20 DEF Close, input, work, stores, outcome
<1>21. ASSUME Exit PROVE Structure'
  BY <1>21, DieKeeps DEF Exit
<1>22. ASSUME DeclareQueue PROVE Structure'
  BY <1>22 DEF DeclareQueue, input, work, stores, outcome
<1>23. ASSUME Tick PROVE Structure'
  BY <1>23 DEF Tick, input, work, stores, life, outcome
<1>24. CASE UNCHANGED vars
  BY <1>24 DEF vars, input, work, stores, life, outcome
<1> QED
  BY <1>1, <1>2, <1>3, <1>4, <1>5, <1>6, <1>7, <1>8, <1>9, <1>10, <1>11, <1>12,
     <1>13, <1>14, <1>15, <1>16, <1>17, <1>18, <1>19, <1>20, <1>21, <1>22, <1>23,
     <1>24, <1>25, <1>26
  DEF Next, Run, Process

\* The type invariant holds: in particular messageCh never holds more than its
\* capacity.
THEOREM TypeCorrect == Spec => []TypeOK
<1>1. Structure => TypeOK
  BY DEF Structure
<1> QED
  BY <1>1, StructureInit, StructureStep, PTL DEF Spec
-----------------------------------------------------------------------------
(* Stored before queued *)

\* QueuedIsStored sees the queue alone.  What is inductive adds what a goroutine
\* has already saved of the event it is about to publish.
Saved ==
  /\ \A t \in Threads :
       /\ pc[t] \in {"event", "publish", "now", "seen"} =>
            DeviceOf[task[t]] \in devices
       /\ pc[t] \in {"publish", "now", "seen"} => task[t] \in stored
  /\ QueuedIsStored

\* The steps that touch neither the goroutines nor the stores.
Aside ==
  \/ \E e \in Events : Receive(e) \/ Unheard(e)
  \/ Push \/ Restart \/ SessionLost \/ Reconnect \/ AmqpBreaks \/ AmqpLost
  \/ Stop \/ Drained \/ Close \/ DeclareQueue \/ Tick
  \/ UNCHANGED vars

LEMMA AsideFrame == Aside => UNCHANGED <<work, stores>>
  BY DEF Aside, Receive, Unheard, Push, Restart, SessionLost, Reconnect, AmqpBreaks,
     AmqpLost,
     Stop, Drained, Close, DeclareQueue, Tick, vars

\* The steps that are left.
LEMMA StepKinds ==
  ASSUME [Next]_vars
  PROVE  \/ Aside
         \/ \E t \in Handlers, e \in Events : Request(t, e)
         \/ \E t \in Consumers : Take(t)
         \/ \E t \in Threads : Process(t)
         \/ Crash \/ DrainTimeout \/ Exit
  BY DEF Next, Run, Aside

\* Every step keeps what is saved ahead of what is queued.
LEMMA SavedStep ==
  ASSUME Structure, Structure', Saved, [Next]_vars
  PROVE  Saved'
<1> USE DEF Structure, TypeOK, Saved, QueuedIsStored
<1>1. CASE Aside
  BY <1>1, AsideFrame DEF work, stores
<1>2. ASSUME NEW t \in Handlers, NEW e \in Events, Request(t, e) PROVE Saved'
  BY <1>2 DEF Request, Threads, stores
<1>3. ASSUME NEW t \in Consumers, Take(t) PROVE Saved'
  BY <1>3 DEF Take, Consumers, Threads, stores
<1>4. ASSUME NEW t \in Threads, Decode(t) PROVE Saved'
  BY <1>4 DEF Decode, Step, stores
<1>5. ASSUME NEW t \in Threads, SaveDevice(t) PROVE Saved'
  BY <1>5 DEF SaveDevice, Step
<1>6. ASSUME NEW t \in Threads, SaveEvent(t) PROVE Saved'
  BY <1>6 DEF SaveEvent, Step
<1>7. ASSUME NEW t \in Threads, Publish(t) PROVE Saved'
  <2>1. task[t] \in Events
    BY <1>7 DEF Publish, Step, Holding
  <2>2. Range(queue') \subseteq Range(queue) \union {task[t]}
    BY <1>7, <2>1, EnqueueEffect DEF Publish
  <2>3. task[t] \in stored /\ DeviceOf[task[t]] \in devices
    BY <1>7 DEF Publish, Step
  <2> QED
    BY <1>7, <2>2, <2>3 DEF Publish, Step
<1>8. ASSUME NEW t \in Threads, ReadNow(t) PROVE Saved'
  BY <1>8 DEF ReadNow, Step, stores
<1>9. ASSUME NEW t \in Threads, SetLastSeen(t) PROVE Saved'
  BY <1>9 DEF SetLastSeen, Return, Leave
<1>10. ASSUME NEW t \in Threads, Fail(t) PROVE Saved'
  <2>1. task[t] \in Events /\ Failed(t)
    BY <1>10 DEF Fail, MayFail, Holding
  <2>2. /\ devices \subseteq devices' /\ stored \subseteq stored'
        /\ Range(queue') \subseteq Range(queue)
             \union (IF pc[t] = "publish" THEN {task[t]} ELSE {})
    BY <2>1, FailedEffect
  <2>3. /\ pc' = [pc EXCEPT ![t] = "idle"]
        /\ task' = [task EXCEPT ![t] = NoEvent]
    BY <2>1 DEF Failed, AfterError, Return, Leave
  <2> QED
    BY <2>2, <2>3
<1>11. CASE Crash \/ DrainTimeout \/ Exit
  BY <1>11 DEF Crash, DrainTimeout, Exit, Die, stores
<1> QED
  BY <1>1, <1>2, <1>3, <1>4, <1>5, <1>6, <1>7, <1>8, <1>9, <1>10, <1>11, StepKinds
  DEF Process

\* Whatever fails and whenever the process ends, what is on the queue is in Mongo,
\* with its device.
THEOREM QueuedEventsAreStored == Spec => []QueuedIsStored
<1>1. Init => Saved
  BY DEF Init, Saved, QueuedIsStored, Range
<1>2. Saved => QueuedIsStored
  BY DEF Saved
<1> QED
  BY <1>1, <1>2, StructureInit, StructureStep, SavedStep, PTL DEF Spec
-----------------------------------------------------------------------------
(* Requests and the shutdown *)

\* Mongo and Redis are closed only after the requests are gone, and no new one is
\* taken then.
OpenWhileServing ==
  /\ process \in {"running", "draining"} => open = {"mongo", "redis"}
  /\ \A t \in Handlers : pc[t] # "idle" => process \in {"running", "draining"}

\* Every step keeps the stores open while there are requests.
LEMMA OpenStep ==
  ASSUME Structure, OpenWhileServing, [Next]_vars
  PROVE  OpenWhileServing'
<1> USE IngestionAssumption DEF Structure, TypeOK, OpenWhileServing
<1>1. CASE /\ UNCHANGED <<process, open>>
           /\ \A t \in Handlers : pc'[t] # "idle" => pc[t] # "idle"
  BY <1>1
<1>2. ASSUME NEW e \in Events, Receive(e) \/ Unheard(e) PROVE OpenWhileServing'
  BY <1>1, <1>2 DEF Receive, Unheard, work, life
<1>3. ASSUME NEW t \in Handlers, NEW e \in Events, Request(t, e)
      PROVE  OpenWhileServing'
  BY <1>3 DEF Request, Threads, life
<1>4. CASE Push \/ Tick \/ SessionLost \/ Reconnect \/ AmqpBreaks \/ AmqpLost \/ DeclareQueue
           \/ UNCHANGED vars
  BY <1>1, <1>4
  DEF Push, Tick, SessionLost, Reconnect, AmqpBreaks, AmqpLost, DeclareQueue, vars,
      work, life
<1>5. ASSUME NEW t \in Consumers, Take(t) PROVE OpenWhileServing'
  BY <1>5 DEF Take, Consumers, Threads, life
<1>6. ASSUME NEW t \in Threads, Process(t) PROVE OpenWhileServing'
  <2>1. UNCHANGED <<process, open>> /\ pc[t] # "idle"
    BY <1>6 DEF Process, Decode, SaveDevice, SaveEvent, Publish, ReadNow, SetLastSeen,
       Fail, MayFail, Failed, Step, life
  <2>2. \E to \in {"device", "event", "publish", "now", "seen", "idle"} :
          pc' = [pc EXCEPT ![t] = to]
    BY <1>6 DEF Process, Decode, SaveDevice, SaveEvent, Publish, ReadNow, SetLastSeen,
       Fail, Failed, AfterError, Return, Leave, Step
  <2> QED
    BY <1>1, <2>1, <2>2
<1>7. CASE Crash \/ DrainTimeout \/ Exit
  BY <1>7 DEF Crash, DrainTimeout, Exit, Die, Threads
<1>8. CASE Restart
  BY <1>8 DEF Restart, Up, work
<1>9. CASE Stop
  BY <1>9 DEF Stop, work
<1>10. CASE Drained
  BY <1>10 DEF Drained, work
<1>11. CASE Close
  BY <1>11 DEF Close, work
<1> QED
  BY <1>2, <1>3, <1>4, <1>5, <1>6, <1>7, <1>8, <1>9, <1>10, <1>11 DEF Next, Run

\* A request in progress finds Mongo and Redis open.
THEOREM StoresStayOpen == Spec => []StoresOpenForRequests
<1>1. Init => OpenWhileServing
  BY DEF Init, OpenWhileServing, Threads
<1>2. OpenWhileServing => StoresOpenForRequests
  BY DEF OpenWhileServing, StoresOpenForRequests
<1> QED
  BY <1>1, <1>2, StructureInit, StructureStep, OpenStep, PTL DEF Spec
-----------------------------------------------------------------------------
(* Nothing leaks *)

\* An event a goroutine has published, and will not publish again, is on the
\* queue or was dropped there.
PublishedIsKnown ==
  \A t \in Threads :
    pc[t] \in {"now", "seen"} => task[t] \in Range(queue) \/ fate[task[t]] # "none"

KeepsTrack == PublishedIsKnown /\ Accounted

\* What becomes of the events in flight when one goroutine alone moves.
LEMMA InFlightOf ==
  ASSUME Structure, NEW t \in Threads, UNCHANGED <<callback, channel>>,
         \A u \in Threads \ {t} : task'[u] = task[u]
  PROVE  InFlight \subseteq InFlight' \union {task[t]}
  BY DEF InFlight

\* Every step keeps track of what was sent.
LEMMA TrackStep ==
  ASSUME Structure, Structure', KeepsTrack, [Next]_vars
  PROVE  KeepsTrack'
<1> USE DEF Structure, TypeOK, Holding, KeepsTrack, PublishedIsKnown, Accounted
<1>1. ASSUME NEW e \in Events, Receive(e) PROVE KeepsTrack'
  <2>1. InFlight' = InFlight \union {e}
    BY <1>1, IngestionAssumption DEF Receive, InFlight, work
  <2> QED
    BY <1>1, <2>1 DEF Receive, work, stores, outcome
<1>2. ASSUME NEW e \in Events, Unheard(e) PROVE KeepsTrack'
  BY <1>2 DEF Unheard, InFlight, work, stores
<1>3. ASSUME NEW t \in Handlers, NEW e \in Events, Request(t, e) PROVE KeepsTrack'
  <2>1. task' = [task EXCEPT ![t] = e] /\ t \in Threads /\ task[t] = NoEvent
    BY <1>3 DEF Request, Threads
  <2>2. InFlight' = InFlight \union {e}
    BY <1>3, <2>1, IngestionAssumption DEF Request, InFlight
  <2> QED
    BY <1>3, <2>1, <2>2 DEF Request, stores, outcome
<1>4. ASSUME Push PROVE KeepsTrack'
  <2>1. Range(channel') = Range(channel) \union {callback}
    BY <1>4, RangeAppend DEF Push
  <2>2. InFlight' = InFlight
    BY <1>4, <2>1 DEF Push, InFlight, work
  <2> QED
    BY <1>4, <2>2 DEF Push, work, stores, outcome
<1>5. ASSUME NEW t \in Consumers, Take(t) PROVE KeepsTrack'
  <2>1. t \in Threads /\ task[t] = NoEvent
    BY <1>5 DEF Take, Consumers, Threads
  <2>2. Range(channel) = {Head(channel)} \union Range(channel')
    BY <1>5, RangeHeadTail DEF Take
  <2>3. InFlight' = InFlight
    BY <1>5, <2>1, <2>2 DEF Take, InFlight
  <2> QED
    BY <1>5, <2>1, <2>3 DEF Take, stores, outcome
<1>6. ASSUME NEW t \in Threads,
             Decode(t) \/ SaveDevice(t) \/ SaveEvent(t) \/ ReadNow(t)
      PROVE  KeepsTrack'
  <2>1. UNCHANGED <<sent, callback, channel, task, queue, fate>>
    BY <1>6 DEF Decode, SaveDevice, SaveEvent, ReadNow, input, stores, outcome
  <2>2. InFlight' = InFlight
    BY <2>1 DEF InFlight
  <2>3. \A u \in Threads :
          pc'[u] \in {"now", "seen"} => pc[u] \in {"now", "seen"}
    BY <1>6 DEF Decode, SaveDevice, SaveEvent, ReadNow, Step
  <2> QED
    BY <2>1, <2>2, <2>3
<1>7. ASSUME NEW t \in Threads, Publish(t) PROVE KeepsTrack'
  <2>1. task[t] \in Events /\ Enqueue(task[t])
    BY <1>7 DEF Publish, Step
  <2>2. /\ Range(queue) \subseteq Range(queue')
        /\ task[t] \in Range(queue') \/ fate'[task[t]] # "none"
        /\ \A x \in Events : fate[x] # "none" => fate'[x] # "none"
    BY <2>1, EnqueueEffect
  <2>3. InFlight' = InFlight /\ UNCHANGED <<sent, task>>
    BY <1>7 DEF Publish, InFlight, input
  <2>4. pc' = [pc EXCEPT ![t] = "now"]
    BY <1>7 DEF Publish, Step
  <2>5. \A u \in Threads : pc[u] \in {"now", "seen"} => task[u] \in Events
    OBVIOUS
  <2> QED
    BY <2>2, <2>3, <2>4, <2>5
<1>8. ASSUME NEW t \in Threads, SetLastSeen(t) PROVE KeepsTrack'
  <2>1. /\ pc' = [pc EXCEPT ![t] = "idle"]
        /\ task' = [task EXCEPT ![t] = NoEvent]
        /\ UNCHANGED <<sent, callback, channel, queue, fate>>
    BY <1>8 DEF SetLastSeen, Return, Leave, input
  <2>2. InFlight \subseteq InFlight' \union {task[t]}
    BY <2>1, InFlightOf
  <2>3. task[t] \in Range(queue) \/ fate[task[t]] # "none"
    BY <1>8 DEF SetLastSeen
  <2> QED
    BY <2>1, <2>2, <2>3
<1>9. ASSUME NEW t \in Threads, Fail(t) PROVE KeepsTrack'
  <2>1. task[t] \in Events /\ Failed(t)
    BY <1>9 DEF Fail, MayFail
  <2>2. Range(queue) \subseteq Range(queue')
    BY <2>1, FailedEffect
  <2>3. /\ pc' = [pc EXCEPT ![t] = "idle"]
        /\ task' = [task EXCEPT ![t] = NoEvent]
        /\ fate' = [fate EXCEPT ![task[t]] = "failed"]
        /\ UNCHANGED <<sent, callback, channel>>
    BY <2>1 DEF Failed, AfterError, Return, Leave, input
  <2>4. InFlight \subseteq InFlight' \union {task[t]}
    BY <2>3, InFlightOf
  <2> QED
    BY <2>1, <2>2, <2>3, <2>4
<1>10. ASSUME Die PROVE KeepsTrack'
  <2>1. \A e \in InFlight \intersect Events : fate'[e] # "none"
    BY <1>10 DEF Die
  <2>2. \A e \in Events : fate[e] # "none" => fate'[e] # "none"
    BY <1>10 DEF Die
  <2>3. UNCHANGED <<sent, queue>> /\ \A t \in Threads : pc'[t] = "idle"
    BY <1>10 DEF Die, stores
  <2> QED
    BY <2>1, <2>2, <2>3
<1>11. CASE UNCHANGED <<sent, callback, channel, pc, task, queue, fate>>
  BY <1>11 DEF InFlight
<1> QED
  BY <1>1, <1>2, <1>3, <1>4, <1>5, <1>6, <1>7, <1>8, <1>9, <1>10, <1>11
  DEF Next, Run, Process, Crash, Restart, SessionLost, Reconnect, AmqpBreaks,
      AmqpLost, Stop,
      Drained, DrainTimeout, Close, Exit, DeclareQueue, Tick, vars, input, work,
      stores, outcome

\* No event gets lost between the callback, the channel and the stores.
THEOREM NothingLeaks == Spec => []Accounted
<1>1. Init => KeepsTrack
  BY DEF Init, KeepsTrack, PublishedIsKnown, Accounted, Threads
<1>2. KeepsTrack => Accounted
  BY DEF KeepsTrack
<1> QED
  BY <1>1, <1>2, StructureInit, StructureStep, TrackStep, PTL DEF Spec
-----------------------------------------------------------------------------
(* Order *)

Mqtt == Events \ HttpEvents

\* The event the worker has yet to publish.
Pending == IF pc[Worker] \in {"decode", "device", "event", "publish"}
           THEN {task[Worker]} ELSE {}

\* The events of MQTT go by the callback, the channel and the worker to the queue,
\* and no two of them change places on the way: what is further along was received
\* earlier.
Pushing == {callback} \ {NoEvent}
Waiting == Range(channel)
Queued  == Range(queue) \intersect Mqtt

Earlier(S, T) == \A a \in S, b \in T : Before(received, a, b)

InLine ==
  /\ Range(received) \subseteq Mqtt
  /\ Pushing \union Waiting \union Pending \union Queued \subseteq Range(received)
  /\ \A a, b \in Events : Before(channel, a, b) => Before(received, a, b)
  /\ Earlier(Waiting, Pushing)
  /\ Earlier(Pending, Waiting \union Pushing)
  /\ Earlier(Queued, Pending \union Waiting \union Pushing)
  /\ InOrder

\* Nothing that happens later changes the order of what was received, so a step that
\* receives nothing keeps the line if it only lets events go on, or drops them.
LEMMA LineShrinks ==
  ASSUME InLine, UNCHANGED <<received, queue>>,
         Pushing' \subseteq Pushing, channel' = channel \/ channel' = <<>>,
         Pending' \subseteq Pending
  PROVE  InLine'
<1>1. Waiting' \subseteq Waiting
  BY DEF Waiting, Range
<1>2. \A a, b \in Events : Before(channel', a, b) => Before(channel, a, b)
  BY DEF Before
<1> QED
  BY <1>1, <1>2 DEF InLine, Earlier, Queued, InOrder

\* The line goes on when a goroutine that is about to publish its event does so, or
\* gives up.
LEMMA LineGoesOn ==
  ASSUME Structure, InLine, NEW t \in Threads, task[t] \in Events,
         queue' = queue \/ (pc[t] = "publish" /\ queue' = Append(queue, task[t])),
         pc'[t] \in {"now", "idle"},
         \A u \in Threads \ {t} : pc'[u] = pc[u] /\ task'[u] = task[u],
         UNCHANGED <<received, callback, channel>>
  PROVE  InLine'
<1> USE IngestionAssumption DEF Structure, TypeOK, Holding
<1>1. Pushing' = Pushing /\ Waiting' = Waiting
  BY DEF Pushing, Waiting
<1>2. Pending' \subseteq Pending
  BY DEF Pending, Threads
<1>3. CASE queue' = queue
  BY <1>1, <1>2, <1>3, LineShrinks
<1>4. CASE pc[t] = "publish" /\ queue' = Append(queue, task[t])
  <2>1. /\ Range(queue') = Range(queue) \union {task[t]}
        /\ \A a, b \in Events :
             Before(queue', a, b) =>
               Before(queue, a, b) \/ (a \in Range(queue) /\ b = task[t])
    BY <1>4, RangeAppend, BeforeAppend
  <2>2. CASE t = Worker
    <3>1. Pending = {task[t]} /\ Pending' = {}
      BY <1>4, <2>2 DEF Pending
    <3>2. Queued' \subseteq Queued \union Pending
      BY <2>1, <3>1 DEF Queued
    <3>3. InOrder'
      BY <2>1, <3>1 DEF InLine, Earlier, InOrder, Queued, Mqtt
    <3> QED
      BY <1>1, <3>1, <3>2, <3>3 DEF InLine, Earlier
  <2>3. CASE t # Worker
    <3>1. task[t] \notin Mqtt
      BY <2>3 DEF Threads, Mqtt
    <3>2. Queued' = Queued /\ Pending' = Pending
      <4>1. pc'[Worker] = pc[Worker] /\ task'[Worker] = task[Worker]
        BY <2>3 DEF Threads
      <4>2. Queued' = Queued
        BY <2>1, <3>1 DEF Queued
      <4> QED
        BY <4>1, <4>2 DEF Pending
    <3>3. InOrder'
      BY <2>1, <3>1 DEF InLine, InOrder, Mqtt
    <3> QED
      BY <1>1, <3>2, <3>3 DEF InLine, Earlier
  <2> QED
    BY <2>2, <2>3
<1> QED
  BY <1>3, <1>4

\* A call that fails keeps the line.
LEMMA FailedKeepsLine ==
  ASSUME Structure, InLine, NEW t \in Threads, task[t] \in Events, Failed(t)
  PROVE  InLine'
<1>1. queue' = queue \/ (pc[t] = "publish" /\ queue' = Append(queue, task[t]))
  BY FailedEffect DEF Structure
<1>2. /\ pc' = [pc EXCEPT ![t] = "idle"]
      /\ task' = [task EXCEPT ![t] = NoEvent]
      /\ UNCHANGED <<received, callback, channel>>
  BY DEF Failed, AfterError, Return, Leave, input
<1>3. pc'[t] = "idle" /\ \A u \in Threads \ {t} : pc'[u] = pc[u] /\ task'[u] = task[u]
  BY <1>2 DEF Structure, TypeOK
<1> QED
  BY <1>1, <1>2, <1>3, LineGoesOn

\* Every step keeps the line.
LEMMA LineStep ==
  ASSUME Structure, Structure', InLine, [Next]_vars
  PROVE  InLine'
<1> USE IngestionAssumption DEF Structure, TypeOK, Holding
<1>1. ASSUME NEW e \in Events, Receive(e) PROVE InLine'
  <2>1. /\ Range(received') = Range(received) \union {e}
        /\ \A a, b \in Events : Before(received, a, b) => Before(received', a, b)
        /\ \A a \in Range(received) : Before(received', a, e)
    BY <1>1, RangeAppend, BeforeAppend DEF Receive
  <2>2. Pushing' = {e} /\ e \in Mqtt
    BY <1>1 DEF Receive, Pushing, Mqtt
  <2>3. UNCHANGED <<channel, pc, task, queue>>
    BY <1>1 DEF Receive, work, stores
  <2>4. Waiting' = Waiting /\ Pending' = Pending /\ Queued' = Queued
    BY <2>3 DEF Waiting, Pending, Queued
  <2>5. Waiting \union Pending \union Queued \subseteq Events
    BY DEF InLine, Mqtt
  <2> QED
    BY <2>1, <2>2, <2>3, <2>4, <2>5 DEF InLine, Earlier, InOrder, Mqtt
<1>2. ASSUME Push PROVE InLine'
  <2>1. /\ callback \in Events /\ callback # NoEvent
        /\ channel' = Append(channel, callback)
        /\ UNCHANGED <<received, pc, task, queue>>
    BY <1>2 DEF Push, work, stores
  <2>2. /\ Waiting' = Waiting \union Pushing
        /\ Pushing = {callback} /\ Pushing' = {}
    BY <1>2, <2>1, RangeAppend DEF Push, Waiting, Pushing
  <2>3. \A a, b \in Events :
          Before(channel', a, b) =>
            Before(channel, a, b) \/ (a \in Waiting /\ b \in Pushing)
    BY <2>1, <2>2, BeforeAppend DEF Waiting
  <2>4. Pending' = Pending /\ Queued' = Queued
    BY <2>1 DEF Pending, Queued
  <2> QED
    BY <2>1, <2>2, <2>3, <2>4 DEF InLine, Earlier, InOrder
<1>3. ASSUME NEW t \in Consumers, Take(t) PROVE InLine'
  <2>1. /\ t = Worker /\ channel # <<>>
        /\ channel' = Tail(channel)
        /\ pc' = [pc EXCEPT ![Worker] = "decode"]
        /\ task' = [task EXCEPT ![Worker] = Head(channel)]
        /\ UNCHANGED <<received, callback, queue>>
    BY <1>3 DEF Take, Consumers, stores
  <2>2. /\ Waiting = {Head(channel)} \union Waiting'
        /\ \A a, b \in Events : Before(channel', a, b) => Before(channel, a, b)
        /\ \A b \in Waiting' : Before(channel, Head(channel), b)
    BY <2>1, RangeHeadTail, BeforeTail DEF Waiting
  <2>3. Pending' = {Head(channel)}
    BY <2>1 DEF Pending, Threads
  <2>4. Pushing' = Pushing /\ Queued' = Queued
    BY <2>1 DEF Pushing, Queued
  <2>5. Waiting \subseteq Events
    BY DEF InLine, Mqtt
  <2>6. Earlier(Pending, Waiting \union Pushing)'
    <3>1. Head(channel) \in Waiting /\ Head(channel) \in Events
      BY <2>2, <2>5
    <3>2. \A b \in Waiting' : Before(received, Head(channel), b)
      BY <2>2, <2>5, <3>1 DEF InLine
    <3>3. \A b \in Pushing : Before(received, Head(channel), b)
      BY <3>1 DEF InLine, Earlier
    <3> QED
      BY <2>1, <2>3, <2>4, <3>2, <3>3 DEF Earlier
  <2> QED
    BY <2>1, <2>2, <2>3, <2>4, <2>6 DEF InLine, Earlier, InOrder
<1>4. ASSUME NEW e \in Events, Unheard(e) PROVE InLine'
  BY <1>4, LineShrinks DEF Unheard, Pushing, Pending, work, stores
<1>5. ASSUME NEW t \in Handlers, NEW e \in Events, Request(t, e) PROVE InLine'
  <2>1. t # Worker
    OBVIOUS
  <2>2. Pending' = Pending
    BY <1>5, <2>1 DEF Request, Pending, Threads
  <2> QED
    BY <1>5, <2>2, LineShrinks DEF Request, Pushing, stores
<1>6. ASSUME NEW t \in Threads, UNCHANGED <<received, callback, channel, queue>>,
             Decode(t) \/ SaveDevice(t) \/ SaveEvent(t) \/ ReadNow(t) \/ SetLastSeen(t)
      PROVE  InLine'
  <2>1. Pending' \subseteq Pending
    BY <1>6 DEF Decode, SaveDevice, SaveEvent, ReadNow, SetLastSeen, Return, Leave,
       Step, Pending, Threads
  <2> QED
    BY <1>6, <2>1, LineShrinks DEF Pushing
<1>8. ASSUME NEW t \in Threads, Publish(t) PROVE InLine'
  <2>1. task[t] \in Events /\ Enqueue(task[t])
    BY <1>8 DEF Publish, Step
  <2>2. queue' = queue \/ queue' = Append(queue, task[t])
    BY <2>1, EnqueueEffect
  <2> QED
    BY <1>8, <2>1, <2>2, LineGoesOn DEF Publish, Step, input
<1>9. ASSUME NEW t \in Threads, Fail(t) PROVE InLine'
  BY <1>9, FailedKeepsLine DEF Fail, MayFail
<1>10. ASSUME Die PROVE InLine'
  <2>1. Pending' = {} /\ Pushing' = {}
    BY <1>10 DEF Die, Pending, Pushing, Threads
  <2> QED
    BY <1>10, <2>1, LineShrinks DEF Die, stores
<1>11. CASE UNCHANGED <<received, callback, channel, pc, task, queue>>
  BY <1>11, LineShrinks DEF Pushing, Pending
<1> QED
  BY <1>1, <1>2, <1>3, <1>4, <1>5, <1>6, <1>8, <1>9, <1>10, <1>11
  DEF Next, Run, Process, Decode, SaveDevice, SaveEvent, ReadNow, SetLastSeen, Crash,
      Restart, SessionLost, Reconnect, AmqpBreaks, AmqpLost, Stop, Drained,
      DrainTimeout, Close,
      Exit, DeclareQueue, Tick, vars, input, work, stores

\* The events of MQTT go onto the queue in the order they came, each once.
THEOREM QueueKeepsOrder == Spec => []InOrder
<1>1. Init => InLine
  BY DEF Init, InLine, InOrder, Earlier, Pushing, Waiting, Pending, Queued, Before,
     Range, Threads
<1>2. InLine => InOrder
  BY DEF InLine
<1> QED
  BY <1>1, <1>2, StructureInit, StructureStep, LineStep, PTL DEF Spec
-----------------------------------------------------------------------------
(* Last-seen times *)

\* The devices that send over MQTT alone.
MqttOnly == {d \in Devices : \A e \in HttpEvents : DeviceOf[e] # d}

\* No time is ahead of the clock, and the one the worker is about to write is not
\* behind the one it wrote before.
TimesInOrder ==
  /\ \A d \in Devices : lastSeen[d] <= clock
  /\ pc[Worker] = "seen" => \A d \in MqttOnly : lastSeen[d] <= now[Worker]

\* No goroutine has read a time ahead of the clock.
NowInPast == \A t \in Threads : now[t] <= clock

\* Every step keeps the times in order, and none takes the last-seen time of such a
\* device back.
LEMMA TimesStep ==
  ASSUME Structure, Structure', NowInPast, TimesInOrder, [Next]_vars
  PROVE  /\ NowInPast'
         /\ TimesInOrder'
         /\ \A d \in MqttOnly : lastSeen'[d] >= lastSeen[d]
<1> USE IngestionAssumption DEF Structure, TypeOK, Holding, NowInPast, TimesInOrder
<1> MqttOnly \subseteq Devices
  BY DEF MqttOnly
<1> DEFINE Goal == /\ NowInPast' /\ TimesInOrder'
                   /\ \A d \in MqttOnly : lastSeen'[d] >= lastSeen[d]
<1>1. ASSUME UNCHANGED <<clock, now, lastSeen>>,
             pc'[Worker] = "seen" => pc[Worker] = "seen"
      PROVE  Goal
  BY <1>1
<1>2. ASSUME NEW t \in Threads, task[t] \in Events, UNCHANGED <<clock, now>>,
             \/ lastSeen' = lastSeen
             \/ /\ pc[t] = "seen"
                /\ lastSeen' = [lastSeen EXCEPT ![DeviceOf[task[t]]] = now[t]],
             pc' = [pc EXCEPT ![t] = "idle"]
      PROVE  Goal
  <2>1. CASE lastSeen' = lastSeen
    BY <1>2, <2>1
  <2>2. CASE t = Worker /\ lastSeen' # lastSeen
    <3>1. DeviceOf[task[t]] \in Devices /\ pc'[Worker] # "seen"
      BY <1>2, <2>2 DEF Devices
    <3>2. \A d \in Devices :
            lastSeen'[d] = lastSeen[d] \/ (lastSeen'[d] = now[Worker] /\ pc[Worker] = "seen")
      BY <1>2, <2>2, <3>1
    <3>3. \A d \in Devices : lastSeen'[d] <= clock
      BY <3>2 DEF Threads
    <3>4. \A d \in MqttOnly : lastSeen'[d] >= lastSeen[d]
      BY <3>2 DEF Threads
    <3> QED
      BY <1>2, <3>1, <3>3, <3>4
  <2>3. CASE t # Worker /\ lastSeen' # lastSeen
    <3>1. t \in Handlers /\ task[t] \in HttpEvents
      BY <1>2, <2>3 DEF Threads
    <3>2. DeviceOf[task[t]] \notin MqttOnly
      BY <3>1 DEF MqttOnly
    <3>3. \A d \in MqttOnly : lastSeen'[d] = lastSeen[d]
      BY <1>2, <2>3, <3>2
    <3>4. \A d \in Devices : lastSeen'[d] = lastSeen[d] \/ lastSeen'[d] = now[t]
      BY <1>2, <2>3
    <3>6. \A d \in Devices : lastSeen'[d] <= clock
      BY <3>4
    <3>5. pc'[Worker] = pc[Worker]
      BY <1>2, <2>3
    <3> QED
      BY <1>2, <3>3, <3>5, <3>6
  <2> QED
    BY <2>1, <2>2, <2>3
<1>3. ASSUME NEW t \in Threads, SetLastSeen(t) PROVE Goal
  BY <1>2, <1>3 DEF SetLastSeen, Return, Leave, input
<1>4. ASSUME NEW t \in Threads, Fail(t) PROVE Goal
  <2>1. task[t] \in Events /\ Failed(t)
    BY <1>4 DEF Fail, MayFail
  <2>2. \/ lastSeen' = lastSeen
        \/ /\ pc[t] = "seen"
           /\ lastSeen' = [lastSeen EXCEPT ![DeviceOf[task[t]]] = now[t]]
    BY <2>1, FailedEffect
  <2>3. pc' = [pc EXCEPT ![t] = "idle"] /\ UNCHANGED <<clock, now>>
    BY <2>1 DEF Failed, AfterError, Return, Leave
  <2> QED
    BY <1>2, <2>1, <2>2, <2>3
<1>5. ASSUME NEW t \in Threads, ReadNow(t) PROVE Goal
  <2>1. /\ now' = [now EXCEPT ![t] = clock] /\ UNCHANGED <<clock, lastSeen>>
        /\ pc' = [pc EXCEPT ![t] = "seen"]
    BY <1>5 DEF ReadNow, Step, stores
  <2>2. CASE t = Worker
    BY <2>1, <2>2
  <2>3. CASE t # Worker
    <3>1. pc'[Worker] = pc[Worker] /\ now'[Worker] = now[Worker]
      BY <2>1, <2>3 DEF Threads
    <3> QED
      BY <2>1, <3>1
  <2> QED
    BY <2>2, <2>3
<1>6. ASSUME Tick PROVE Goal
  BY <1>6 DEF Tick, work, stores, Threads
<1>7. ASSUME NEW e \in Events, Receive(e) \/ Unheard(e) PROVE Goal
  BY <1>1, <1>7 DEF Receive, Unheard, work, stores
<1>8. ASSUME NEW t \in Handlers, NEW e \in Events, Request(t, e) PROVE Goal
  BY <1>1, <1>8 DEF Request, stores
<1>9. ASSUME NEW t \in Consumers, Take(t) PROVE Goal
  BY <1>1, <1>9 DEF Take, Consumers, stores
<1>10. ASSUME NEW t \in Threads,
              Decode(t) \/ SaveDevice(t) \/ SaveEvent(t) \/ Publish(t)
       PROVE  Goal
  <2>1. UNCHANGED <<clock, now, lastSeen>>
    BY <1>10 DEF Decode, SaveDevice, SaveEvent, Publish, stores
  <2>2. \E to \in {"device", "event", "publish", "now"} : pc' = [pc EXCEPT ![t] = to]
    BY <1>10 DEF Decode, SaveDevice, SaveEvent, Publish, Step
  <2> QED
    BY <1>1, <2>1, <2>2 DEF Threads
<1>11. ASSUME Die PROVE Goal
  BY <1>1, <1>11 DEF Die, stores, Threads
<1>12. CASE UNCHANGED <<clock, pc, now, lastSeen>>
  BY <1>1, <1>12
<1> QED
  BY <1>3, <1>4, <1>5, <1>6, <1>7, <1>8, <1>9, <1>10, <1>11, <1>12
  DEF Next, Run, Process, Push, Crash, Restart, SessionLost, Reconnect, AmqpBreaks,
      AmqpLost, Stop,
      Drained, DrainTimeout, Close, Exit, DeclareQueue, vars, work, stores

\* The last-seen time of a device that sends over MQTT alone never goes back.
THEOREM LastSeenGoesForward == Spec => LastSeenMonotone
<1>1. Init => NowInPast /\ TimesInOrder
  BY DEF Init, NowInPast, TimesInOrder, MqttOnly, Threads
<1>2. Structure /\ Structure' /\ NowInPast /\ TimesInOrder /\ [Next]_vars =>
        [\A d \in Devices :
           (\A e \in HttpEvents : DeviceOf[e] # d) => lastSeen'[d] >= lastSeen[d]]_lastSeen
  BY TimesStep DEF MqttOnly
<1> QED
  BY <1>1, <1>2, StructureInit, StructureStep, TimesStep, PTL
  DEF Spec, LastSeenMonotone
-----------------------------------------------------------------------------
(* The devices *)

\* What Pipeline adds to the state keeps its types.
DevTypes ==
  /\ nth \in [Devices -> Nat] /\ \A d \in Devices : nth[d] <= Len(Script[d])
  /\ waiting \subseteq Devices /\ wire \in Seq(Mqtt)
  /\ late \subseteq HttpEvents /\ came \in [Events -> 0..MaxClock]

\* The events device d has sent.
Past(d) == {Script[d][i] : i \in 1..nth[d]}

\* Only what its device sent gets anywhere, and the worker gets none of the requests.
Known ==
  /\ \A e \in sent \union Range(wire) : e \in Events /\ e \in Past(DeviceOf[e])
  /\ Range(queue) \union Range(received) \union late \subseteq sent
  /\ \A t \in Threads : task[t] \in sent \union {NoEvent}
  /\ task[Worker] \in Mqtt \union {NoEvent}

\* A device waits for the answer to what it sent last.  The requests that are handled
\* are distinct, and a device waits for those it has not given up.
OneRequest ==
  /\ \A d \in waiting : nth[d] # 0 /\ Latest(d) \in HttpEvents
  /\ \A t, u \in Handlers : task[t] = task[u] => t = u \/ task[t] = NoEvent
  /\ \A t \in Handlers : task[t] \notin late \union {NoEvent} =>
       DeviceOf[task[t]] \in waiting /\ task[t] = Latest(DeviceOf[task[t]])

\* What the steps of the programs and of the network, other than those of the
\* devices, rest on.
World == Structure /\ InLine /\ DevTypes /\ Known /\ OneRequest

\* The script of a device has events of that device.
LEMMA ScriptHas ==
  ASSUME NEW d \in Devices
  PROVE  /\ Script[d] \in Seq(Events) /\ Len(Script[d]) \in Nat
         /\ DOMAIN Script[d] = 1..Len(Script[d])
         /\ \A i \in 1..Len(Script[d]) :
              Script[d][i] \in Events /\ DeviceOf[Script[d][i]] = d
<1>1. Script[d] \in Seq(Events)
  BY PipelineAssumption
<1>2. Len(Script[d]) \in Nat /\ DOMAIN Script[d] = 1..Len(Script[d])
  BY <1>1, LenProperties
<1>3. \A i \in 1..Len(Script[d]) : Script[d][i] \in Events
  BY <1>1, ElementOfSeq
<1> QED
  BY <1>1, <1>2, <1>3, PipelineAssumption

\* What a device sent is of its script.
LEMMA PastInScript ==
  ASSUME DevTypes, NEW d \in Devices
  PROVE  /\ Past(d) \subseteq Range(Script[d])
         /\ \A e \in Past(d) : e \in Events /\ DeviceOf[e] = d
<1>1. nth[d] \in Nat /\ nth[d] <= Len(Script[d])
  BY DEF DevTypes
<1> QED
  BY <1>1, ScriptHas DEF Past, Range

\* A device that sends goes on by one event, which comes behind all it sent before;
\* the other devices are where they were.
LEMMA Sends ==
  ASSUME DevTypes, NEW d \in Devices, Ready(d), nth' = [nth EXCEPT ![d] = @ + 1]
  PROVE  /\ nth' \in [Devices -> Nat] /\ \A c \in Devices : nth'[c] <= Len(Script[c])
         /\ Upcoming(d) \in Events /\ DeviceOf[Upcoming(d)] = d
         /\ Upcoming(d) \in Past(d)' /\ Upcoming(d) = Latest(d)' /\ nth'[d] # 0
         /\ \A c \in Devices : Past(c) \subseteq Past(c)'
         /\ \A c \in Devices \ {d} : Latest(c)' = Latest(c) /\ nth'[c] = nth[c]
         /\ \A a \in Past(d) : Before(Script[d], a, Upcoming(d))
<1> USE DEF DevTypes
<1>1. /\ nth[d] \in Nat /\ nth'[d] = nth[d] + 1
      /\ nth[d] + 1 \in 1..Len(Script[d]) /\ nth[d] + 1 <= Len(Script[d])
  BY ScriptHas DEF Ready
<1>2. nth' \in [Devices -> Nat] /\ \A c \in Devices : nth'[c] <= Len(Script[c])
  BY <1>1
<1>3. Upcoming(d) \in Events /\ DeviceOf[Upcoming(d)] = d
  BY <1>1, ScriptHas DEF Upcoming
<1>4. Upcoming(d) \in Past(d)' /\ Upcoming(d) = Latest(d)' /\ nth'[d] # 0
  BY <1>1 DEF Upcoming, Past, Latest
<1>5. \A c \in Devices \ {d} : Latest(c)' = Latest(c) /\ nth'[c] = nth[c]
  BY DEF Latest
<1>6. \A c \in Devices : Past(c) \subseteq Past(c)'
  <2>1. \A c \in Devices : nth[c] \in Nat /\ nth'[c] \in Nat /\ nth[c] <= nth'[c]
    BY <1>1, <1>2
  <2> QED
    BY <2>1 DEF Past
<1>7. \A a \in Past(d) : Before(Script[d], a, Upcoming(d))
  <2> SUFFICES ASSUME NEW i \in 1..nth[d]
               PROVE  Before(Script[d], Script[d][i], Upcoming(d))
    BY DEF Past
  <2>1. /\ i \in DOMAIN Script[d] /\ nth[d] + 1 \in DOMAIN Script[d] /\ i < nth[d] + 1
        /\ Script[d][nth[d] + 1] = Upcoming(d)
    BY <1>1, ScriptHas DEF Upcoming
  <2> QED
    BY <2>1 DEF Before
<1> QED
  BY <1>2, <1>3, <1>4, <1>5, <1>6, <1>7

\* What goes nowhere changes no more than what is known of it.
LEMMA DropKeeps ==
  ASSUME Structure, InLine, NEW e \in Events, Drop(e)
  PROVE  /\ Structure' /\ InLine'
         /\ UNCHANGED <<clock, received, callback, channel, work, stores>>
         /\ sent' = sent \union {e} /\ fate' = [fate EXCEPT ![e] = "unheard"]
<1>1. Structure'
  BY DEF Fates, Drop, Structure, TypeOK, Holding, work, stores, life
<1>2. InLine'
  BY LineShrinks DEF Drop, Pushing, Pending, work, stores
<1> QED
  BY <1>1, <1>2 DEF Drop
-----------------------------------------------------------------------------
(* The programs go on *)

\* What iot_controller does with what it got, and the requests that are cancelled.
Advance == Run \/ \E t \in Handlers : task[t] \in Events /\ Failed(t)

Early == {"decode", "device", "event", "publish"}

\* Such a step publishes one event, writes one last-seen time, or does neither; then
\* it leaves the goroutines with the events they have, at most.
Publishing(t) ==
  /\ pc[t] = "publish" /\ task[t] \in Events
  /\ queue' = Append(queue, task[t])
  /\ pc' = [pc EXCEPT ![t] = "now"] \/ pc' = [pc EXCEPT ![t] = "idle"]
  /\ task' = task \/ task' = [task EXCEPT ![t] = NoEvent]
  /\ UNCHANGED <<clock, now, lastSeen>>

Seeing(t) ==
  /\ pc[t] = "seen" /\ task[t] \in Events
  /\ lastSeen' = [lastSeen EXCEPT ![DeviceOf[task[t]]] = now[t]]
  /\ pc' = [pc EXCEPT ![t] = "idle"]
  /\ task' = [task EXCEPT ![t] = NoEvent]
  /\ UNCHANGED <<clock, now, queue>>

Quiet ==
  /\ UNCHANGED <<queue, lastSeen>>
  /\ clock <= clock'
  /\ \A t \in Handlers : task'[t] \in {task[t], NoEvent}
  /\ task'[Worker] \in {task[Worker], NoEvent} \union Waiting
  /\ \A t \in Handlers : pc'[t] \in Early => pc[t] \in Early
  /\ \A t \in Threads : now'[t] = now[t] \/ now'[t] = clock
  /\ \A t \in Threads : pc'[t] = "seen" =>
       task'[t] = task[t] /\ (now'[t] = clock \/ (pc[t] = "seen" /\ now'[t] = now[t]))

\* A step that takes one goroutine on, or none, and publishes and writes nothing.
LEMMA QuietStep ==
  ASSUME Structure, NEW t \in Threads, UNCHANGED <<queue, lastSeen, clock, now, task>>,
         NEW to \in {"device", "event", "publish", "now"},
         pc' = [pc EXCEPT ![t] = to], pc[t] \in Early
  PROVE  Quiet
  BY DEF Structure, TypeOK, Quiet, Early, Threads

\* A call that fails.
LEMMA FailedIs ==
  ASSUME Structure, NEW t \in Threads, task[t] \in Events, Failed(t)
  PROVE  Publishing(t) \/ Seeing(t) \/ Quiet
<1> USE DEF Structure, TypeOK
<1>1. /\ pc' = [pc EXCEPT ![t] = "idle"]
      /\ task' = [task EXCEPT ![t] = NoEvent]
      /\ UNCHANGED <<clock, now>>
  BY DEF Failed, AfterError, Return, Leave
<1>2. CASE /\ pc[t] = "publish" /\ queue' = Append(queue, task[t])
           /\ UNCHANGED lastSeen
  BY <1>1, <1>2 DEF Publishing
<1>3. CASE /\ pc[t] = "seen"
           /\ lastSeen' = [lastSeen EXCEPT ![DeviceOf[task[t]]] = now[t]]
           /\ UNCHANGED queue
  BY <1>1, <1>3 DEF Seeing
<1>4. CASE UNCHANGED <<queue, lastSeen>>
  BY <1>1, <1>4 DEF Quiet, Early, Threads
<1> QED
  BY <1>2, <1>3, <1>4 DEF Failed, stores

\* Every step of the programs is of one of the three kinds.
LEMMA AdvanceKinds ==
  ASSUME Structure, Advance
  PROVE  (\E t \in Threads : Publishing(t) \/ Seeing(t)) \/ Quiet
<1> DEFINE Goal == (\E t \in Threads : Publishing(t) \/ Seeing(t)) \/ Quiet
<1> USE IngestionAssumption DEF Structure, TypeOK, Holding
<1>1. ASSUME Aside PROVE Goal
  <2>1. UNCHANGED <<pc, task, now, queue, lastSeen>> /\ clock <= clock'
    BY <1>1, AsideFrame DEF work, stores, Aside, Receive, Unheard, Push, Restart,
       SessionLost, Reconnect, AmqpBreaks, AmqpLost, Stop, Drained, Close,
       DeclareQueue, Tick, vars
  <2> QED
    BY <2>1 DEF Quiet, Threads
<1>2. ASSUME NEW t \in Consumers, Take(t) PROVE Goal
  <2>1. /\ t = Worker /\ channel # <<>>
        /\ pc' = [pc EXCEPT ![Worker] = "decode"]
        /\ task' = [task EXCEPT ![Worker] = Head(channel)]
        /\ UNCHANGED <<clock, now, queue, lastSeen>>
    BY <1>2 DEF Take, Consumers, stores
  <2>2. Head(channel) \in Waiting
    BY <2>1, RangeHeadTail DEF Waiting
  <2> QED
    BY <2>1, <2>2 DEF Quiet, Threads
<1>3. ASSUME NEW t \in Threads, Decode(t) \/ SaveDevice(t) \/ SaveEvent(t) PROVE Goal
  <2>1. UNCHANGED <<queue, lastSeen, clock, now, task>>
    BY <1>3 DEF Decode, SaveDevice, SaveEvent, stores
  <2>2. \E to \in {"device", "event", "publish", "now"} :
          pc' = [pc EXCEPT ![t] = to] /\ pc[t] \in Early
    BY <1>3 DEF Decode, SaveDevice, SaveEvent, Step, Early
  <2> QED
    BY <2>1, <2>2, QuietStep
<1>4. ASSUME NEW t \in Threads, Publish(t) PROVE Goal
  <2>1. /\ task[t] \in Events /\ pc[t] = "publish" /\ pc' = [pc EXCEPT ![t] = "now"]
        /\ UNCHANGED <<clock, now, task, lastSeen>>
        /\ queue' = Append(queue, task[t]) \/ queue' = queue
    BY <1>4 DEF Publish, Step, Enqueue
  <2>2. CASE queue' = Append(queue, task[t])
    BY <2>1, <2>2 DEF Publishing
  <2>3. CASE queue' = queue
    BY <2>1, <2>3, QuietStep DEF Early
  <2> QED
    BY <2>1, <2>2, <2>3
<1>5. ASSUME NEW t \in Threads, ReadNow(t) PROVE Goal
  <2>1. /\ pc' = [pc EXCEPT ![t] = "seen"] /\ now' = [now EXCEPT ![t] = clock]
        /\ UNCHANGED <<clock, task, queue, lastSeen>>
    BY <1>5 DEF ReadNow, Step, stores
  <2> QED
    BY <2>1 DEF Quiet, Early, Threads
<1>6. ASSUME NEW t \in Threads, SetLastSeen(t) PROVE Goal
  <2>1. Seeing(t)
    BY <1>6 DEF SetLastSeen, Return, Leave, Seeing
  <2> QED
    BY <2>1
<1>7. ASSUME NEW t \in Threads, Fail(t) PROVE Goal
  BY <1>7, FailedIs DEF Fail, MayFail
<1>8. ASSUME NEW t \in Handlers, task[t] \in Events, Failed(t) PROVE Goal
  BY <1>8, FailedIs DEF Threads
<1>9. ASSUME Die PROVE Goal
  BY <1>9 DEF Die, stores, Quiet, Early, Threads
<1>10. ASSUME Push \/ Restart \/ SessionLost \/ Reconnect \/ AmqpBreaks \/ AmqpLost
              \/ Stop \/ Drained \/ Close \/ DeclareQueue \/ Tick
       PROVE  Goal
  BY <1>1, <1>10 DEF Aside
<1> QED
  BY <1>2, <1>3, <1>4, <1>5, <1>6, <1>7, <1>8, <1>9, <1>10
  DEF Advance, Run, Process, Crash, DrainTimeout, Exit

\* Such a step sends and receives nothing.
LEMMA AdvanceFrame == Advance => UNCHANGED <<sent, received>>
  BY DEF Advance, Run, Process, Failed, Push, Take, Decode, SaveDevice, SaveEvent,
     Publish, ReadNow, SetLastSeen, Fail, Crash, Restart, SessionLost, Reconnect,
     AmqpBreaks, AmqpLost, Stop, Drained, DrainTimeout, Close, Exit, DeclareQueue,
     Tick, Die, input

\* And it keeps the structure and the line.
LEMMA AdvanceKeeps ==
  ASSUME Structure, InLine, Advance
  PROVE  Structure' /\ InLine'
<1>1. CASE Run
  BY <1>1, StructureStep, LineStep DEF Next
<1>2. ASSUME NEW t \in Handlers, task[t] \in Events, Failed(t)
      PROVE  Structure' /\ InLine'
  BY <1>2, FailedKeeps, FailedKeepsLine DEF Threads
<1> QED
  BY <1>1, <1>2 DEF Advance

\* The ways of a step of Pipeline.
LEMMA PipelineKinds ==
  ASSUME World, [PipelineNext]_pvars
  PROVE  \/ \E d \in Devices : SendMqtt(d) \/ SendHttp(d) \/ Refused(d) \/ Respond(d)
         \/ Hear
         \/ Advance /\ UNCHANGED devs
         \/ UNCHANGED pvars
  BY IngestionAssumption DEF PipelineNext, Cancelled, Advance, World, DevTypes

\* A device that publishes over MQTT.
LEMMA WorldSendMqtt == \A d \in Devices : World /\ SendMqtt(d) => World'
<1> SUFFICES ASSUME NEW d \in Devices, World, SendMqtt(d) PROVE World'
  OBVIOUS
<1> DEFINE e == Upcoming(d)
<1>1. /\ Ready(d) /\ nth' = [nth EXCEPT ![d] = @ + 1] /\ wire' = Append(wire, e)
      /\ e \notin HttpEvents
      /\ UNCHANGED <<vars, waiting, late, came>>
  BY DEF SendMqtt
<1>2. /\ nth' \in [Devices -> Nat] /\ \A c \in Devices : nth'[c] <= Len(Script[c])
      /\ e \in Events /\ DeviceOf[e] = d /\ e \in Past(d)'
      /\ \A c \in Devices : Past(c) \subseteq Past(c)'
      /\ \A c \in Devices \ {d} : Latest(c)' = Latest(c) /\ nth'[c] = nth[c]
  BY <1>1, Sends DEF World
<1> HIDE DEF e
<1>3. wire' \in Seq(Mqtt) /\ Range(wire') = Range(wire) \union {e}
  <2>1. wire \in Seq(Mqtt) /\ e \in Mqtt
    BY <1>1, <1>2 DEF World, DevTypes, Mqtt
  <2>2. Append(wire, e) \in Seq(Mqtt)
    BY <2>1
  <2> QED
    BY <1>1, <2>1, <2>2, RangeAppend
<1>4. Structure' /\ InLine'
  <2>1. UNCHANGED vars
    BY <1>1
  <2> QED
    BY <2>1, StructureStep, LineStep DEF World
<1>5. DevTypes'
  BY <1>1, <1>2, <1>3 DEF World, DevTypes
<1>6. Known'
  <2>1. UNCHANGED <<sent, queue, received, task, late>>
    BY <1>1 DEF vars, input, work, stores
  <2>2. \A x \in Events : DeviceOf[x] \in Devices
    BY DEF Devices
  <2>3. \A x \in sent' \union Range(wire') : x \in Events /\ x \in Past(DeviceOf[x])'
    BY <1>2, <1>3, <2>1, <2>2 DEF World, Known
  <2> QED
    BY <2>1, <2>3 DEF World, Known
<1>7. OneRequest'
  <2>1. d \notin waiting /\ UNCHANGED <<task, waiting, late>>
    BY <1>1 DEF Ready, vars, work
  <2>2. waiting \subseteq Devices
    BY DEF World, DevTypes
  <2>3. \A c \in waiting : Latest(c)' = Latest(c) /\ nth'[c] = nth[c]
    BY <1>2, <2>1, <2>2
  <2> QED
    BY <2>1, <2>3 DEF World, OneRequest
<1> QED
  BY <1>4, <1>5, <1>6, <1>7 DEF World

\* A device that sends a request, which is accepted.
LEMMA WorldSendHttp == \A d \in Devices : World /\ SendHttp(d) => World'
<1> SUFFICES ASSUME NEW d \in Devices, World, SendHttp(d) PROVE World'
  OBVIOUS
<1> DEFINE e == Upcoming(d)
<1>1. /\ Ready(d) /\ nth' = [nth EXCEPT ![d] = @ + 1]
      /\ e \in HttpEvents
      /\ came' = [came EXCEPT ![e] = clock] /\ waiting' = waiting \union {d}
      /\ UNCHANGED <<wire, late>>
  BY DEF SendHttp
<1>2. PICK t \in Handlers : Request(t, e)
  BY DEF SendHttp
<1>3. /\ nth' \in [Devices -> Nat] /\ \A c \in Devices : nth'[c] <= Len(Script[c])
      /\ e \in Events /\ DeviceOf[e] = d /\ e \in Past(d)'
      /\ e = Latest(d)' /\ nth'[d] # 0
      /\ \A c \in Devices : Past(c) \subseteq Past(c)'
      /\ \A c \in Devices \ {d} : Latest(c)' = Latest(c) /\ nth'[c] = nth[c]
  BY <1>1, Sends DEF World
<1> HIDE DEF e
<1>4. /\ e \notin sent /\ sent' = sent \union {e}
      /\ task' = [task EXCEPT ![t] = e]
      /\ UNCHANGED <<clock, queue, received>>
  BY <1>2 DEF Request, stores
<1>5. Structure' /\ InLine'
  BY <1>2, <1>3, StructureStep, LineStep DEF World, Next
<1>6. DevTypes'
  <2>1. clock \in 0..MaxClock
    BY DEF World, Structure, TypeOK
  <2> QED
    BY <1>1, <1>3, <2>1 DEF World, DevTypes
<1>7. task \in [Threads -> Events \union {NoEvent}] /\ t \in Threads /\ Worker # t
  BY IngestionAssumption DEF World, Structure, TypeOK, Threads
<1>8. Known'
  <2>1. \A x \in Events : DeviceOf[x] \in Devices
    BY DEF Devices
  <2>2. \A x \in sent' \union Range(wire') : x \in Events /\ x \in Past(DeviceOf[x])'
    BY <1>1, <1>3, <1>4, <2>1 DEF World, Known
  <2>3. Range(queue') \union Range(received') \union late' \subseteq sent'
    BY <1>1, <1>4 DEF World, Known
  <2>4. \A u \in Threads : task'[u] \in sent' \union {NoEvent}
    BY <1>4, <1>7 DEF World, Known
  <2>5. task'[Worker] \in Mqtt \union {NoEvent}
    BY <1>4, <1>7 DEF World, Known, Threads
  <2> QED
    BY <2>2, <2>3, <2>4, <2>5 DEF Known
<1>9. OneRequest'
  <2>1. d \notin waiting
    BY <1>1 DEF Ready
  <2>2. \A c \in waiting' : nth'[c] # 0 /\ Latest(c)' \in HttpEvents
    BY <1>1, <1>3, <2>1 DEF World, OneRequest, DevTypes
  <2>3. \A u \in Handlers : task[u] # e /\ u \in Threads
    BY <1>3, <1>4, IngestionAssumption DEF World, Known, Threads
  <2>4. \A u, v \in Handlers : task'[u] = task'[v] => u = v \/ task'[u] = NoEvent
    BY <1>4, <1>7, <2>3 DEF World, OneRequest
  <2>5. ASSUME NEW u \in Handlers, task'[u] \notin late' \union {NoEvent}
        PROVE  (DeviceOf[task[u]] \in waiting /\ task[u] = Latest(DeviceOf[task[u]]))'
    <3>1. CASE u = t
      <4>1. task'[u] = e
        BY <1>4, <1>7, <3>1
      <4>2. (Latest(DeviceOf[task[u]]))' = e
        BY <1>3, <4>1 DEF Latest
      <4> QED
        BY <1>1, <1>3, <4>1, <4>2
    <3>2. CASE u # t
      <4>1. task'[u] = task[u]
        BY <1>4, <1>7, <2>3, <3>2
      <4>2. DeviceOf[task[u]] \in waiting /\ task[u] = Latest(DeviceOf[task[u]])
        BY <1>1, <2>5, <4>1 DEF World, OneRequest
      <4>3. DeviceOf[task[u]] \in Devices \ {d}
        BY <2>1, <4>2 DEF World, DevTypes
      <4>4. (Latest(DeviceOf[task[u]]))' = Latest(DeviceOf[task[u]])
        BY <1>3, <4>1, <4>3 DEF Latest
      <4> QED
        BY <1>1, <4>1, <4>2, <4>4
    <3> QED
      BY <3>1, <3>2
  <2> QED
    BY <2>2, <2>4, <2>5 DEF OneRequest
<1> QED
  BY <1>5, <1>6, <1>8, <1>9 DEF World

\* A device that is refused.
LEMMA WorldRefused == \A d \in Devices : World /\ Refused(d) => World'
<1> SUFFICES ASSUME NEW d \in Devices, World, Refused(d) PROVE World'
  OBVIOUS
<1> DEFINE e == Upcoming(d)
<1>1. /\ Ready(d) /\ nth' = [nth EXCEPT ![d] = @ + 1] /\ Drop(e)
      /\ UNCHANGED <<waiting, wire, late, came>>
  BY DEF Refused
<1>2. /\ nth' \in [Devices -> Nat] /\ \A c \in Devices : nth'[c] <= Len(Script[c])
      /\ e \in Events /\ DeviceOf[e] = d /\ e \in Past(d)'
      /\ \A c \in Devices : Past(c) \subseteq Past(c)'
      /\ \A c \in Devices \ {d} : Latest(c)' = Latest(c) /\ nth'[c] = nth[c]
  BY <1>1, Sends DEF World
<1> HIDE DEF e
<1>3. /\ Structure' /\ InLine' /\ sent' = sent \union {e}
      /\ UNCHANGED <<received, queue, task>>
  BY <1>1, <1>2, DropKeeps DEF World, work, stores
<1>4. DevTypes'
  BY <1>1, <1>2 DEF World, DevTypes
<1>5. Known'
  <2>1. \A x \in Events : DeviceOf[x] \in Devices
    BY DEF Devices
  <2>2. \A x \in sent' \union Range(wire') : x \in Events /\ x \in Past(DeviceOf[x])'
    BY <1>1, <1>2, <1>3, <2>1 DEF World, Known
  <2>3. Range(queue') \union Range(received') \union late' \subseteq sent'
    BY <1>1, <1>3 DEF World, Known
  <2> QED
    BY <1>3, <2>2, <2>3 DEF World, Known
<1>6. OneRequest'
  <2>1. d \notin waiting /\ waiting \subseteq Devices
    BY <1>1 DEF Ready, World, DevTypes
  <2>2. \A c \in waiting : Latest(c)' = Latest(c) /\ nth'[c] = nth[c]
    BY <1>2, <2>1
  <2> QED
    BY <1>1, <1>3, <2>2 DEF World, OneRequest
<1> QED
  BY <1>3, <1>4, <1>5, <1>6 DEF World

\* What iot_controller holds was sent.
LEMMA InFlightSent == World => InFlight \subseteq sent
<1> SUFFICES ASSUME World PROVE InFlight \subseteq sent
  OBVIOUS
<1>1. ({callback} \ {NoEvent}) \union Range(channel) \subseteq sent
  BY DEF World, InLine, Pushing, Waiting, Known
<1>2. \A t \in Threads : task[t] \in sent \union {NoEvent}
  BY DEF World, Known
<1> QED
  BY <1>1, <1>2 DEF InFlight

\* The end of a request for the device that sent it.
LEMMA WorldRespond == \A d \in Devices : World /\ Respond(d) => World'
<1> SUFFICES ASSUME NEW d \in Devices, World, Respond(d) PROVE World'
  OBVIOUS
<1>1. /\ d \in waiting /\ waiting' = waiting \ {d}
      /\ late' = IF Latest(d) \in InFlight THEN late \union {Latest(d)} ELSE late
      /\ UNCHANGED <<vars, nth, wire, came>>
  BY DEF Respond
<1>2. UNCHANGED <<vars, task, sent, received, queue>>
  BY <1>1 DEF vars, input, work, stores
<1>3. Structure' /\ InLine'
  BY <1>2, StructureStep, LineStep DEF World
<1>4. Latest(d) \in HttpEvents
  BY <1>1 DEF World, OneRequest
<1>5. late \subseteq late' /\ late' \subseteq late \union ({Latest(d)} \intersect InFlight)
  BY <1>1
<1>6. DevTypes'
  BY <1>1, <1>4, <1>5 DEF World, DevTypes
<1>7. Known'
  <2>1. late' \subseteq sent
    BY <1>5, InFlightSent DEF World, Known
  <2>2. \A c : Past(c)' = Past(c)
    BY <1>1 DEF Past
  <2> QED
    BY <1>1, <1>2, <2>1, <2>2 DEF World, Known
<1>8. OneRequest'
  <2>1. \A c : Latest(c)' = Latest(c)
    BY <1>1 DEF Latest
  <2>2. \A c \in waiting' : nth'[c] # 0 /\ Latest(c)' \in HttpEvents
    BY <1>1, <2>1 DEF World, OneRequest
  <2>3. ASSUME NEW u \in Handlers, task[u] \notin late' \union {NoEvent}
        PROVE  DeviceOf[task[u]] \in waiting' /\ task[u] = Latest(DeviceOf[task[u]])
    <3>1. DeviceOf[task[u]] \in waiting /\ task[u] = Latest(DeviceOf[task[u]])
      BY <1>5, <2>3 DEF World, OneRequest
    <3>2. task[u] \in InFlight
      BY <2>3 DEF InFlight, Threads
    <3>3. DeviceOf[task[u]] # d
      BY <1>1, <2>3, <3>1, <3>2
    <3> QED
      BY <1>1, <3>1, <3>3
  <2> QED
    BY <1>2, <2>1, <2>2, <2>3 DEF World, OneRequest
<1> QED
  BY <1>3, <1>6, <1>7, <1>8 DEF World

\* What the broker delivers, or loses.
LEMMA HearIs ==
  ASSUME World, Hear
  PROVE  /\ Structure' /\ InLine'
         /\ wire # <<>> /\ wire \in Seq(Mqtt) /\ Head(wire) \in Mqtt
         /\ Range(wire) = {Head(wire)} \union Range(wire')
         /\ wire' = Tail(wire) /\ wire' \in Seq(Mqtt)
         /\ sent' = sent \union {Head(wire)}
         /\ UNCHANGED <<clock, nth, waiting, late, pc, task, now, queue, lastSeen>>
         /\ \/ Receive(Head(wire)) /\ came' = [came EXCEPT ![Head(wire)] = clock]
            \/ /\ UNCHANGED <<received, came, callback, channel>>
               /\ fate' = [fate EXCEPT ![Head(wire)] = "unheard"]
<1> DEFINE e == Head(wire)
<1>1. wire # <<>> /\ wire' = Tail(wire) /\ UNCHANGED <<nth, waiting, late>>
  BY DEF Hear
<1>2. /\ wire \in Seq(Mqtt) /\ e \in Mqtt /\ wire' \in Seq(Mqtt)
      /\ Range(wire) = {e} \union Range(wire')
  <2>1. wire \in Seq(Mqtt)
    BY DEF World, DevTypes
  <2>2. e \in Mqtt /\ Tail(wire) \in Seq(Mqtt)
    BY <1>1, <2>1, HeadTailProperties
  <2> QED
    BY <1>1, <2>1, <2>2, RangeHeadTail
<1>3. e \in Events
  BY <1>2 DEF Mqtt
<1>4. \/ Receive(e) /\ came' = [came EXCEPT ![e] = clock]
      \/ Unheard(e) /\ UNCHANGED came
      \/ Drop(e) /\ UNCHANGED came
  BY DEF Hear
<1> HIDE DEF e
<1>5. CASE Receive(e) /\ came' = [came EXCEPT ![e] = clock]
  <2>1. Structure' /\ InLine'
    BY <1>3, <1>5, StructureStep, LineStep DEF World, Next
  <2>2. /\ sent' = sent \union {e}
        /\ UNCHANGED <<clock, pc, task, now, queue, lastSeen>>
    BY <1>5 DEF Receive, work, stores
  <2> QED
    BY <1>1, <1>2, <1>5, <2>1, <2>2 DEF e
<1>6. CASE (Unheard(e) \/ Drop(e)) /\ UNCHANGED came
  <2>1. Structure' /\ InLine'
    BY <1>3, <1>6, StructureStep, LineStep, DropKeeps DEF World, Next
  <2>2. /\ sent' = sent \union {e} /\ fate' = [fate EXCEPT ![e] = "unheard"]
        /\ UNCHANGED <<clock, pc, task, now, queue, lastSeen, received, callback, channel>>
    BY <1>6 DEF Unheard, Drop, work, stores
  <2> QED
    BY <1>1, <1>2, <1>6, <2>1, <2>2 DEF e
<1> QED
  BY <1>4, <1>5, <1>6

LEMMA WorldHear == World /\ Hear => World'
<1> SUFFICES ASSUME World, Hear PROVE World'
  OBVIOUS
<1> DEFINE e == Head(wire)
<1>1. /\ Structure' /\ InLine' /\ e \in Mqtt /\ wire' \in Seq(Mqtt)
      /\ Range(wire) = {e} \union Range(wire') /\ sent' = sent \union {e}
      /\ UNCHANGED <<nth, waiting, late, task, queue>>
  BY HearIs
<1>2. came' \in [Events -> 0..MaxClock] /\ Range(received') \subseteq Range(received) \union {e}
  <2>1. clock \in 0..MaxClock /\ received \in Seq(Events) /\ e \in Events
    BY <1>1 DEF World, Structure, TypeOK, Mqtt
  <2>2. came \in [Events -> 0..MaxClock]
    BY DEF World, DevTypes
  <2>3. CASE Receive(e) /\ came' = [came EXCEPT ![e] = clock]
    <3>1. received' = Append(received, e)
      BY <2>3 DEF Receive
    <3> QED
      BY <2>1, <2>2, <2>3, <3>1, RangeAppend
  <2>4. CASE UNCHANGED <<received, came>>
    BY <2>2, <2>4
  <2> QED
    BY <2>3, <2>4, HearIs
<1> HIDE DEF e
<1>3. DevTypes'
  BY <1>1, <1>2 DEF World, DevTypes
<1>4. Known'
  <2>1. \A c : Past(c)' = Past(c)
    BY <1>1 DEF Past
  <2>2. \A x \in sent' \union Range(wire') : x \in sent \union Range(wire)
    BY <1>1
  <2>3. Range(queue') \union Range(received') \union late' \subseteq sent'
    BY <1>1, <1>2 DEF World, Known
  <2> QED
    BY <1>1, <2>1, <2>2, <2>3 DEF World, Known
<1>5. OneRequest'
  BY <1>1 DEF World, OneRequest, Latest
<1> QED
  BY <1>1, <1>3, <1>4, <1>5 DEF World

\* What is published was in the hands of a goroutine.
LEMMA QueueGrows ==
  ASSUME Structure, NEW t \in Threads, Publishing(t)
  PROVE  /\ Range(queue') = Range(queue) \union {task[t]}
         /\ \A a, b : Before(queue', a, b) =>
              Before(queue, a, b) \/ (a \in Range(queue) /\ b = task[t])
  BY RangeAppend, BeforeAppend DEF Structure, TypeOK, Publishing

LEMMA WorldAdvance == World /\ Advance /\ UNCHANGED devs => World'
<1> SUFFICES ASSUME World, Advance, UNCHANGED devs PROVE World'
  OBVIOUS
<1>1. UNCHANGED <<nth, waiting, wire, late, came, sent, received>>
  BY AdvanceFrame DEF devs
<1>2. Structure' /\ InLine'
  BY AdvanceKeeps DEF World
<1>3. task \in [Threads -> Events \union {NoEvent}] /\ Worker \in Threads
  BY DEF World, Structure, TypeOK, Threads
<1>4. /\ \A t \in Handlers : task'[t] \in {task[t], NoEvent}
      /\ task'[Worker] \in {task[Worker], NoEvent} \union Waiting
      /\ Range(queue') \subseteq Range(queue) \union ({task[t] : t \in Threads} \ {NoEvent})
  <2>1. ASSUME NEW t \in Threads, Publishing(t)
        PROVE  /\ Range(queue') = Range(queue) \union {task[t]} /\ task[t] # NoEvent
               /\ \A u \in Threads : task'[u] \in {task[u], NoEvent}
    BY <1>3, <2>1, QueueGrows, IngestionAssumption DEF World, Publishing
  <2>2. ASSUME NEW t \in Threads, Seeing(t)
        PROVE  queue' = queue /\ \A u \in Threads : task'[u] \in {task[u], NoEvent}
    BY <1>3, <2>2 DEF Seeing
  <2>3. ASSUME Quiet PROVE queue' = queue
    BY <2>3 DEF Quiet
  <2> QED
    BY <2>1, <2>2, <2>3, AdvanceKinds DEF World, Quiet, Threads
<1>5. Waiting \subseteq sent /\ Waiting \subseteq Mqtt
  BY DEF World, InLine, Known
<1>6. DevTypes'
  BY <1>1 DEF World, DevTypes
<1>7. Known'
  <2>1. \A c : Past(c)' = Past(c)
    BY <1>1 DEF Past
  <2>2. \A t \in Threads : task'[t] \in sent \union {NoEvent}
    BY <1>4, <1>5 DEF World, Known, Threads
  <2>3. Range(queue') \subseteq sent
    BY <1>4 DEF World, Known
  <2>4. task'[Worker] \in Mqtt \union {NoEvent}
    BY <1>4, <1>5 DEF World, Known
  <2> QED
    BY <1>1, <2>1, <2>2, <2>3, <2>4 DEF World, Known
<1>8. OneRequest'
  <2>1. \A c : Latest(c)' = Latest(c)
    BY <1>1 DEF Latest
  <2>2. \A u \in Handlers : task'[u] # NoEvent => task'[u] = task[u]
    BY <1>4
  <2>3. \A c \in waiting' : nth'[c] # 0 /\ Latest(c)' \in HttpEvents
    BY <1>1, <2>1 DEF World, OneRequest
  <2>4. \A u, v \in Handlers : task'[u] = task'[v] => u = v \/ task'[u] = NoEvent
    BY <2>2 DEF World, OneRequest
  <2>5. ASSUME NEW u \in Handlers, task'[u] \notin late' \union {NoEvent}
        PROVE  (DeviceOf[task[u]] \in waiting /\ task[u] = Latest(DeviceOf[task[u]]))'
    <3>1. task'[u] = task[u] /\ task[u] \notin late \union {NoEvent}
      BY <1>1, <2>2, <2>5
    <3> QED
      BY <1>1, <3>1 DEF World, OneRequest, Latest
  <2> QED
    BY <2>3, <2>4, <2>5 DEF OneRequest
<1> QED
  BY <1>2, <1>6, <1>7, <1>8 DEF World

\* Every step of Pipeline keeps what it rests on.
LEMMA WorldStep == World /\ [PipelineNext]_pvars => World'
<1>1. ASSUME World, UNCHANGED pvars PROVE World'
  <2>1. UNCHANGED vars
    BY <1>1 DEF pvars
  <2>2. Structure' /\ InLine'
    BY <1>1, <2>1, StructureStep, LineStep DEF World
  <2> QED
    BY <1>1, <2>2
    DEF pvars, devs, vars, input, work, stores, World, DevTypes, Known, OneRequest,
        Past, Latest
<1> QED
  BY <1>1, PipelineKinds, WorldSendMqtt, WorldSendHttp, WorldRefused, WorldRespond,
     WorldHear, WorldAdvance

\* It holds at first.
LEMMA WorldInit == PipelineInit => World
<1> SUFFICES ASSUME PipelineInit PROVE World
  OBVIOUS
<1>1. Structure
  BY StructureInit DEF PipelineInit
<1>2. InLine
  BY DEF PipelineInit, Init, InLine, InOrder, Earlier, Pushing, Waiting, Pending,
     Queued,
     Before, Range, Threads
<1>3. DevTypes
  BY ScriptHas, IngestionAssumption DEF PipelineInit, DevTypes
<1>4. Known
  BY DEF PipelineInit, Init, Known, Range, Threads
<1>5. OneRequest
  BY DEF PipelineInit, Init, OneRequest, Threads
<1> QED
  BY <1>1, <1>2, <1>3, <1>4, <1>5 DEF World
-----------------------------------------------------------------------------
(* The order of a device *)

\* What a request has yet to publish is not on the queue.
Unpublished ==
  \A t \in Handlers : pc[t] \in Early => task[t] \notin Range(queue)

\* a is on the way of MQTT, or received, before b.
Ahead(a, b) ==
  \/ Before(received, a, b) \/ Before(wire, a, b)
  \/ a \in Range(received) /\ b \in Range(wire)

WireOrder ==
  \A d \in Devices : \A a, b \in Range(Script[d]) :
    Ahead(a, b) => Before(Script[d], a, b)

\* SerialOrder for the devices that send over HTTP; for the others it follows from
\* WireOrder and InOrder.
HttpOrder ==
  \A d \in Devices : Serial(d) /\ Range(Script[d]) \subseteq HttpEvents =>
    \A a, b \in Range(Script[d]) : Before(queue, a, b) => Before(Script[d], a, b)

Ordered == Unpublished /\ WireOrder /\ HttpOrder

\* A device that has been too late for one of its requests stays so.
LEMMA StaysLate ==
  ASSUME [PipelineNext]_pvars, World
  PROVE  late \subseteq late' /\ \A d \in Devices : Serial(d)' => Serial(d)
<1>1. late \subseteq late'
  BY PipelineKinds DEF SendMqtt, SendHttp, Refused, Respond, Hear, devs, pvars
<1> QED
  BY <1>1 DEF Serial

\* The events of a script are those of its device.
LEMMA InScript ==
  ASSUME NEW d \in Devices, NEW e \in Range(Script[d])
  PROVE  e \in Events /\ DeviceOf[e] = d
  BY ScriptHas DEF Range

\* What publishes and handles nothing new leaves what is to be published.
LEMMA UnpublishedStep ==
  ASSUME World, World', Unpublished, [PipelineNext]_pvars
  PROVE  Unpublished'
<1>1. CASE UNCHANGED <<pc, task, queue>>
  BY <1>1 DEF Unpublished
<1>2. ASSUME NEW d \in Devices, SendHttp(d) PROVE Unpublished'
  <2>1. PICK t \in Handlers : Request(t, Upcoming(d))
    BY <1>2 DEF SendHttp
  <2>2. /\ Upcoming(d) \notin sent /\ queue' = queue
        /\ task' = [task EXCEPT ![t] = Upcoming(d)] /\ pc' = [pc EXCEPT ![t] = "decode"]
    BY <2>1 DEF Request, stores
  <2>3. Upcoming(d) \notin Range(queue')
    BY <2>2 DEF World, Known
  <2> QED
    BY <2>2, <2>3 DEF World, Structure, TypeOK, Threads, Unpublished
<1>3. ASSUME Advance PROVE Unpublished'
  <2> SUFFICES ASSUME NEW u \in Handlers, pc'[u] \in Early
               PROVE  task'[u] \notin Range(queue')
    BY DEF Unpublished
  <2>1. /\ pc \in [Threads -> {"idle", "decode", "device", "event", "publish", "now", "seen"}]
        /\ task \in [Threads -> Events \union {NoEvent}]
        /\ u \in Threads /\ u # Worker
    BY IngestionAssumption DEF World, Structure, TypeOK, Threads
  <2>2. task'[u] # NoEvent
    BY <2>1 DEF World, Structure, Holding, Early
  <2>3. ASSUME NEW t \in Threads, Publishing(t) PROVE task'[u] \notin Range(queue')
    <3>1. pc[u] \in Early /\ u # t /\ task'[u] = task[u]
      BY <2>1, <2>3 DEF Publishing, Early
    <3>2. task[u] # task[t]
      <4>1. CASE t \in Handlers
        BY <2>2, <3>1, <4>1 DEF World, OneRequest
      <4>2. CASE t = Worker
        <5>1. task[t] \in Mqtt \union {NoEvent} /\ task[u] \in HttpEvents \union {NoEvent}
          BY <4>2 DEF World, Known, Structure, Holding
        <5> QED
          BY <2>2, <3>1, <5>1 DEF Mqtt
      <4> QED
        BY <4>1, <4>2 DEF Threads
    <3>3. Range(queue') = Range(queue) \union {task[t]}
      BY <2>3, QueueGrows DEF World
    <3> QED
      BY <3>1, <3>2, <3>3 DEF Unpublished
  <2>4. ASSUME NEW t \in Threads, Seeing(t) PROVE task'[u] \notin Range(queue')
    <3>1. pc[u] \in Early /\ task'[u] = task[u] /\ queue' = queue
      BY <2>1, <2>2, <2>4 DEF Seeing, Early
    <3> QED
      BY <3>1 DEF Unpublished
  <2>5. ASSUME Quiet PROVE task'[u] \notin Range(queue')
    BY <2>2, <2>5 DEF Quiet, Unpublished
  <2> QED
    BY <1>3, <2>3, <2>4, <2>5, AdvanceKinds DEF World
<1> QED
  BY <1>1, <1>2, <1>3, PipelineKinds, HearIs
  DEF SendMqtt, Refused, Respond, Drop, vars, work, stores, pvars

\* Every step keeps the order on the way of MQTT.
LEMMA WireStep ==
  ASSUME World, WireOrder, [PipelineNext]_pvars
  PROVE  WireOrder'
<1>1. CASE UNCHANGED <<received, wire>>
  BY <1>1 DEF WireOrder, Ahead
<1>2. ASSUME NEW d \in Devices, SendMqtt(d) PROVE WireOrder'
  <2> DEFINE e == Upcoming(d)
  <2>1. /\ Ready(d) /\ nth' = [nth EXCEPT ![d] = @ + 1] /\ wire' = Append(wire, e)
        /\ e \notin HttpEvents /\ received' = received
    BY <1>2 DEF SendMqtt, vars, input
  <2>2. /\ e \in Events /\ DeviceOf[e] = d
        /\ \A a \in Past(d) : Before(Script[d], a, e)
    BY <2>1, Sends DEF World
  <2> HIDE DEF e
  <2>3. \A a, b : Before(wire', a, b) =>
          Before(wire, a, b) \/ (a \in Range(wire) /\ b = e)
    <3>1. wire \in Seq(Mqtt) /\ e \in Mqtt
      BY <2>1, <2>2 DEF World, DevTypes, Mqtt
    <3> QED
      BY <2>1, <3>1, BeforeAppend
  <2>4. Range(wire') = Range(wire) \union {e}
    <3>1. wire \in Seq(Mqtt) /\ e \in Mqtt
      BY <2>1, <2>2 DEF World, DevTypes, Mqtt
    <3> QED
      BY <2>1, <3>1, RangeAppend
  <2>5. ASSUME NEW c \in Devices, NEW a \in Range(Script[c]), NEW b \in Range(Script[c]),
               a \in sent \union Range(wire), b = e
        PROVE  Before(Script[c], a, b)
    <3>1. c = d /\ DeviceOf[a] = d
      BY <2>2, <2>5, InScript
    <3>2. a \in Past(d)
      BY <2>5, <3>1 DEF World, Known
    <3> QED
      BY <2>2, <2>5, <3>1, <3>2
  <2>6. Range(received) \subseteq sent
    BY DEF World, Known
  <2>7. ASSUME NEW c \in Devices, NEW a \in Range(Script[c]), NEW b \in Range(Script[c]),
               Ahead(a, b)'
        PROVE  Before(Script[c], a, b)
    <3>1. Ahead(a, b) \/ (a \in sent \union Range(wire) /\ b = e)
      BY <2>1, <2>3, <2>4, <2>6, <2>7 DEF Ahead
    <3> QED
      BY <2>5, <3>1 DEF WireOrder
  <2> QED
    BY <2>7 DEF WireOrder
<1>3. ASSUME Hear PROVE WireOrder'
  <2> DEFINE e == Head(wire)
  <2>1. /\ wire # <<>> /\ wire \in Seq(Mqtt) /\ e \in Mqtt /\ wire' = Tail(wire)
        /\ Range(wire) = {e} \union Range(wire')
    BY <1>3, HearIs
  <2>2. /\ \A a, b : Before(wire', a, b) => Before(wire, a, b)
        /\ \A b \in Range(wire') : Before(wire, e, b)
    BY <2>1, BeforeTail
  <2>3. received' = Append(received, e) \/ received' = received
    BY <1>3, HearIs DEF Receive
  <2> HIDE DEF e
  <2>4. /\ Range(received') \subseteq Range(received) \union {e}
        /\ \A a, b : Before(received', a, b) =>
             Before(received, a, b) \/ (a \in Range(received) /\ b = e)
    <3>1. received \in Seq(Events) /\ e \in Events
      BY <2>1 DEF World, Structure, TypeOK, Mqtt
    <3>2. CASE received' = Append(received, e)
      BY <3>1, <3>2, RangeAppend, BeforeAppend
    <3>3. CASE received' = received
      BY <3>3
    <3> QED
      BY <2>3, <3>2, <3>3
  <2>5. \A a, b : Ahead(a, b)' => Ahead(a, b)
    BY <2>1, <2>2, <2>4 DEF Ahead
  <2> QED
    BY <2>5 DEF WireOrder
<1> QED
  BY <1>1, <1>2, <1>3, PipelineKinds, AdvanceFrame
  DEF SendHttp, Request, Refused, Drop, Respond, devs, vars, input, pvars

\* Every step keeps the order of the requests of a device.
LEMMA HttpStep ==
  ASSUME World, Unpublished, HttpOrder, [PipelineNext]_pvars
  PROVE  HttpOrder'
<1>1. CASE UNCHANGED queue
  BY <1>1, StaysLate DEF HttpOrder
<1>2. ASSUME NEW t \in Threads, Publishing(t) PROVE HttpOrder'
  <2> SUFFICES ASSUME NEW d \in Devices, Serial(d), Range(Script[d]) \subseteq HttpEvents,
                      NEW a \in Range(Script[d]), NEW b \in Range(Script[d]),
                      Before(queue', a, b)
               PROVE  Before(Script[d], a, b)
    BY StaysLate DEF HttpOrder
  <2>1. Before(queue, a, b) \/ (a \in Range(queue) /\ b = task[t])
    BY <1>2, QueueGrows DEF World
  <2>2. CASE a \in Range(queue) /\ b = task[t]
    <3>1. DeviceOf[a] = d /\ DeviceOf[b] = d /\ b \in Events
      BY InScript
    <3>2. t \in Handlers
      BY <2>2, <3>1, IngestionAssumption DEF World, Known, Mqtt, Threads
    <3>3. b \notin late \union {NoEvent}
      BY <3>1, IngestionAssumption DEF Serial
    <3>4. d \in waiting /\ b = Latest(d) /\ nth[d] # 0
      BY <2>2, <3>1, <3>2, <3>3 DEF World, OneRequest
    <3>5. a # b
      BY <1>2, <2>2, <3>2 DEF Publishing, Unpublished, Early
    <3>6. a \in Past(d)
      BY <2>2, <3>1 DEF World, Known
    <3>7. PICK i \in 1..nth[d] : a = Script[d][i]
      BY <3>6 DEF Past
    <3>8. /\ i \in DOMAIN Script[d] /\ nth[d] \in DOMAIN Script[d] /\ i < nth[d]
          /\ b = Script[d][nth[d]]
      <4>1. nth[d] \in Nat /\ nth[d] <= Len(Script[d])
        BY DEF World, DevTypes
      <4>2. b = Script[d][nth[d]]
        BY <3>4 DEF Latest
      <4>3. i # nth[d]
        BY <3>5, <3>7, <4>2
      <4> QED
        BY <3>4, <4>1, <4>2, <4>3, ScriptHas
    <3> QED
      BY <3>7, <3>8 DEF Before
  <2> QED
    BY <2>1, <2>2 DEF HttpOrder
<1>3. CASE Advance
  BY <1>1, <1>2, <1>3, AdvanceKinds DEF World, Seeing, Quiet
<1> QED
  BY <1>1, <1>3, PipelineKinds, HearIs
  DEF SendMqtt, SendHttp, Request, Refused, Drop, Respond, vars, stores, pvars

\* The messages of a device are on the queue in the order the device sent them.
THEOREM DeviceOrder == PipelineSpec => []SerialOrder
<1>1. PipelineInit => Ordered
  BY DEF PipelineInit, Init, Ordered, Unpublished, WireOrder, HttpOrder, Ahead, Before,
     Range, Threads, Early
<1>2. World /\ World' /\ Ordered /\ [PipelineNext]_pvars => Ordered'
  BY UnpublishedStep, WireStep, HttpStep DEF Ordered
<1>3. World /\ Ordered => SerialOrder
  <2> SUFFICES ASSUME World, Ordered PROVE SerialOrder
    OBVIOUS
  <2>1. PipelineTypeOK
    BY DEF World, Structure, DevTypes, OneRequest, PipelineTypeOK, Mqtt
  <2>2. ASSUME NEW d \in Devices, Serial(d), NEW a \in Range(Script[d]),
               NEW b \in Range(Script[d]), Before(queue, a, b)
        PROVE  Before(Script[d], a, b)
    <3>1. a \in Events /\ b \in Events
      BY InScript
    <3>2. CASE Range(Script[d]) \subseteq HttpEvents
      BY <2>2, <3>2 DEF Ordered, HttpOrder
    <3>3. CASE Range(Script[d]) \intersect HttpEvents = {}
      <4>1. Before(received, a, b)
        BY <2>2, <3>1, <3>3 DEF World, InLine, InOrder
      <4> QED
        BY <4>1 DEF Ordered, WireOrder, Ahead
    <3> QED
      BY <2>2, <3>2, <3>3 DEF Serial
  <2> QED
    BY <2>1, <2>2 DEF SerialOrder
<1> QED
  BY <1>1, <1>2, <1>3, WorldInit, WorldStep, PTL DEF PipelineSpec
-----------------------------------------------------------------------------
(* False alarms *)

\* An event is finished only by the write of its last-seen time.
LEMMA Finishes ==
  ASSUME Structure, Advance, NEW e \in Events, Finished(e)'
  PROVE  Finished(e) \/ \E t \in Threads : Seeing(t) /\ task[t] = e
<1> DEFINE Goal == Finished(e) \/ \E t \in Threads : Seeing(t) /\ task[t] = e
<1> USE DEF Structure, TypeOK, Holding
<1>1. e \in sent /\ e \notin InFlight' /\ fate'[e] \in {"none", "unrouted", "vanished"}
  BY AdvanceFrame DEF Finished
<1>2. ASSUME InFlight \subseteq InFlight', fate[e] \in {"none", "unrouted", "vanished"}
      PROVE  Goal
  BY <1>1, <1>2 DEF Finished
<1>3. ASSUME UNCHANGED <<callback, channel, task, fate>> PROVE Goal
  BY <1>1, <1>2, <1>3 DEF InFlight
<1>4. ASSUME Push PROVE Goal
  <2>1. Range(channel') = Range(channel) \union {callback}
    BY <1>4, RangeAppend DEF Push
  <2>2. InFlight' = InFlight /\ fate' = fate
    BY <1>4, <2>1 DEF Push, InFlight, work, outcome
  <2> QED
    BY <1>1, <1>2, <2>2
<1>5. ASSUME NEW t \in Consumers, Take(t) PROVE Goal
  <2>1. t \in Threads /\ task[t] = NoEvent
    BY <1>5 DEF Take, Consumers, Threads
  <2>2. Range(channel) = {Head(channel)} \union Range(channel')
    BY <1>5, RangeHeadTail DEF Take
  <2>3. InFlight' = InFlight /\ fate' = fate
    BY <1>5, <2>1, <2>2 DEF Take, InFlight, outcome
  <2> QED
    BY <1>1, <1>2, <2>3
<1>6. ASSUME NEW t \in Threads, Publish(t) PROVE Goal
  <2>1. task[t] \in Events /\ Enqueue(task[t])
    BY <1>6 DEF Publish, Step
  <2>2. InFlight' = InFlight /\ task[t] \in InFlight
    BY <1>6, <2>1, IngestionAssumption DEF Publish, InFlight, input
  <2>3. fate'[e] = fate[e]
    BY <1>1, <2>1, <2>2 DEF Enqueue
  <2> QED
    BY <1>1, <1>2, <2>2, <2>3
<1>7. ASSUME NEW t \in Threads, SetLastSeen(t) PROVE Goal
  <2>1. /\ Seeing(t) /\ fate' = fate
        /\ task' = [task EXCEPT ![t] = NoEvent] /\ UNCHANGED <<callback, channel>>
    BY <1>7 DEF SetLastSeen, Return, Leave, Seeing, input
  <2>2. InFlight \subseteq InFlight' \union {task[t]}
    BY <2>1, InFlightOf
  <2>3. CASE e = task[t]
    BY <2>1, <2>3
  <2>4. CASE e # task[t]
    BY <1>1, <2>1, <2>2, <2>4 DEF Finished
  <2> QED
    BY <2>3, <2>4
<1>8. ASSUME NEW t \in Threads, task[t] \in Events, Failed(t) PROVE Goal
  <2>1. /\ fate' = [fate EXCEPT ![task[t]] = "failed"]
        /\ task' = [task EXCEPT ![t] = NoEvent] /\ UNCHANGED <<callback, channel>>
    BY <1>8 DEF Failed, AfterError, Return, Leave, input
  <2>2. InFlight \subseteq InFlight' \union {task[t]}
    BY <2>1, InFlightOf
  <2>3. e # task[t]
    BY <1>1, <2>1
  <2> QED
    BY <1>1, <2>1, <2>2, <2>3 DEF Finished
<1>9. ASSUME NEW t \in Threads, Fail(t) PROVE Goal
  BY <1>8, <1>9 DEF Fail, MayFail
<1>10. ASSUME Die PROVE Goal
  <2>1. fate' = [x \in Events |->
                   IF x \in InFlight THEN "lost" ELSE fate[x]]
    BY <1>10 DEF Die
  <2>2. e \notin InFlight /\ fate[e] = fate'[e]
    BY <1>1, <2>1
  <2> QED
    BY <1>1, <2>2 DEF Finished
<1> QED
  BY <1>3, <1>4, <1>5, <1>6, <1>7, <1>8, <1>9, <1>10
  DEF Advance, Run, Process, Decode, SaveDevice, SaveEvent, ReadNow, Crash, Restart,
      SessionLost, Reconnect, AmqpBreaks, AmqpLost, Stop, Drained, DrainTimeout,
      Close, Exit,
      DeclareQueue, Tick, Threads, input, work, outcome

\* No time is ahead of the clock.
PastTimes ==
  /\ \A d \in Devices : lastSeen[d] <= clock
  /\ \A e \in Events : came[e] <= clock
  /\ \A t \in Threads : now[t] <= clock

\* What a goroutine is about to write is not before its event came, nor before what
\* is written: of a device that uses HTTP, because no other request of it that is
\* still waited for can write; of one that uses MQTT, because the worker alone writes.
NextTimes ==
  /\ \A t \in Threads : pc[t] = "seen" => came[task[t]] <= now[t]
  /\ \A t \in Handlers : task[t] # NoEvent /\ Serial(DeviceOf[task[t]]) =>
       lastSeen[DeviceOf[task[t]]] <= came[task[t]]
  /\ pc[Worker] = "seen" =>
       \A d \in Devices : Range(Script[d]) \intersect HttpEvents = {} =>
         lastSeen[d] <= now[Worker]

\* The last-seen time of a device covers all that is finished.
Covers ==
  \A d \in Devices : Serial(d) =>
    \A e \in Range(Script[d]) : Finished(e) => came[e] <= lastSeen[d]

SeenInOrder == PastTimes /\ NextTimes /\ Covers

\* The types of the times.
LEMMA TimesAre ==
  ASSUME World
  PROVE  /\ clock \in Nat
         /\ \A d \in Devices : lastSeen[d] \in Nat
         /\ \A e \in Events : came[e] \in Nat /\ DeviceOf[e] \in Devices
         /\ \A t \in Threads : now[t] \in Nat
         /\ \A t \in Threads : pc[t] # "idle" => task[t] \in Events
  BY IngestionAssumption DEF World, Structure, Holding, TypeOK, DevTypes, Devices

\* The time of a device that is written next is not before the one that is written.
LEMMA WritesForward ==
  ASSUME World, NextTimes, NEW t \in Threads, pc[t] = "seen", Serial(DeviceOf[task[t]])
  PROVE  lastSeen[DeviceOf[task[t]]] <= now[t]
<1> DEFINE d == DeviceOf[task[t]]
<1>1. task[t] \in Events /\ d \in Devices
  BY TimesAre
<1>2. lastSeen[d] \in Nat /\ came[task[t]] \in Nat /\ now[t] \in Nat
  BY <1>1, TimesAre
<1>3. came[task[t]] <= now[t]
  BY DEF NextTimes
<1>4. CASE t \in Handlers
  <2>1. lastSeen[d] <= came[task[t]]
    BY <1>1, <1>4, IngestionAssumption DEF NextTimes
  <2> HIDE DEF d
  <2>2. lastSeen[d] <= now[t]
    BY <1>2, <1>3, <2>1
  <2> QED
    BY <2>2 DEF d
<1>5. CASE t = Worker
  <2>1. task[t] \in Mqtt
    BY <1>1, <1>5, IngestionAssumption DEF World, Known
  <2>2. task[t] \in Range(Script[d])
    BY <1>1, PastInScript, IngestionAssumption DEF World, Known
  <2>3. Range(Script[d]) \intersect HttpEvents = {}
    BY <2>1, <2>2 DEF Mqtt, Serial
  <2> QED
    BY <1>1, <1>5, <2>3 DEF NextTimes
<1> QED
  BY <1>4, <1>5 DEF Threads

\* No other request of such a device is waited for while one writes.
LEMMA WritesAlone ==
  ASSUME World, NEW t \in Threads, pc[t] = "seen", NEW u \in Handlers, u # t,
         task[u] # NoEvent, DeviceOf[task[u]] = DeviceOf[task[t]]
  PROVE  ~Serial(DeviceOf[task[t]])
<1> SUFFICES ASSUME Serial(DeviceOf[task[t]]) PROVE FALSE
  OBVIOUS
<1> DEFINE d == DeviceOf[task[t]]
<1>1. task[t] \in Events /\ task[u] \in Events /\ task[u] \in HttpEvents /\ d \in Devices
  BY TimesAre, IngestionAssumption DEF World, Structure, Holding
<1>2. task[t] \in Range(Script[d]) /\ task[u] \in Range(Script[d])
  BY <1>1, PastInScript, IngestionAssumption DEF World, Known, Threads
<1>3. Range(Script[d]) \subseteq HttpEvents /\ Range(Script[d]) \intersect late = {}
  BY <1>1, <1>2 DEF Serial
<1>4. t \in Handlers
  BY <1>2, <1>3, IngestionAssumption DEF World, Known, Mqtt, Threads
<1>5. task[t] = Latest(d) /\ task[u] = Latest(d)
  BY <1>1, <1>2, <1>3, <1>4, IngestionAssumption DEF World, OneRequest
<1> QED
  BY <1>1, <1>4, <1>5, IngestionAssumption DEF World, OneRequest

\* A step that sends, hears, publishes or does nothing of the kind keeps the times: what
\* comes is new and comes now.
LEMMA SeenFrame ==
  ASSUME World, World', SeenInOrder, [PipelineNext]_pvars,
         UNCHANGED <<clock, now, lastSeen>>,
         \A t \in Threads : pc'[t] = "seen" => pc[t] = "seen" /\ task'[t] = task[t],
         \A t \in Handlers : task'[t] \in {task[t], NoEvent} \/ came'[task'[t]] = clock,
         \A e \in sent : came'[e] = came[e],
         \A e \in Events : came'[e] \in {came[e], clock},
         \A e \in Events : Finished(e)' => Finished(e)
  PROVE  SeenInOrder'
<1>1. PastTimes'
  <2>1. \A e \in Events : came'[e] <= clock
    BY TimesAre DEF SeenInOrder, PastTimes
  <2> QED
    BY <2>1 DEF SeenInOrder, PastTimes
<1>2. \A t \in Threads : task[t] # NoEvent => came'[task[t]] = came[task[t]]
  BY DEF World, Known
<1>3. \A t \in Threads : pc'[t] = "seen" => came'[task'[t]] <= now'[t]
  <2> SUFFICES ASSUME NEW t \in Threads, pc'[t] = "seen"
               PROVE  came'[task'[t]] <= now'[t]
    OBVIOUS
  <2>1. task[t] # NoEvent /\ task'[t] = task[t] /\ pc[t] = "seen"
    BY TimesAre, IngestionAssumption
  <2>2. came'[task'[t]] = came[task[t]] /\ now'[t] = now[t]
    BY <1>2, <2>1
  <2> QED
    BY <2>1, <2>2 DEF SeenInOrder, NextTimes
<1>4. \A t \in Handlers : (task[t] # NoEvent /\ Serial(DeviceOf[task[t]]) =>
                               lastSeen[DeviceOf[task[t]]] <= came[task[t]])'
  <2> SUFFICES ASSUME NEW t \in Handlers, task'[t] # NoEvent, Serial(DeviceOf[task[t]])'
               PROVE  lastSeen'[DeviceOf[task'[t]]] <= came'[task'[t]]
    OBVIOUS
  <2>1. task'[t] \in Events
    BY IngestionAssumption DEF World, Structure, TypeOK, Threads
  <2>2. CASE task'[t] = task[t]
    <3>1. DeviceOf[task[t]] \in Devices
      BY <2>1, <2>2 DEF Devices
    <3>2. Serial(DeviceOf[task[t]])
      <4>1. late \subseteq late'
        BY StaysLate
      <4> QED
        BY <2>2, <4>1 DEF Serial
    <3>3. lastSeen[DeviceOf[task[t]]] <= came[task[t]]
      BY <2>2, <3>2 DEF SeenInOrder, NextTimes
    <3>4. /\ came'[task'[t]] = came[task[t]]
          /\ lastSeen'[DeviceOf[task'[t]]] = lastSeen[DeviceOf[task[t]]]
      BY <1>2, <2>2 DEF Threads
    <3> QED
      BY <3>3, <3>4
  <2>3. CASE came'[task'[t]] = clock
    BY <2>1, <2>3 DEF SeenInOrder, PastTimes, Devices
  <2> QED
    BY <2>2, <2>3
<1>5. pc'[Worker] = "seen" =>
        \A d \in Devices : Range(Script[d]) \intersect HttpEvents = {} =>
          lastSeen'[d] <= now'[Worker]
  BY DEF SeenInOrder, NextTimes, Threads
<1>6. Covers'
  <2> SUFFICES ASSUME NEW d \in Devices, Serial(d)', NEW e \in Range(Script[d]),
                      Finished(e)'
               PROVE  came'[e] <= lastSeen'[d]
    BY DEF Covers
  <2>1. e \in Events /\ Finished(e) /\ Serial(d)
    BY InScript, StaysLate
  <2>2. came'[e] = came[e]
    BY <2>1 DEF Finished
  <2> QED
    BY <2>1, <2>2 DEF SeenInOrder, Covers
<1>7. NextTimes'
  BY <1>3, <1>4, <1>5 DEF NextTimes
<1> QED
  BY <1>1, <1>6, <1>7 DEF SeenInOrder

\* The write of a last-seen time.
LEMMA SeenWrite ==
  ASSUME World, World', SeenInOrder, [PipelineNext]_pvars, Advance, UNCHANGED devs,
         NEW t \in Threads, Seeing(t)
  PROVE  SeenInOrder'
<1> DEFINE d == DeviceOf[task[t]]
<1>1. /\ task[t] \in Events /\ d \in Devices /\ pc[t] = "seen"
      /\ lastSeen' = [lastSeen EXCEPT ![d] = now[t]]
      /\ pc' = [pc EXCEPT ![t] = "idle"] /\ task' = [task EXCEPT ![t] = NoEvent]
      /\ UNCHANGED <<clock, now, came, late>>
  BY DEF Seeing, Devices, devs
<1>2. /\ lastSeen'[d] = now[t]
      /\ \A c \in Devices \ {d} : lastSeen'[c] = lastSeen[c]
      /\ pc'[t] = "idle" /\ task'[t] = NoEvent
      /\ \A u \in Threads \ {t} : pc'[u] = pc[u] /\ task'[u] = task[u]
  BY <1>1 DEF World, Structure, TypeOK
<1>3. \A c \in Devices : Serial(c)' = Serial(c)
  BY <1>1 DEF Serial
<1>4. PastTimes'
  BY <1>1, <1>2 DEF SeenInOrder, PastTimes
<1>5. \A u \in Threads : pc'[u] = "seen" => came'[task'[u]] <= now'[u]
  BY <1>1, <1>2 DEF SeenInOrder, NextTimes
<1>6. \A u \in Handlers : (task[u] # NoEvent /\ Serial(DeviceOf[task[u]]) =>
                               lastSeen[DeviceOf[task[u]]] <= came[task[u]])'
  <2> SUFFICES ASSUME NEW u \in Handlers, task'[u] # NoEvent, Serial(DeviceOf[task[u]])'
               PROVE  lastSeen'[DeviceOf[task'[u]]] <= came'[task'[u]]
    OBVIOUS
  <2>1. u # t /\ u \in Threads /\ task'[u] = task[u] /\ task[u] \in Events
    BY <1>2, IngestionAssumption DEF World, Structure, TypeOK, Threads
  <2>2. DeviceOf[task[u]] \in Devices /\ Serial(DeviceOf[task[u]])
    BY <1>1, <2>1 DEF Devices, Serial
  <2>3. DeviceOf[task[u]] # d
    BY <1>1, <2>1, <2>2, WritesAlone, IngestionAssumption
  <2>4. lastSeen[DeviceOf[task[u]]] <= came[task[u]]
    BY <2>1, <2>2, IngestionAssumption DEF SeenInOrder, NextTimes
  <2> QED
    BY <1>1, <1>2, <2>1, <2>2, <2>3, <2>4
<1>7. ASSUME pc'[Worker] = "seen", NEW c \in Devices,
             Range(Script[c]) \intersect HttpEvents = {}
      PROVE  lastSeen'[c] <= now'[Worker]
  <2>1. Worker # t /\ t \in Handlers /\ pc[Worker] = "seen"
    BY <1>2, <1>7 DEF Threads
  <2>2. task[t] \in HttpEvents
    BY <1>1, <2>1, IngestionAssumption DEF World, Structure, Holding
  <2>3. task[t] \in Range(Script[d])
    BY <1>1, PastInScript, IngestionAssumption DEF World, Known
  <2>4. c # d
    BY <1>7, <2>2, <2>3
  <2>5. lastSeen[c] <= now[Worker]
    BY <1>7, <2>1 DEF SeenInOrder, NextTimes
  <2> QED
    BY <1>1, <1>2, <2>4, <2>5
<1>8. ASSUME NEW c \in Devices, Serial(c)', NEW e \in Range(Script[c]), Finished(e)'
      PROVE  came'[e] <= lastSeen'[c]
  <2>1. e \in Events /\ DeviceOf[e] = c /\ Serial(c)
    BY <1>3, <1>8, InScript
  <2>2. CASE Finished(e)
    <3>1. came[e] <= lastSeen[c]
      BY <1>8, <2>1, <2>2 DEF SeenInOrder, Covers
    <3>2. lastSeen[c] <= lastSeen'[c]
      <4>1. CASE c = d
        <5>1. lastSeen[d] <= now[t]
          BY <1>1, <2>1, <4>1, WritesForward DEF SeenInOrder
        <5> QED
          BY <1>2, <4>1, <5>1
      <4>2. CASE c # d
        BY <1>2, <4>2, TimesAre
      <4> QED
        BY <4>1, <4>2
    <3>3. came[e] \in Nat /\ lastSeen[c] \in Nat /\ lastSeen'[c] \in Nat
      BY <2>1, TimesAre DEF World, Structure, TypeOK
    <3> QED
      BY <1>1, <3>1, <3>2, <3>3
  <2>3. ASSUME NEW u \in Threads, Seeing(u), task[u] = e PROVE came'[e] <= lastSeen'[c]
    <3>1. pc[u] = "seen" /\ lastSeen'[c] = now[u]
      BY <2>1, <2>3 DEF Seeing, World, Structure, TypeOK
    <3>2. came[task[u]] <= now[u]
      BY <3>1 DEF SeenInOrder, NextTimes
    <3> QED
      BY <1>1, <2>3, <3>1, <3>2
  <2> QED
    BY <1>8, <2>1, <2>2, <2>3, Finishes DEF World
<1>9. NextTimes'
  BY <1>5, <1>6, <1>7 DEF NextTimes
<1>10. Covers'
  BY <1>8 DEF Covers
<1> QED
  BY <1>4, <1>9, <1>10 DEF SeenInOrder

\* A quiet step, after which no more is finished.
LEMMA SeenQuiet ==
  ASSUME World, World', SeenInOrder, Advance, UNCHANGED devs, Quiet,
         \A e \in Events : Finished(e)' => Finished(e)
  PROVE  SeenInOrder'
<1>1. UNCHANGED <<lastSeen, came, late>> /\ clock <= clock'
  BY DEF Quiet, devs
<1>2. /\ clock \in Nat /\ clock' \in Nat
      /\ \A d \in Devices : lastSeen[d] \in Nat
      /\ \A e \in Events : came[e] \in Nat
      /\ \A t \in Threads : now[t] \in Nat
      /\ \A t \in Threads : (pc[t] # "idle" => task[t] \in Events)'
  BY IngestionAssumption DEF World, Structure, Holding, TypeOK, DevTypes
<1>3. \A t \in Threads : now'[t] <= clock
  BY <1>2 DEF Quiet, SeenInOrder, PastTimes
<1>4. PastTimes'
  <2>1. \A t \in Threads : now'[t] \in Nat
    BY <1>2 DEF Quiet
  <2> QED
    BY <1>1, <1>2, <1>3, <2>1 DEF SeenInOrder, PastTimes
<1>5. ASSUME NEW t \in Threads, pc'[t] = "seen" PROVE came'[task'[t]] <= now'[t]
  <2>1. task'[t] = task[t] /\ task[t] \in Events
    BY <1>2, <1>5 DEF Quiet
  <2>2. CASE now'[t] = clock
    BY <1>1, <2>1, <2>2 DEF SeenInOrder, PastTimes
  <2>3. CASE pc[t] = "seen" /\ now'[t] = now[t]
    BY <1>1, <2>1, <2>3 DEF SeenInOrder, NextTimes
  <2> QED
    BY <1>5, <2>2, <2>3 DEF Quiet
<1>6. \A u \in Handlers : (task[u] # NoEvent /\ Serial(DeviceOf[task[u]]) =>
                               lastSeen[DeviceOf[task[u]]] <= came[task[u]])'
  <2> SUFFICES ASSUME NEW u \in Handlers, task'[u] # NoEvent, Serial(DeviceOf[task[u]])'
               PROVE  lastSeen'[DeviceOf[task'[u]]] <= came'[task'[u]]
    OBVIOUS
  <2>1. task'[u] = task[u]
    BY DEF Quiet
  <2>2. Serial(DeviceOf[task[u]])
    BY <1>1, <2>1 DEF Serial
  <2> QED
    BY <1>1, <2>1, <2>2 DEF SeenInOrder, NextTimes
<1>7. ASSUME pc'[Worker] = "seen", NEW d \in Devices,
             Range(Script[d]) \intersect HttpEvents = {}
      PROVE  lastSeen'[d] <= now'[Worker]
  <2>1. CASE now'[Worker] = clock
    BY <1>1, <2>1 DEF SeenInOrder, PastTimes
  <2>2. CASE pc[Worker] = "seen" /\ now'[Worker] = now[Worker]
    BY <1>1, <1>7, <2>2 DEF SeenInOrder, NextTimes
  <2> QED
    BY <1>7, <2>1, <2>2 DEF Quiet, Threads
<1>8. Covers'
  <2> SUFFICES ASSUME NEW d \in Devices, Serial(d)', NEW e \in Range(Script[d]),
                      Finished(e)'
               PROVE  came'[e] <= lastSeen'[d]
    BY DEF Covers
  <2>1. e \in Events /\ Finished(e)
    BY InScript
  <2>2. Serial(d)
    BY <1>1 DEF Serial
  <2> QED
    BY <1>1, <2>1, <2>2 DEF SeenInOrder, Covers
<1>9. NextTimes'
  BY <1>5, <1>6, <1>7 DEF NextTimes
<1> QED
  BY <1>4, <1>8, <1>9 DEF SeenInOrder

\* Every step keeps the times in order.
LEMMA SeenStep ==
  ASSUME World, World', SeenInOrder, [PipelineNext]_pvars
  PROVE  SeenInOrder'
<1> USE IngestionAssumption
<1>0. /\ pc \in [Threads -> {"idle", "decode", "device", "event", "publish", "now", "seen"}]
      /\ task \in [Threads -> Events \union {NoEvent}]
      /\ came \in [Events -> 0..MaxClock]
      /\ fate \in [Events -> Fates]
      /\ sent \subseteq Events
  BY DEF World, Structure, TypeOK, DevTypes
<1>1. CASE UNCHANGED <<vars, came>>
  <2>1. /\ UNCHANGED <<clock, now, lastSeen, pc, task, came, sent, fate>>
        /\ InFlight' = InFlight
    BY <1>1 DEF vars, input, work, stores, outcome, InFlight
  <2>2. \A e \in Events : Finished(e)' => Finished(e)
    BY <2>1 DEF Finished
  <2> QED
    BY <2>1, <2>2, SeenFrame
<1>2. ASSUME NEW d \in Devices, SendHttp(d) PROVE SeenInOrder'
  <2> DEFINE e == Upcoming(d)
  <2>1. PICK t \in Handlers : Request(t, e)
    BY <1>2 DEF SendHttp
  <2>2. /\ e \in HttpEvents /\ e \notin sent /\ sent' = sent \union {e}
        /\ came' = [came EXCEPT ![e] = clock]
        /\ task' = [task EXCEPT ![t] = e] /\ pc' = [pc EXCEPT ![t] = "decode"]
        /\ pc[t] = "idle"
        /\ UNCHANGED <<clock, now, lastSeen, callback, channel, fate>>
    BY <1>2, <2>1 DEF SendHttp, Request, stores, outcome
  <2> HIDE DEF e
  <2>3. t \in Threads /\ e \in Events /\ e # NoEvent /\ task[t] = NoEvent
    BY <2>2 DEF Threads, World, Structure, Holding
  <2>4. InFlight' = InFlight \union {e}
    BY <1>0, <2>2, <2>3 DEF InFlight
  <2>5. \A x \in Events : Finished(x)' => Finished(x)
    BY <2>2, <2>4 DEF Finished
  <2>6. \A u \in Threads : pc'[u] = "seen" => pc[u] = "seen" /\ task'[u] = task[u]
    BY <1>0, <2>2, <2>3
  <2>7. \A u \in Handlers : task'[u] \in {task[u], NoEvent} \/ came'[task'[u]] = clock
    BY <1>0, <2>2, <2>3
  <2>8. /\ \A x \in sent : came'[x] = came[x]
        /\ \A x \in Events : came'[x] \in {came[x], clock}
    BY <1>0, <2>2
  <2> QED
    BY <2>2, <2>5, <2>6, <2>7, <2>8, SeenFrame
<1>3. ASSUME NEW e \in Events, sent' = sent \union {e},
             fate' = [fate EXCEPT ![e] = "unheard"],
             UNCHANGED <<clock, now, lastSeen, pc, task, callback, channel, came>>
      PROVE  SeenInOrder'
  <2>1. InFlight' = InFlight
    BY <1>3 DEF InFlight
  <2>2. \A x \in Events : Finished(x)' => Finished(x)
    BY <1>0, <1>3, <2>1 DEF Finished
  <2> QED
    BY <1>3, <2>2, SeenFrame
<1>4. ASSUME NEW d \in Devices, Refused(d) PROVE SeenInOrder'
  <2>1. Upcoming(d) \in Events
    <3>1. Ready(d) /\ nth' = [nth EXCEPT ![d] = @ + 1]
      BY <1>4 DEF Refused
    <3> QED
      BY <3>1, Sends DEF World
  <2> QED
    BY <1>3, <1>4, <2>1 DEF Refused, Drop, work, stores
<1>5. ASSUME Hear PROVE SeenInOrder'
  <2> DEFINE e == Head(wire)
  <2>1. /\ e \in Mqtt /\ sent' = sent \union {e}
        /\ UNCHANGED <<clock, now, lastSeen, pc, task>>
        /\ \/ Receive(e) /\ came' = [came EXCEPT ![e] = clock]
           \/ /\ UNCHANGED <<received, came, callback, channel>>
              /\ fate' = [fate EXCEPT ![e] = "unheard"]
    BY <1>5, HearIs
  <2> HIDE DEF e
  <2>2. e \in Events /\ e # NoEvent
    BY <2>1 DEF Mqtt
  <2>3. CASE Receive(e) /\ came' = [came EXCEPT ![e] = clock]
    <3>1. /\ e \notin sent /\ callback = NoEvent /\ callback' = e
          /\ UNCHANGED <<channel, fate>>
      BY <2>3 DEF Receive, outcome
    <3>2. InFlight' = InFlight \union {e}
      BY <2>1, <2>2, <3>1 DEF InFlight
    <3>3. \A x \in Events : Finished(x)' => Finished(x)
      BY <2>1, <3>1, <3>2 DEF Finished
    <3>4. /\ \A x \in sent : came'[x] = came[x]
          /\ \A x \in Events : came'[x] \in {came[x], clock}
      BY <1>0, <2>3, <3>1
    <3> QED
      BY <2>1, <3>3, <3>4, SeenFrame
  <2>4. CASE /\ UNCHANGED <<received, came, callback, channel>>
             /\ fate' = [fate EXCEPT ![e] = "unheard"]
    BY <1>3, <2>1, <2>2, <2>4
  <2> QED
    BY <2>1, <2>3, <2>4
<1>6. ASSUME Advance, UNCHANGED devs PROVE SeenInOrder'
  <2>1. CASE \E t \in Threads : Seeing(t)
    BY <1>6, <2>1, SeenWrite
  <2>2. CASE ~\E t \in Threads : Seeing(t)
    <3>1. \A e \in Events : Finished(e)' => Finished(e)
      BY <1>6, <2>2, Finishes DEF World
    <3>2. CASE Quiet
      BY <1>6, <3>1, <3>2, SeenQuiet
    <3>3. ASSUME NEW t \in Threads, Publishing(t) PROVE SeenInOrder'
      <4>1. \A u \in Threads : pc'[u] = "seen" => pc[u] = "seen" /\ task'[u] = task[u]
        BY <1>0, <3>3 DEF Publishing
      <4>2. \A u \in Handlers : task'[u] \in {task[u], NoEvent}
        BY <1>0, <3>3 DEF Publishing, Threads
      <4>3. UNCHANGED <<clock, now, lastSeen, came>>
        BY <1>6, <3>3 DEF Publishing, devs
      <4> QED
        BY <3>1, <4>1, <4>2, <4>3, SeenFrame
    <3> QED
      BY <1>6, <2>2, <3>2, <3>3, AdvanceKinds DEF World
  <2> QED
    BY <2>1, <2>2
<1> QED
  BY <1>1, <1>2, <1>4, <1>5, <1>6, PipelineKinds DEF SendMqtt, Respond, pvars, devs

\* When a device is found silent, all that it sent and that went through to its
\* last-seen time came at least the gap earlier.
THEOREM AlarmsAreTrue == PipelineSpec => []NoFalseAlarm
<1>1. PipelineInit => SeenInOrder
  BY ScriptHas
  DEF PipelineInit, Init, SeenInOrder, PastTimes, NextTimes, Covers, Finished, Threads
<1>2. World /\ SeenInOrder => NoFalseAlarm
  <2> SUFFICES ASSUME World, SeenInOrder, NEW d \in Devices, Serial(d), Overdue(d),
                      NEW e \in Range(Script[d]), Finished(e)
               PROVE  clock - came[e] >= Gap
    BY DEF NoFalseAlarm
  <2>1. e \in Events /\ came[e] <= lastSeen[d] /\ clock - lastSeen[d] >= Gap
    BY InScript DEF SeenInOrder, Covers, Overdue
  <2>2. clock \in Nat /\ came[e] \in Nat /\ lastSeen[d] \in Nat /\ Gap \in Nat
    BY <2>1, TimesAre, PipelineAssumption
  <2> QED
    BY <2>1, <2>2
<1> QED
  BY <1>1, <1>2, WorldInit, WorldStep, SeenStep, PTL DEF PipelineSpec
=============================================================================
