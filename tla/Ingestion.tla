----------------------------- MODULE Ingestion -----------------------------
(***************************************************************************)
(* The iot_controller.  Events arrive over MQTT, where a callback pushes   *)
(* them into a channel that one worker empties, and over HTTP, where every *)
(* request has a goroutine.  Either way ProcessTelemetry saves the device  *)
(* and the event, publishes the event for the rule_engine and writes the   *)
(* last-seen time of the device; an error ends it, and is only logged.     *)
(***************************************************************************)
EXTENDS Naturals, Sequences, SequencesExt

CONSTANTS
  Events,          \* the events the devices send
  HttpEvents,      \* those sent over HTTP; the others go over MQTT
  Valid,           \* those that decode and validate
  DeviceOf,        \* DeviceOf[e]: the device that sends e
  NoEvent,         \* no event
  Worker,          \* the goroutine of StartWorker
  Handlers,        \* the goroutines of HTTP requests
  Cap,             \* the capacity of messageCh
  Faults,          \* what fails: "mongo", "rabbit", "redis" (calls), "mqtt",
                   \* "amqp" (connections), "crash", "stop" (SIGTERM)
  MaxDisruptions,  \* bound on lost connections, crashes and stops
  MaxClock         \* bound on the clock

Threads == Handlers \union {Worker}
Devices == {DeviceOf[e] : e \in Events}

ASSUME IngestionAssumption ==
  /\ HttpEvents \subseteq Events /\ Valid \subseteq Events
  /\ NoEvent \notin Events /\ Worker \notin Handlers
  /\ Cap \in Nat \ {0} /\ MaxDisruptions \in Nat /\ MaxClock \in Nat \ {0}

VARIABLES
  clock,       \* the time, in seconds, from 1
  sent,        \* the events sent
  received,    \* history: the events of MQTT in the order the callback got them
  callback,    \* the event the callback is pushing
  channel,     \* messageCh
  pc, task,    \* of each goroutine: its next step, and its event
  now,         \* now[t]: the time t read for SetLastSeen
  devices,     \* Mongo: the devices
  stored,      \* Mongo: the events
  queue,       \* RabbitMQ: all that was ever put on the queue
  lastSeen,    \* Redis: the last-seen times, 0 for none
  process,     \* "running", "draining", "closing", "down"
  session,     \* with the MQTT broker: "subscribed", "lost", "deaf"
  amqp,        \* the AMQP connection: "open", "broken" and nobody noticed yet,
               \* "lost", "closed"
  open,        \* the other clients main has not closed yet
  declared,    \* the rule_engine has declared the queue
  fate,        \* history: how an event was dropped, if it was
  answered,    \* the events whose requests were answered with 200
  disruptions  \* how many lost connections, crashes and stops there were

input   == <<sent, received, callback, channel>>
work    == <<pc, task, now>>
stores  == <<devices, stored, queue, lastSeen>>
life    == <<process, session, amqp, open, declared, disruptions>>
outcome == <<fate, answered>>

vars == <<clock, input, work, stores, life, outcome>>
-----------------------------------------------------------------------------
(* Helpers *)

Up == process # "down"

\* The events that only the memory of the process holds.
InFlight ==
  ({callback} \union Range(channel) \union {task[t] : t \in Threads}) \ {NoEvent}

\* MUTANT of Room: the channel is longer by one.
RoomForOneMore == Len(channel) <= Cap

Room == Len(channel) < Cap

\* MUTANT of Consumers: messages are handled by more than one goroutine.
ConsumersAll == Threads

\* Who receives from messageCh.
Consumers == {Worker}

\* Subscribe may fail; main ignores the error of StartConsumer.
Sessions == {"subscribed"} \union (IF "mqtt" \in Faults THEN {"deaf"} ELSE {})

Step(t, from, to) == pc[t] = from /\ pc' = [pc EXCEPT ![t] = to]

Leave(t) ==
  /\ pc'   = [pc EXCEPT ![t] = "idle"]
  /\ task' = [task EXCEPT ![t] = NoEvent]
  /\ UNCHANGED now

Disrupt(kind) ==
  /\ kind \in Faults
  /\ disruptions < MaxDisruptions
  /\ disruptions' = disruptions + 1

Init ==
  /\ clock = 1
  /\ sent = {} /\ received = <<>> /\ callback = NoEvent /\ channel = <<>>
  /\ pc   = [t \in Threads |-> "idle"]
  /\ task = [t \in Threads |-> NoEvent]
  /\ now  = [t \in Threads |-> 0]
  /\ devices = {} /\ stored = {} /\ queue = <<>>
  /\ lastSeen = [d \in Devices |-> 0]
  /\ process = "running" /\ session \in Sessions /\ amqp = "open"
  /\ open = {"mongo", "redis"} /\ declared \in BOOLEAN /\ disruptions = 0
  /\ fate = [e \in Events |-> "none"] /\ answered = {}
-----------------------------------------------------------------------------
(* Events arrive *)

\* The MQTT client runs the callback for one message at a time.
Receive(e) ==
  /\ e \notin sent \union HttpEvents
  /\ Up /\ session = "subscribed" /\ callback = NoEvent
  /\ sent'     = sent \union {e}
  /\ received' = Append(received, e)
  /\ callback' = e
  /\ UNCHANGED <<clock, channel, work, stores, life, outcome>>

\* The session is clean: what is sent while nobody is subscribed is dropped.
Unheard(e) ==
  /\ e \notin sent \union HttpEvents
  /\ ~(Up /\ session = "subscribed")
  /\ sent' = sent \union {e}
  /\ fate' = [fate EXCEPT ![e] = "unheard"]
  /\ UNCHANGED <<clock, received, callback, channel, work, stores, life, answered>>

\* MUTANT of Push: what finds the channel full is dropped.
PushOrDrop ==
  /\ callback # NoEvent
  /\ channel'  = IF Room THEN Append(channel, callback) ELSE channel
  /\ callback' = NoEvent
  /\ UNCHANGED <<clock, sent, received, work, stores, life, outcome>>

\* The callback blocks until there is room.
Push ==
  /\ callback # NoEvent
  /\ Room
  /\ channel'  = Append(channel, callback)
  /\ callback' = NoEvent
  /\ UNCHANGED <<clock, sent, received, work, stores, life, outcome>>

Take(t) ==
  /\ Up
  /\ pc[t] = "idle" /\ channel # <<>>
  /\ pc'      = [pc EXCEPT ![t] = "decode"]
  /\ task'    = [task EXCEPT ![t] = Head(channel)]
  /\ channel' = Tail(channel)
  /\ UNCHANGED <<clock, now, sent, received, callback, stores, life, outcome>>

Request(t, e) ==
  /\ e \in HttpEvents \ sent
  /\ process = "running" /\ pc[t] = "idle"
  /\ pc'   = [pc EXCEPT ![t] = "decode"]
  /\ task' = [task EXCEPT ![t] = e]
  /\ sent' = sent \union {e}
  /\ UNCHANGED <<clock, now, received, callback, channel, stores, life, outcome>>
-----------------------------------------------------------------------------
(* ProcessTelemetry *)

\* The handler returns: render.Status sets no status, so an HTTP request is
\* answered with 200 whatever happened.
Return(t) ==
  /\ Leave(t)
  /\ answered' = IF t \in Handlers THEN answered \union {task[t]} ELSE answered

Decode(t) ==
  /\ task[t] \in Valid
  /\ Step(t, "decode", "device")
  /\ UNCHANGED <<clock, input, task, now, stores, life, outcome>>

SaveDevice(t) ==
  /\ "mongo" \in open
  /\ Step(t, "device", "event")
  /\ devices' = devices \union {DeviceOf[task[t]]}
  /\ UNCHANGED <<clock, input, task, now, stored, queue, lastSeen, life, outcome>>

SaveEvent(t) ==
  /\ "mongo" \in open
  /\ Step(t, "event", "publish")
  /\ stored' = stored \union {task[t]}
  /\ UNCHANGED <<clock, input, task, now, devices, queue, lastSeen, life, outcome>>

\* The event is written to the connection and no confirm is waited for.  A broken
\* connection takes it nowhere; the default exchange drops what comes before the
\* queue is declared: the flag mandatory is off.
Enqueue(e) ==
  \/ /\ amqp = "open" /\ declared
     /\ queue' = Append(queue, e) /\ UNCHANGED fate
  \/ /\ amqp = "open" /\ ~declared
     /\ fate' = [fate EXCEPT ![e] = "unrouted"] /\ UNCHANGED queue
  \/ /\ amqp = "broken"
     /\ fate' = [fate EXCEPT ![e] = "vanished"] /\ UNCHANGED queue

\* It returns without an error in each case.
Publish(t) ==
  /\ Step(t, "publish", "now")
  /\ Enqueue(task[t])
  /\ UNCHANGED <<clock, input, task, now, devices, stored, lastSeen, life, answered>>

ReadNow(t) ==
  /\ Step(t, "now", "seen")
  /\ now' = [now EXCEPT ![t] = clock]
  /\ UNCHANGED <<clock, input, task, stores, life, outcome>>

SetLastSeen(t) ==
  /\ pc[t] = "seen" /\ "redis" \in open
  /\ lastSeen' = [lastSeen EXCEPT ![DeviceOf[task[t]]] = now[t]]
  /\ Return(t)
  /\ UNCHANGED <<clock, input, devices, stored, queue, life, fate>>

\* The step of t that fails: what it needs refuses it or is gone.
MayFail(t) ==
  \/ pc[t] = "decode" /\ task[t] \notin Valid
  \/ pc[t] \in {"device", "event"} /\ ("mongo" \in Faults \/ "mongo" \notin open)
  \/ pc[t] = "publish" /\ ("rabbit" \in Faults \/ amqp # "open")
  \/ pc[t] = "seen" /\ ("redis" \in Faults \/ "redis" \notin open)

\* MUTANT of AfterError: the worker returns from its loop on an error.
AfterErrorEnds(t) ==
  IF t = Worker THEN /\ pc' = [pc EXCEPT ![t] = "ended"]
                     /\ task' = [task EXCEPT ![t] = NoEvent]
                     /\ UNCHANGED <<now, answered>>
                ELSE Return(t)

\* The error is logged.
AfterError(t) == Return(t)

\* A step fails, without effect or with one that was not confirmed.
Failed(t) ==
  /\ fate' = [fate EXCEPT ![task[t]] = "failed"]
  /\ \/ UNCHANGED stores
     \/ /\ pc[t] = "device" /\ "mongo" \in open
        /\ devices' = devices \union {DeviceOf[task[t]]}
        /\ UNCHANGED <<stored, queue, lastSeen>>
     \/ /\ pc[t] = "event" /\ "mongo" \in open
        /\ stored' = stored \union {task[t]}
        /\ UNCHANGED <<devices, queue, lastSeen>>
     \/ /\ pc[t] = "publish" /\ amqp = "open" /\ declared
        /\ queue' = Append(queue, task[t])
        /\ UNCHANGED <<devices, stored, lastSeen>>
     \/ /\ pc[t] = "seen" /\ "redis" \in open
        /\ lastSeen' = [lastSeen EXCEPT ![DeviceOf[task[t]]] = now[t]]
        /\ UNCHANGED <<devices, stored, queue>>
  /\ AfterError(t)
  /\ UNCHANGED <<clock, input, life>>

Fail(t) == MayFail(t) /\ Failed(t)

\* MUTANT of Process: the event is published before it is saved.
ProcessPublishFirst(t) ==
  \/ Decode(t) \/ ReadNow(t) \/ SetLastSeen(t) \/ Fail(t)
  \/ /\ Step(t, "device", "event") /\ Enqueue(task[t])
     /\ UNCHANGED <<clock, input, task, now, devices, stored, lastSeen, life, answered>>
  \/ /\ "mongo" \in open /\ Step(t, "event", "publish")
     /\ devices' = devices \union {DeviceOf[task[t]]}
     /\ UNCHANGED <<clock, input, task, now, stored, queue, lastSeen, life, outcome>>
  \/ /\ "mongo" \in open /\ Step(t, "publish", "now")
     /\ stored' = stored \union {task[t]}
     /\ UNCHANGED <<clock, input, task, now, devices, queue, lastSeen, life, outcome>>

Process(t) ==
  \/ Decode(t) \/ SaveDevice(t) \/ SaveEvent(t) \/ Publish(t)
  \/ ReadNow(t) \/ SetLastSeen(t) \/ Fail(t)
-----------------------------------------------------------------------------
(* The life of the process *)

\* The process ends and takes with it what it holds.
Die ==
  /\ process'  = "down"
  /\ callback' = NoEvent /\ channel' = <<>>
  /\ pc'       = [t \in Threads |-> "idle"]
  /\ task'     = [t \in Threads |-> NoEvent]
  /\ fate'     = [e \in Events |->
                    IF e \in InFlight THEN "lost" ELSE fate[e]]
  /\ UNCHANGED <<clock, sent, received, now, stores, session, amqp, open, declared,
                 answered>>

Crash == Up /\ Disrupt("crash") /\ Die

Restart ==
  /\ ~Up
  /\ process' = "running" /\ session' \in Sessions /\ amqp' = "open"
  /\ open' = {"mongo", "redis"}
  /\ UNCHANGED <<clock, input, work, stores, declared, disruptions, outcome>>

\* The client reconnects by itself; OnConnect does not subscribe again.
SessionLost ==
  /\ Up /\ session = "subscribed" /\ Disrupt("mqtt")
  /\ session' = "lost"
  /\ UNCHANGED <<clock, input, work, stores, process, amqp, open, declared, outcome>>

Reconnect ==
  /\ Up /\ session = "lost"
  /\ session' = "deaf"
  /\ UNCHANGED <<clock, input, work, stores, process, amqp, open, declared,
                 disruptions, outcome>>

\* The AMQP connection breaks; what was written to it and did not arrive counts as
\* written after that.
AmqpBreaks ==
  /\ Up /\ amqp = "open" /\ Disrupt("amqp")
  /\ amqp' = "broken"
  /\ UNCHANGED <<clock, input, work, stores, process, session, open, declared,
                 outcome>>

\* The client notices; the connection is dialled once.
AmqpLost ==
  /\ Up /\ amqp = "broken"
  /\ amqp' = "lost"
  /\ UNCHANGED <<clock, input, work, stores, process, session, open, declared,
                 disruptions, outcome>>

Stop ==
  /\ process = "running" /\ Disrupt("stop")
  /\ process' = "draining"
  /\ UNCHANGED <<clock, input, work, stores, session, amqp, open, declared, outcome>>

\* MUTANT of Drained: the server is closed instead of shut down.
DrainedAtOnce ==
  /\ process = "draining"
  /\ process' = "closing"
  /\ UNCHANGED <<clock, input, work, stores, session, amqp, open, declared,
                 disruptions, outcome>>

\* Server.Shutdown waits for the requests, not for the worker.
Drained ==
  /\ process = "draining" /\ \A t \in Handlers : pc[t] = "idle"
  /\ process' = "closing"
  /\ UNCHANGED <<clock, input, work, stores, session, amqp, open, declared,
                 disruptions, outcome>>

\* It waits for 30 seconds; main then calls log.Fatalf.
DrainTimeout ==
  /\ process = "draining" /\ \E t \in Handlers : pc[t] # "idle"
  /\ Die
  /\ UNCHANGED disruptions

\* Mongo, RabbitMQ and Redis are closed in this order.
Close ==
  /\ process = "closing"
  /\ \/ "mongo" \in open /\ open' = open \ {"mongo"} /\ UNCHANGED amqp
     \/ "mongo" \notin open /\ amqp = "open" /\ amqp' = "closed" /\ UNCHANGED open
     \/ amqp = "closed" /\ "redis" \in open /\ open' = {} /\ UNCHANGED amqp
  /\ UNCHANGED <<clock, input, work, stores, process, session, declared,
                 disruptions, outcome>>

\* main returns, or dies because the AMQP connection it closes was lost before.
Exit ==
  /\ process = "closing"
  /\ open = {} \/ (open = {"redis"} /\ amqp = "lost")
  /\ Die
  /\ UNCHANGED disruptions

\* The rule_engine starts for the first time.
DeclareQueue ==
  /\ ~declared
  /\ declared' = TRUE
  /\ UNCHANGED <<clock, input, work, stores, process, session, amqp, open,
                 disruptions, outcome>>

Tick ==
  /\ clock < MaxClock
  /\ clock' = clock + 1
  /\ UNCHANGED <<input, work, stores, life, outcome>>
-----------------------------------------------------------------------------
\* What the program does with what it got, and what happens to it.
Run ==
  \/ Push \/ \E t \in Consumers : Take(t)
  \/ \E t \in Threads : Process(t)
  \/ Crash \/ Restart \/ SessionLost \/ Reconnect \/ AmqpBreaks \/ AmqpLost
  \/ Stop \/ Drained \/ DrainTimeout \/ Close \/ Exit
  \/ DeclareQueue \/ Tick

Next ==
  \/ \E e \in Events : Receive(e) \/ Unheard(e) \/ \E t \in Handlers : Request(t, e)
  \/ Run

Spec == Init /\ [][Next]_vars

\* The goroutines run.
FairSpec ==
  /\ Spec
  /\ WF_vars(Push)
  /\ \A t \in Consumers : WF_vars(Take(t))
  /\ \A t \in Threads : WF_vars(Process(t))
-----------------------------------------------------------------------------
(* Properties *)

\* How an event was dropped: nobody was subscribed, the queue was not declared, it
\* was written to a broken connection, a step failed, the process ended.
Fates == {"none", "unheard", "unrouted", "vanished", "failed", "lost"}

\* The type invariant; messageCh never holds more than its capacity.
TypeOK ==
  /\ clock \in 1..MaxClock /\ sent \subseteq Events
  /\ received \in Seq(Events) /\ callback \in Events \union {NoEvent}
  /\ channel \in Seq(Events) /\ Len(channel) <= Cap
  /\ pc \in [Threads -> {"idle", "decode", "device", "event", "publish", "now", "seen"}]
  /\ task \in [Threads -> Events \union {NoEvent}]
  /\ now \in [Threads -> 0..MaxClock]
  /\ devices \subseteq Devices /\ stored \subseteq Events /\ queue \in Seq(Events)
  /\ lastSeen \in [Devices -> 0..MaxClock]
  /\ process \in {"running", "draining", "closing", "down"}
  /\ session \in {"subscribed", "lost", "deaf"}
  /\ amqp \in {"open", "broken", "lost", "closed"} /\ open \subseteq {"mongo", "redis"}
  /\ declared \in BOOLEAN /\ disruptions \in 0..MaxDisruptions
  /\ fate \in [Events -> Fates]
  /\ answered \subseteq Events

\* Whatever fails and whenever the process ends, an event reaches the rules only
\* after it and its device are in Mongo.
QueuedIsStored ==
  \A e \in Range(queue) : e \in stored /\ DeviceOf[e] \in devices

\* No event gets lost between the callback, the channel and the stores: it is in
\* flight, on the queue, or it was refused, dropped by a broker, lost with the
\* process or with a connection that broke before the unconfirmed publish arrived.
\* A full channel holds the callback up and drops nothing.
Accounted ==
  \A e \in sent : e \in InFlight \union Range(queue) \/ fate[e] # "none"

\* s has a somewhere before b.
Before(s, a, b) ==
  \E i, j \in DOMAIN s : i < j /\ s[i] = a /\ s[j] = b

\* The events of MQTT go onto the queue in the order they came, each once: the
\* windows of the rule_engine count on it.
InOrder ==
  \A a, b \in Events \ HttpEvents : Before(queue, a, b) => Before(received, a, b)

\* The last-seen time of a device that sends over MQTT alone never goes back: the
\* gap the inactivity rules measure does not grow because of an old write.
LastSeenMonotone ==
  [][\A d \in Devices :
       (\A e \in HttpEvents : DeviceOf[e] # d) => lastSeen'[d] >= lastSeen[d]]_lastSeen

\* A request in progress finds Mongo and Redis open: they are closed only when
\* the server has waited for it.
StoresOpenForRequests ==
  \A t \in Handlers : pc[t] # "idle" => open = {"mongo", "redis"}

\* Every event that is sent is settled: one that fails does not hold up those
\* behind it.
Settles ==
  \A e \in Events : e \in sent ~> e \in Range(queue) \/ fate[e] # "none"

\* A client of POST /telemetry that is answered with 200 has its event stored.
AnsweredMeansStored ==
  \A e \in answered : e \in stored
=============================================================================
