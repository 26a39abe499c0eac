------------------------------ MODULE Pipeline ------------------------------
(***************************************************************************)
(* From the device to the alarm that it is silent, across the programs.    *)
(* The devices of data_simulator, each a goroutine that sends one event    *)
(* after the other, over MQTT without waiting or over HTTP waiting for the *)
(* answer; iot_controller, which is Ingestion; and what rule_engine reads  *)
(* of it: the order of the queue, which its windows count on, and the      *)
(* last-seen times, from which the liveness worker tells that a device is  *)
(* silent (LivenessWorker has its rounds, its scopes and the fractions of  *)
(* a second).                                                              *)
(***************************************************************************)
EXTENDS Ingestion

CONSTANTS
  Script,  \* Script[d]: the events device d sends, in that order
  Gap      \* max_gap_sec of an inactivity rule for every device

ASSUME PipelineAssumption ==
  /\ Script \in [Devices -> Seq(Events)]
  /\ \A d \in Devices : \A i \in DOMAIN Script[d] : DeviceOf[Script[d][i]] = d
  /\ Gap \in Nat \ {0}

VARIABLES
  nth,      \* nth[d]: how many events device d has sent
  waiting,  \* the devices that wait for an answer
  wire,     \* the events the MQTT broker still has to deliver
  late,     \* the requests a device stopped waiting for
  came      \* history: came[e]: when e came to iot_controller, 0 if it did not

devs  == <<nth, waiting, wire, late, came>>
pvars == <<vars, devs>>
-----------------------------------------------------------------------------
(* Helpers *)

\* The event device d sends next, and the one it sent last.
Upcoming(d) == Script[d][nth[d] + 1]
Latest(d)   == Script[d][nth[d]]

\* The ticker of device d may fire.
Ready(d) == d \notin waiting /\ nth[d] < Len(Script[d])

\* e came to iot_controller, no call failed, and its last-seen time is written,
\* whether or not the queue has it.
Finished(e) ==
  e \in sent \ InFlight /\ fate[e] \in {"none", "unrouted", "vanished"}

\* A device that uses one transport and got an answer in time, if it asked for one.
Serial(d) ==
  /\ Range(Script[d]) \subseteq HttpEvents \/ Range(Script[d]) \intersect HttpEvents = {}
  /\ Range(Script[d]) \intersect late = {}

PipelineInit ==
  /\ Init
  /\ nth = [d \in Devices |-> 0] /\ waiting = {} /\ wire = <<>> /\ late = {}
  /\ came = [e \in Events |-> 0]
-----------------------------------------------------------------------------
(* The devices *)

\* An event that leads nowhere.
Drop(e) ==
  /\ sent' = sent \union {e}
  /\ fate' = [fate EXCEPT ![e] = "unheard"]
  /\ UNCHANGED <<clock, received, callback, channel, work, stores, life, answered>>

\* The token of Publish is dropped: the client has the event, and d goes on.
SendMqtt(d) ==
  /\ Ready(d) /\ Upcoming(d) \notin HttpEvents
  /\ wire' = Append(wire, Upcoming(d))
  /\ nth'  = [nth EXCEPT ![d] = @ + 1]
  /\ UNCHANGED <<vars, waiting, late, came>>

\* The broker delivers; with quality of service 0 an event may be lost on the way.
Hear ==
  /\ wire # <<>>
  /\ wire' = Tail(wire)
  /\ LET e == Head(wire)
     IN  \/ Receive(e) /\ came' = [came EXCEPT ![e] = clock]
         \/ Unheard(e) /\ UNCHANGED came
         \/ "mqtt" \in Faults /\ Drop(e) /\ UNCHANGED came
  /\ UNCHANGED <<nth, waiting, late>>

\* MUTANT of SendHttp: the request runs in a goroutine of its own.
SendHttpAsync(d) ==
  /\ Ready(d) /\ Upcoming(d) \in HttpEvents
  /\ \E t \in Handlers : Request(t, Upcoming(d))
  /\ nth'  = [nth EXCEPT ![d] = @ + 1]
  /\ came' = [came EXCEPT ![Upcoming(d)] = clock]
  /\ UNCHANGED <<waiting, wire, late>>

SendHttp(d) ==
  /\ Ready(d) /\ Upcoming(d) \in HttpEvents
  /\ \E t \in Handlers : Request(t, Upcoming(d))
  /\ nth'     = [nth EXCEPT ![d] = @ + 1]
  /\ came'    = [came EXCEPT ![Upcoming(d)] = clock]
  /\ waiting' = waiting \union {d}
  /\ UNCHANGED <<wire, late>>

\* Nobody listens: the error is logged.
Refused(d) ==
  /\ Ready(d) /\ Upcoming(d) \in HttpEvents
  /\ process # "running"
  /\ Drop(Upcoming(d))
  /\ nth' = [nth EXCEPT ![d] = @ + 1]
  /\ UNCHANGED <<waiting, wire, late, came>>

\* MUTANT of Respond: requests are answered when they are accepted.
RespondAtOnce(d) ==
  /\ d \in waiting
  /\ waiting' = waiting \ {d}
  /\ UNCHANGED <<vars, nth, wire, late, came>>

\* The request ends: it is answered, or the process is gone, or it takes longer
\* than HTTP_TIMEOUT.
Respond(d) ==
  /\ d \in waiting
  /\ \/ Latest(d) \in answered \/ fate[Latest(d)] = "lost"
     \/ "timeout" \in Faults
  /\ waiting' = waiting \ {d}
  /\ late' = IF Latest(d) \in InFlight THEN late \union {Latest(d)} ELSE late
  /\ UNCHANGED <<vars, nth, wire, came>>

\* When the client has hung up the context of its request is cancelled, and with it
\* the calls to Mongo and Redis.
Cancelled(t) ==
  /\ task[t] \in late
  /\ pc[t] \in {"device", "event", "seen"}
  /\ Failed(t)
  /\ UNCHANGED devs
-----------------------------------------------------------------------------
\* Whether the liveness worker finds d silent; a device that was never seen is
\* skipped.
Overdue(d) == lastSeen[d] # 0 /\ clock - lastSeen[d] >= Gap
-----------------------------------------------------------------------------
PipelineNext ==
  \/ \E d \in Devices :
       SendMqtt(d) \/ SendHttp(d) \/ Refused(d) \/ Respond(d)
  \/ Hear
  \/ \E t \in Handlers : Cancelled(t)
  \/ Run /\ UNCHANGED devs

PipelineSpec == PipelineInit /\ [][PipelineNext]_pvars
-----------------------------------------------------------------------------
(* Properties *)

\* The type invariant.  A device has one request under way at most that it has not
\* given up.
PipelineTypeOK ==
  /\ TypeOK
  /\ nth \in [Devices -> Nat] /\ \A d \in Devices : nth[d] <= Len(Script[d])
  /\ waiting \subseteq Devices /\ wire \in Seq(Events \ HttpEvents)
  /\ late \subseteq HttpEvents /\ came \in [Events -> 0..MaxClock]
  /\ \A t, u \in Handlers :
       t # u /\ {task[t], task[u]} \intersect (late \union {NoEvent}) = {}
         => DeviceOf[task[t]] # DeviceOf[task[u]]

\* The messages of a device are evaluated in the order the device sent them, which
\* is what its windows count on, whatever fails or stops on the way; checked with
\* the type invariant.
SerialOrder ==
  /\ PipelineTypeOK
  /\ \A d \in Devices : Serial(d) =>
       \A a, b \in Range(Script[d]) : Before(queue, a, b) => Before(Script[d], a, b)

\* No false alarm: when the liveness worker finds a device silent, all that it sent
\* and that went through to its last-seen time came at least the gap earlier.
NoFalseAlarm ==
  \A d \in Devices : Serial(d) /\ Overdue(d) =>
    \A e \in Range(Script[d]) : Finished(e) => clock - came[e] >= Gap
=============================================================================
