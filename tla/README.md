# iot_mops: models, checks and proofs

TLA+ modules for the programs of this repository, the TLC configurations that
check them on small instances, and theorems about them that TLAPS proves for
every instance.  `PROJECT.json` lists the runs, the source lines each definition
translates, the hazards each property is for, and the places where the code
disagrees with its own documentation or tests.

    tlc -config DeliverySettles.cfg MCDelivery.tla     # a run
    tlapm DeliveryProofs.tla                           # a module of proofs

## 1. The system

```
 devices ──MQTT──► broker ──► iot_controller ──AMQP──► telemetry.envelopes ──► rule_engine
 (simulator) ──HTTP────────►   │  │     │                  ▲        │            │  │   │
                         Mongo ◄┘  │     └ Redis last_seen  │     retry, dlq ◄────┘  │   │
                (iot_storage)      └────────────┬──────────┘                        │   │
                                                └──────► liveness worker ───► Mongo ◄┘   │
                                                                         (iot: alerts)   │
                                                    Redis: marks, windows ◄──────────────┘
```

### rule_engine

| component | state | operations | talks to |
|---|---|---|---|
| `worker.Processor`, `worker.Runner` | the deliveries a worker holds; alerts of the evaluation | `Handle`: decode, evaluate, save alerts, acknowledge; on an error release the mark and publish to the retry or dead-letter queue | RabbitMQ, engine |
| `service.RuleEngine` | the deduplication mark `msg:<id>`, count windows, time windows (Redis) | `ProcessEnvelope`, `SaveAlerts`, `ReleaseMessageMark`, `evalCountWindow`, `evalTimeWindow` | Redis, Mongo |
| `rabbit.Client` | a connection, a channel, queues with their unacknowledged deliveries, the retry count of each message | `SetupTopology`, `Consume`, `PublishRetry`, `PublishDLQ`, `NextRetryDelay`, `RetryCount` | RabbitMQ |
| `liveness.Worker` | a ticker, the batch of a round | `Start`, `runOnce` | Mongo (rules, devices, alerts), Redis (last-seen times) |
| migrations | the lock document, the markers, the indexes | `AcquireLock`, `Run`, `ReleaseLock`, from the engine and from `cmd/migrate` | Mongo |
| `main`, `box` | the process and its connections | start, SIGTERM, shutdown, exit; restarted by the container runtime | all of them |

### iot_controller

| component | state | operations | talks to |
|---|---|---|---|
| `mqtt.MQTTWorker` | `messageCh`, the callback that may block on it, one worker goroutine | `StartConsumer`, `StartWorker`, `handleMessage` | MQTT broker, service |
| HTTP handlers | a goroutine per request | `saveTelemetry` | service |
| `service` and repositories | devices, events (Mongo), the queue, last-seen times (Redis) | `ProcessTelemetry`: save device, save event, publish, set last-seen | Mongo, RabbitMQ, Redis |
| `main`, `box` | the MQTT session, the AMQP connection, the clients | start, SIGTERM, shutdown | all of them |

`data_simulator` runs one goroutine per device, which sends an event at every tick,
over MQTT without waiting or over HTTP waiting for the answer; the rest of the
repository is deployment.

### What is hard

* Nothing in the system is transactional.  Every handler is a sequence of calls
  to Mongo, Redis and RabbitMQ, each of which can fail, with or without having
  taken effect, and after any of which the process can be killed or told to stop.
* The workers of rule_engine share the windows in Redis and take turns call by
  call; RabbitMQ redelivers, and retries overtake each other.
* The mark that makes a message be handled once is set *before* the work, and so
  must be given back on every path that does not do the work.
* A lost AMQP connection is never dialled again, and an MQTT session never
  subscribed again.
* Several processes may start migrating at the same moment, and a process that
  dies leaves the lock behind.
* A message is several measurements, each meets several rules, and the order of
  both is not fixed; an error at any of them fails and repeats the whole message,
  while the windows keep what was counted.
* The broker's retry queue lets go of messages at its head only, and the delays come
  from an arithmetic that overflows.
* The liveness worker compares two clocks of different grain, with reports coming
  in while it looks.

### What makes each component correct

* Message handling: no message gets lost silently; one with an id takes effect at
  most once; the dead-letter queue holds what belongs there; everything that is
  published leaves the queues in the end.
* Windows: an alert is raised exactly when the measurements call for it, for
  measurements that belong together, and each measurement serves once.
* Rule evaluation: a message that was handled has its alerts in Mongo, whatever the
  order of its metrics and rules and whatever failed before; none is given up on
  without a reason.
* Broker: whatever the engine sends has a route; a failed message comes back in
  time, as often as it may.
* Migrations: one process at a time, in order, each once; an engine that serves
  without them has a reason.
* Ingestion: the rules see only what is stored, in the order it came; no event
  leaks between callback, channel and stores; a full channel or a failed event
  holds up nothing for ever; an answer of 200 means something.
* Liveness worker: no alert for a device that is alive, one for each that is not,
  and a failed call costs what it has to and no more.
* The programs together: the rules get the events of a device in the order the device
  sent them, and an active device is not reported as silent.

## 2. The modules

| module | models | state and actions in the code |
|---|---|---|
| `Delivery` | a message from the main queue to its end | a *copy* is a message on the broker (`loc`: main, buffered in the channel, handling, stuck, retry, dlq), with its envelope (`body`) and `x-retry-count` (`attempt`).  `marks`, `saved` are Redis and Mongo.  One action per call of `Processor.Handle` (processor.go:36-96): `TryMarkMessage`, `Evaluate`, `SaveAlerts`, `ReleaseMessageMark`, `PublishRetry`, `PublishDLQ`, `Ack`; `Stop`, `CloseConn`, `Exit`, `Crash`, `Restart`, `ConnLost` are the life of the process (main.go, run.go) |
| `AtLeastOnce` | what such a consumer promises | accepted envelopes are pending until done or dead; `Delivery` has the instance (`Abstract`) with the mapping |
| `Engine` | a message through `ProcessEnvelope`, `SaveAlerts` and what `Handle` does with their errors (engine.go:59-139, 216-267; rules_repo.go:23-41; alerts_repo.go:29-43) | `FlattenEnvelope` takes a delivery; `FindEnabledByMetric` one measurement in any order; `EvaluateRule` one rule in any order, with `Instant`, `CountWindow`, `TimeWindow` for its kind; `EvaluateRuleFails`, `FindFails`, `WindowFails`, `SaveAlertsFails` the errors, a call on a window with or without effect; `SaveAlerts` the end |
| `Backoff` | `NextRetryDelay` and `RetryCount` (client.go:170-229) | operators that return the set of results the jitter allows; a product beyond the range of `time.Duration` is the largest or the smallest value |
| `Broker` | the exchanges and queues, the start of rule_engine up to `Consume`, the retry queue | `Declare` is one declaration of `SetupTopology`; `PublishRetry`, `PublishDLQ`, `Expire`, `Tick` the way of a message that fails; `Fail` ends a start or the process |
| `WindowLog` | what a count window promises, told from the log of measurements | `Count` |
| `CountWindow` | `evalCountWindow` (engine.go:141-176) | `GetRuleState` and `SetRuleState` are the two Redis calls; `Finish` and `Fail` what `Handle` does afterwards |
| `TimeWindow` | `evalTimeWindow` (engine.go:178-214) | `AddToTimeWindow`, `PruneTimeWindow`, `CountTimeWindow`, `DeleteTimeWindow` on the sorted set `members` |
| `MigrationLock` | the lock and the loop of migrations (migrations.go, main.go:33-50, cmd/migrate) | `ReadClock`, `Update`, `Insert` are `AcquireLock`; `ReadApplied`, `Up`, `MarkApplied` are `Run`; `ReleaseLock`; `Fail` what the two programs do on an error |
| `Ingestion` | iot_controller | `Receive`, `Push`, `Take` are callback, channel and worker, `Request` a request; `Decode` to `SetLastSeen` are `ProcessTelemetry`; `Stop` to `Exit` the shutdown of main.go:69-97 in its order; `SessionLost`, `Reconnect`, `AmqpBreaks`, `AmqpLost` the connections of box.go.  `Publish` waits for no confirm: its event is queued, *unrouted* before the queue is declared, or *vanished* on a connection that broke unnoticed |
| `LivenessWorker` | the liveness worker (liveness/worker.go:52-140) | the two loops are `rules` and `ids`, whose heads are at work; one action per call and one per failure; `Pass` is the ticker, `SetLastSeen` the reports iot_controller saves meanwhile |
| `Pipeline` | data_simulator, composed with `Ingestion`, and the two things rule_engine reads of it: the order of the queue and the last-seen times | `SendMqtt`, `SendHttp`, `Refused`, `Respond` are the loop of `sendMessage` (main.go:53-86) for one device, `wire` the MQTT broker; `Cancelled` the handler whose client hung up; everything else is `Run` of `Ingestion` |
| `DeliveryProofs`, `MigrationLockProofs`, `CountWindowProofs`, `TimeWindowProofs`, `EngineProofs`, `BrokerProofs`, `LivenessWorkerProofs`, `PipelineProofs` | theorems about the modules they are named after; `PipelineProofs` has those about `Ingestion`, which `Pipeline` extends, too | section 5 |
| `MC...` | instances for TLC: model values, small functions, symmetry | |

Conventions.  A step of a process is one call that leaves it, with the local
computation up to the next.  A call that fails may have taken effect: the failing
actions offer both outcomes.  Every fault is a member of the constant `Faults`,
so that a property can be checked and proved under exactly the faults it
tolerates.  Variables marked *history* record what the code does not keep and
guard no step.  Definitions marked MUTANT, placed before the definition they
alter, are plausible bugs; each property has one that breaks it.

`CountWindow` keeps in the window the messages in place of the zeros and ones
they stand for, so that properties can say which measurements an alert used.
`Delivery` abstracts rule evaluation to the number of alerts it returns; `Engine`,
the windows and `Broker` abstract the delivery of messages to a set of messages with
attempts, and `Pipeline` the rule_engine to what it reads.

## 3. The runs

Runs that pass:

| run | question (the type invariant is a property of its own, or the first conjunct of one) | bounds |
|---|---|---|
| `delivery_abstract` | does the pipeline implement `AtLeastOnce`, leave no stale mark and complete nothing twice, if Mongo fails and the connection gets lost? (`ImplementsAtLeastOnce`, `MarkJustified`, `AtMostOnce`) | an envelope with none, one or two alerts, published three times, prefetch 3, two attempts |
| `delivery_settles` | does everything leave the queues, unless the connection stays lost or deliveries that are never acknowledged fill the prefetch?  Is every loss explained by a mark that outlived its attempt or a failed dead-letter publish, and every dead letter by its body or its attempts?  (`Settles`, `LossExplained`, `DeadLetterReason`, `TypeOK`) | a good envelope and a malformed one, prefetch 1, one retry, every fault, one disruption |
| `count_window` | does the window in Redis implement the log, whose alerts share nothing, and is none missed, while workers do not overlap, and what survives when they do?  (`ImplementsWindowLog`, `NoMissedWindow`, `AlertBacked`) | five messages of which four match, size 2, two matches required, two workers, failures before and after the write, one retry, expiry |
| `time_window` | are alerts of one window, disjoint, and none missed, for messages in order, and do measurements of one window raise an alert whatever the workers, the order and the failures?  (`AlertsSeparate`, `NoMissedWindow`, `SomeAlert`) | four messages at any of three times, span 3, two workers, calls that fail before or after their effect, one retry, expiry |
| `engine` | are alerts stored as the rules say, no more than the index allows, what does an error cost, and has every dead letter a reason?  (`InstantStored`, `RaisedStored`, `HandledOnce`, `DeadExplained`, `CountedPerAttempt`) | three messages of two devices with one or two metrics, two of them under the unique index; an instant rule that one of these does not fire, a count and a time window, an inactivity rule that cannot be evaluated, a disabled one; Mongo and Redis fail, one retry |
| `broker` | has everything a route, is a failed message back in time, does it fail as often as it may and end?  (`NothingLost`, `ReturnsInTime`, `TriesBounded`, `Settles`) | two messages, retry headers absent, textual, negative; three attempts, delays 2 to 4 with jitter, a largest integer of 7, one failed start or crash |
| `migration_lock` | one migrator, order, each once; why does an engine serve without migrations? (`OneMigrator`, `AppliedInOrder`, `MarkedOnce`, `ServingExplained`) | an engine and the migrate command, two migrations, crashes, failures and restarts, TTL = deadline = 2, clock to 4 |
| `ingestion` | stored before queued, stores open for requests, order, nothing leaks, last-seen times do not go back, every event is settled (`QueuedIsStored`, `StoresOpenForRequests`, `InOrder`, `Accounted`, `LastSeenMonotone`, `Settles`) | two events over MQTT and one over HTTP, a channel of one, every fault, one disruption |
| `liveness_worker` | is every alert justified, what does a failed call cost a round, is every silence reported?  (`AlertJustified`, `RoundCovers`, `SilenceReported`) | three rules, one device, a half-second clock, two reports, one failure of any kind |
| `pipeline` | do the rules get the events of a device in order, and is no device found silent that is not, from the device to the stores?  (`SerialOrder`, `NoFalseAlarm`) | a device with two events over HTTP and one with an event over MQTT, two request goroutines, timeouts, lost events, one crash, lost session or broken AMQP connection, a gap of one second |

Two runs show the code doing what a test or another program of the repository
says it does not (quoted in `PROJECT.json` under "findings"):

| run | what happens |
|---|---|
| `delivery_duplicate` | a failed SETNX makes the error path delete the mark of another delivery; the duplicate is evaluated again |
| `ingestion_answers` | POST /telemetry answers 200 when Mongo refused the event |

The models contain more such behaviour, which no run states as a property, so
that a reader does not take the properties above for more than they say:

* Two rules that fire on one message with an id: the unique index on `message_id`
  refuses the second alert, the first is stored, the message is retried and
  dead-lettered, and `alerts_total` never counts it (processor.go:67-75,
  migrations.go:48).  `HandledOnce` and `DeadExplained` say what remains true.
* The process closes its connections and exits while workers are handling
  messages: `Run` waits for its workers, `main` does not wait for `Run`, and nothing
  reads `WORKER_SHUTDOWN_TIMEOUT` (main.go:66-92, config.go:80; `Stop`,
  `CloseConn`, `Exit`).  What a stop cuts short is among the explained losses.
* After a lost AMQP connection nothing is consumed again although the process
  stays healthy (`ConnLost`; the exception `CutOff` of `Settles`), and a retry that
  cannot be published leaves its delivery unacknowledged (the exception `Starved`).
* Two workers lose an update of a count window, so that measurements that
  engine_test.go:253 expects to raise an alert raise none (the reason why
  `ImplementsWindowLog` and `NoMissedWindow` ask for workers that do not overlap).
* Two workers both count two members of a time window before either deletes them,
  and both raise an alert where engine_test.go:295 expects one.
* Redis drops a measurement exactly one window old (`PruneTimeWindow` removes up to
  and including the bound, state_store.go:79), which the state of the unit tests
  keeps (engine_test.go:116).
* A rule that names no metric is found for none (rules_repo.go:25), though
  `ruleApplies` (engine.go:217) and the unit tests' repository (engine_test.go:25)
  take it to be for all.
* An event that is published while the AMQP connection breaks is gone without an
  error, as the controller waits for no confirm (rabbitmq.go:31; `vanished` in
  `Enqueue`); it is stored and its last-seen time set, but no rule sees it.
* One invalid rule dead-letters every message it meets, after the windows of the
  rules before it counted the message once per attempt (`CountedPerAttempt`).
* A client of POST /telemetry that gives up on a slow request and sends the next
  event has two goroutines at work for one device: events change places and the
  last-seen time can go back (the exception `late` in `Serial`).

Why the bounds are enough. The hazards need two workers, two copies of an
envelope, one failure in each call of `Handle` and one disruption between any two
of them; the runs have that, and a third copy where the state space allows it.
`delivery_settles` publishes each envelope once, so there a second copy comes from
redelivery; that losses are explained for any number of publications is proved.
`Copies` is at least the number of messages that can exist at once (publishes, and
for every handler that publishes a retry before it acknowledges one more), so
`Enqueue` is not held up by it. `MaxAttempts` of 1 or 2 gives the first attempt, a
retry, and the dead-letter queue. A window of two over five messages slides,
triggers, starts again and triggers again, with measurements that match and one that
does not; as two matches are required, an alert that counts one measurement twice
differs from one that is backed. A span of
three over times 0, 1 and 3 has inside, boundary and outside, and, with two of the
times, messages that all lie in one window. In `engine` one message has two
metrics that fire different rules, one has fewer and fires none, one meets an
invalid rule; a window of size 2 fills, triggers and fills again. In `broker` the
third attempt's product (8) is beyond the largest integer (7) and the second is the
cap. A lock
with a TTL of 2 can expire twice before the clock stops at 4. A channel of one
place is full with one event, with which the second blocks the callback; all
events of that run are valid, since an invalid one takes the path of one whose
first call fails. Gaps of one and two seconds in half-second ticks meet every
possible truncation; `MaxClock` leaves one round after the first alert. In
`pipeline` two requests of one device are what it takes to overlap, and a second
between them what it takes to go back. In `LivenessWorker` the clock stays at
`MaxClock` while the ticker goes on, so rounds never end. Deadlock is not checked
where the bounds on publishes, disruptions or the clock let the system come to
rest.

## 4. Fairness

* `Delivery`: a goroutine that can make a call makes it; the broker delivers what
  may be delivered and expires retries; `main` finishes the shutdown; the
  container runtime starts the process again (`restart: unless-stopped`).  No
  fairness is asked of faults, producers or signals, and disruptions are bounded.
  Calls answer, successfully or not: a failure counts as progress, because
  attempts are bounded.
* `Ingestion`: the callback, the worker and the requests run.  Nothing is asked
  of `Restart` or `Reconnect`: events are settled without them.
* `Broker`: the container is started again, a start goes on, messages are handled or
  fail, the retry queue expires its head and time passes.  Nothing is asked of
  producers, and failures of the process are bounded.
* `LivenessWorker`: time passes, the worker runs, a stopping process exits and is
  started again.  Failures are bounded: a store that never answers again is
  excluded, as nothing could be reported then.

## 5. The theorems

The proofs are in eight modules and are checked to the last leaf: every safety
invariant, action property and refinement the runs check is a theorem, for all
values of the constants that meet the assumptions of the module.  Each proof has the
same shape: the initial states satisfy an inductive invariant, one lemma per part of
it says that each action preserves that part, and the property follows.  `Structure`
is always the first part: the types, and who holds what.  TLC has checked each part
as an invariant on the run of its module.  What follows names for each theorem the
part that makes it inductive.

`DeliveryProofs`, for any workers, copies, envelopes, attempts, prefetch:

* `TypeCorrect`: `TypeOK`, from `Structure`: beside the types, who holds which
  copy (`Holding`: a busy worker has a copy that is being handled, no two the
  same, and nothing is unacknowledged without a connection).  All else builds on it.
* `LossIsExplained`, under every fault.  The invariant `Accounted` says of each
  published envelope that it was completed, or has a mark or had one that expired, or
  failed to reach the dead-letter queue, or some copy of it is *safe*:
  on a queue, or held in a way that will not end in an acknowledgement for
  nothing.  `LossExplained` is not inductive, for it does not see that
  a copy about to be acknowledged no longer protects its envelope.
* `DeadLettersHaveReason`, under every fault.  Invariant `Reasoned`: the reason is
  there already when a worker turns to the dead-letter queue and does not go away.
* `HandledAtMostOnce`, if Redis answers and no mark expires.  Invariant `Once`: an
  envelope with an id that was completed keeps its mark, and while one worker is
  working on it the mark is there, no other is, and it was not completed before.
* `MarksAreJustified`, with Mongo and publishes failing and connections lost, and
  `DeliveryImplements`, with only Mongo failing and connections lost.  The second
  shows each step to be a step of `AtLeastOnce` under the mapping of `Abstract`, or to
  leave its variables alone; the hard case is the last copy going away, for which
  `AllSafe` says that a pending envelope that is neither done nor dead has a safe
  copy.

`MigrationLockProofs`, for any processes, number of migrations, faults:

* `TypeCorrect`, with the deadlines (`Punctual`: the time a process read is not
  ahead of the clock and its deadline no more than `Timeout` later) and the
  positions in the loop.
* `MigratorsExclude` and `MarksOnce`, **if `TTL >= Timeout`**, which the deployment
  meets (1m and 5s).  Invariant `Holding`: a process that can still do something
  between taking and giving back the lock owns a lock that lasts beyond its
  deadline; so whoever finds it expired finds nobody at work.
* `AppliesInOrder` and `ServingIsExplained`, without that condition.  The second
  rests on `Finished`: an engine that gives the lock back has left its loop at the
  end, and what lies behind it there is applied (`Progressed`).

Two abstractions carry weight here: a call takes effect before the deadline of its
context or not at all, and the clocks of the hosts agree.

`CountWindowProofs`, for any messages, workers, size, required matches, faults:

* `AlertsAreBacked`, whatever the workers overwrite.  `AlertBacked` looks at alerts
  alone; inductive is that a message which never failed is in a window once
  (`AllDistinct`), and for that, that what is in a window will not be counted again
  unless it failed (`CountedOnce`).
* `WindowLogIsImplemented`: each step that keeps the order is a step of `WindowLog`
  or leaves the log alone.  Invariant `WindowIsRecent`: the window in Redis is the end
  of the log since the last alert, and one worker at a time has read it.  Lemma
  `ExtendedRecent` is the heart of it: extending and cutting that piece of the log
  gives the piece of the longer log.
* `NoWindowIsMissed`, for steps in order: with `WindowIsRecent`, an alert has the
  measurement at the last cut (`CutHasAlert`), which every window that reaches
  behind the cut shares with it.
* `NoMeasurementInTwoAlerts`, for steps in order: the log has a measurement once and
  alerts have those up to the cut (`AlertsEndAtCut`), so a new alert, taken from
  behind the cut, has none of theirs.  No run checks this one; it makes good what the
  comment on the refinement says of the alerts.

`TimeWindowProofs`, for any messages, timestamps, span, required matches, workers, faults:

* `CloseMeasurementsRaise`, whatever the order, the workers and the failures.
  Invariant `KeptWhileSilent`: until something raises an alert or loses the set, what
  was handled is in the set, which pruning cannot change, and is too little.
* `AlertsAreSeparate` and `NoWindowIsMissed`, while messages come in order.  They need
  that one worker is busy and has the latest message (`OneAtATime`), that after the
  prune the set lies in the window of its message (`SetOfWindow`), that an alert takes
  its measurements out of the set (`Separate`), and that a handled measurement
  is in the set, in an alert, or too old (`Kept`).

`EngineProofs`, for any rules, devices, metrics, messages, any order, any failures:

* `TypeCorrect`; `HandledHasInstantAlerts`, from `InstantKept`: an instant rule that
  fires on the message at hand is still to be evaluated or has its alert in hand;
  `RaisedAlertsAreStored`, from `AlertsKept`, which follows an alert from its attempt to
  the end of that attempt.
* `HandledHasOneAlert`, from `OneEach` (the unique index) and `NoneTwice` (an attempt
  raises no alert twice).  The exact count the property had claimed before
  was true of the run only, not in general: a message whose retry raises nothing
  keeps the alert of its first attempt.  It now says what holds: one at most, and
  what the last attempt raised is it.
* `GivenUpForAReason`: when an insert is refused, two alerts were raised for the message.
* `CountedOncePerAttempt`, from `CountedOnce`: a window has a message as often as it
  had attempts, and once more only when this attempt has passed it.  A call that
  failed after it wrote the window is such a passage, and the last of its attempt
  (`WindowFailsEffect`).

`BrokerProofs`, for any delays, jitter, range of integers, headers, messages:

* Lemma `DelayBounds`: every delay that `NextRetryDelay` can return is positive and at
  most `Longest`, for every attempt, also where the product overflows.  It needs
  what `BackoffAssumption` says: the jitter is less than one and leaves at least one
  unit of each delay.
* `TypeCorrect`: a message is in the retry queue once, and only for an attempt it has.
* `EverythingHasARoute`, from `Routable`: nobody consumes before the last of the nine
  declarations, and what was declared stays.
* `RetriesReturnInTime`, from `HeldUp`.  The ages alone are not inductive, as
  the queue lets go of its head only: for each message, its age and what is left of
  any message before it are together at most `Longest`.
* `TriesAreBounded`, from `Counted`: the header counts the failures from the value a
  producer gave it.

`LivenessWorkerProofs`, for any rules, devices, gaps, grain of the clock, ticker:

* `TypeCorrect`, with the bound on the batch from `OneEach`: alerts of the batch are for
  different rules and devices, none of them still to be looked at.
* `AlertsAreJustified`, from `Evidence`: a last-seen time is not behind any report that
  was saved, nor is the one that was read behind those saved before the round.
* `RoundsCover`, from `Covered`: what was overdue at the start, and whose calls did not
  fail, is still to be looked at or in the batch.

The assumption that a query returns a rule or a device once stands for the key of a
Mongo collection.  That the clock of the report and that of the worker agree is part of
the model.

`PipelineProofs`, first about `Ingestion`, for any events, devices, requests, capacity,
faults:

* `TypeCorrect`: in particular the channel never exceeds its capacity.
* `QueuedEventsAreStored`, from `Saved`: what a goroutine is about to publish is stored.
* `StoresStayOpen`, from `OpenWhileServing`, which ties the requests and the stores to
  the stage of the shutdown.
* `NothingLeaks`, from `KeepsTrack`: what has been published and is still held is known.
  The fates say which of the ways out an event took: `vanished` are those published
  over a connection that had broken, of which the program knows nothing.
* `QueueKeepsOrder`, from `InLine`: whatever is further along (queue, worker,
  channel, callback) was received earlier.
* `LastSeenGoesForward`, from `TimesInOrder`: the time the worker is about to write is not
  behind the one it wrote before.

Then about `Pipeline`, for any devices, scripts and gap.  The common part is `World`:
only what its device sent gets anywhere (`Known`), and among the requests that are
handled there is one for each waiting device, for the event it sent last
(`OneRequest`).  Every step of the programs publishes an event, writes a last-seen time,
or does neither (`AdvanceKinds`).

* `DeviceOrder`: for a device that uses HTTP, the event being published is the last it
  sent and not on the queue yet (`Unpublished`); for one that uses MQTT, the
  order of the broker (`WireOrder`) and of `Ingestion` (`InLine`) together.
* `AlarmsAreTrue`, from `SeenInOrder`: the last-seen time of a device covers all that is
  finished, and whoever writes next does not take it back, because no other request
  of that device is waited for, or the worker alone writes.

TLC alone shows what holds under fairness (`Settles` of three modules,
`SilenceReported`): liveness needs ENABLED, which the provers do not treat.  The two
disagreements of section 3 are counterexamples, which only runs can show.

## 6. Not modelled

* Encodings: JSON, BSON, the layouts of timestamps.  Whether a body decodes, an event
  validates or a document is a rule is a constant.
* `Insert` and `SetLastSeen` of rule_engine, which nothing calls.
* Configuration (its values are constants), metrics other than `alerts_total`,
  `/healthz`: nothing in the programs reads them back.
* The release of connections on the failing paths of `box.New`: the process ends
  there and takes them with it.
* The simulator's random values and pacing, and its mode `all`, which sends each event
  both ways: without a message id it is two events to all that follows.
* Deployment files; `restart: unless-stopped` is an assumption of the fairness.
* Rules or devices that change while the system runs: no program here changes them.

## 7. The plan

Done, in this order: `Delivery` with `AtLeastOnce` and their proofs; `CountWindow`
with `WindowLog`, `TimeWindow`; `MigrationLock` and its proofs; `Ingestion`;
`LivenessWorker`; `Backoff` and `Broker`; `Engine`; `Pipeline`; the proofs about all
of these.

Left, most important first:

1. The theorems about `Ingestion` for `PipelineSpec`, where requests are cancelled too:
   `FailedKeeps` and `FailedKeepsLine` are the first steps.
2. The disagreements section 3 describes in words, stated as properties where one
   of them matters more than a run that is there.
3. The prefetch and the redelivery of `Delivery` under the routes of `Broker`, so
   that one module has both.
