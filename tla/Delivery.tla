------------------------------ MODULE Delivery ------------------------------
(***************************************************************************)
(* The life of a telemetry message in rule_engine: the RabbitMQ queues the *)
(* engine consumes from and publishes to, the worker goroutines that run   *)
(* Processor.Handle, the deduplication mark in Redis, the alerts in Mongo, *)
(* and what happens to all of them when a store call fails, a publish      *)
(* fails, the AMQP connection is lost, the process is stopped or killed.   *)
(*                                                                         *)
(* A message on a queue is a copy: a body (an envelope) and the value of   *)
(* its x-retry-count header.  A retry and a redelivery are different       *)
(* copies of one envelope.  How rules are evaluated is abstracted to the   *)
(* number of alerts the evaluation returns.                                *)
(***************************************************************************)
EXTENDS Naturals, FiniteSets

CONSTANTS
  Envelopes,      \* the envelopes that may be published
  Malformed,      \* those whose body Unmarshal or ToEntity rejects
  WithID,         \* those that carry a message_id
  AlertCounts,    \* AlertCounts[e]: how many alerts evaluating e may return;
                  \* {} when a rule it meets is invalid and always fails
  UniqueIndex,    \* whether migration 02 put its index on alerts.message_id
  Workers,        \* worker goroutines (WORKER_CONCURRENCY of them)
  Prefetch,       \* RABBIT_PREFETCH
  MaxAttempts,    \* RABBIT_RETRY_MAX_ATTEMPTS
  Faults,         \* the kinds of fault that may happen, of FaultKinds
  Copies,         \* identities for messages on the broker
  NoCopy,         \* the job of a worker that has none
  MaxPublish,     \* bound: how often one envelope is published
  MaxDisruptions  \* bound: crashes, stops, lost connections, expired marks

FaultKinds == {"redis", "mongo", "publish", "conn", "crash", "stop", "expire"}

ASSUME DeliveryAssumption ==
  /\ Envelopes # {}
  /\ Malformed \subseteq Envelopes
  /\ WithID \subseteq Envelopes
  /\ AlertCounts \in [Envelopes -> SUBSET Nat]
  /\ UniqueIndex \in BOOLEAN
  /\ Prefetch \in Nat \ {0}
  /\ MaxAttempts \in Nat
  /\ Faults \subseteq FaultKinds
  /\ NoCopy \notin Copies
  /\ MaxPublish \in Nat
  /\ MaxDisruptions \in Nat

VARIABLES
  published,    \* published[e]: how often e was put on the main queue
  loc,          \* loc[c]: where copy c is
  body,         \* body[c]: the envelope in c
  attempt,      \* attempt[c]: the x-retry-count header of c
  marks,        \* envelopes whose key msg:<message_id> exists in Redis
  saved,        \* saved[e]: alert documents of e in Mongo
  engine,       \* the rule_engine process
  conn,         \* whether its AMQP connection is open
  pc,           \* pc[w]: the next call of worker w
  job,          \* job[w]: the copy w handles
  alerts,       \* alerts[w]: how many alerts the evaluation by w returned
  counted,      \* counted[e]: what e added to the alerts_total metric
  completions,  \* history: how often e was handled without an error
  dlqFailed,    \* history: envelopes for which PublishDLQ returned an error
  expired,      \* history: envelopes whose mark expired
  disruptions   \* how many disruptions there were

broker  == <<loc, body, attempt>>
stores  == <<marks, saved>>
process == <<engine, conn>>
worker  == <<pc, job, alerts>>
history == <<completions, dlqFailed, expired>>
vars == <<published, broker, stores, process, worker, counted, history,
          disruptions>>

Places  == {"free", "main", "buffered", "handling", "stuck", "retry", "dlq"}
Steps   == {"idle", "reject", "mark", "evaluate", "save", "release",
            "requeue", "ack"}
-----------------------------------------------------------------------------
(* Helpers *)

\* Delivered and not acknowledged: what the broker counts against Prefetch.
Unacked == {c \in Copies : loc[c] \in {"buffered", "handling", "stuck"}}

\* The envelope worker w is handling.
Env(w) == body[job[w]]

Goto(w, step) == pc' = [pc EXCEPT ![w] = step]

\* A copy of envelope e with header n arrives at a queue.
Enqueue(place, e, n) ==
  \E d \in Copies :
    /\ loc[d] = "free"
    /\ loc'     = [loc EXCEPT ![d] = place]
    /\ body'    = [body EXCEPT ![d] = e]
    /\ attempt' = [attempt EXCEPT ![d] = n]

\* The broker takes back what was delivered on a connection that is gone.
RequeueUnacked ==
  loc' = [c \in Copies |-> IF c \in Unacked THEN "main" ELSE loc[c]]

\* A store call may fail when the store does, and does fail once the context
\* is cancelled.  (A call in flight at that moment that still succeeds is
\* ordered before the cancellation.)
MayFail(store) == store \in Faults \/ engine = "stopping"
MaySucceed == engine = "running"

\* MUTANT of Duplicate: TryMarkMessage's answer is ignored.
DuplicateIgnored(e) == FALSE

\* Whether the SETNX of TryMarkMessage finds the key.
Duplicate(e) == e \in marks

\* MUTANTS of Exhausted: one attempt too many, one too few.
ExhaustedLate(c) == attempt[c] > MaxAttempts
ExhaustedEarly(c) == attempt[c] + 1 >= MaxAttempts

\* Whether retryOrDlq gives up on a copy.
Exhausted(c) == attempt[c] + 1 > MaxAttempts

\* Whether the broker still delivers to the engine.  Once the context is
\* cancelled a goroutine of Consume cancels the consumer, and nothing says when:
\* main may close the connection first.
Consuming == engine # "down" /\ conn

\* How many of n alerts an ordered InsertMany stores before an error.
Insertable(e, n) ==
  IF e \in WithID /\ UniqueIndex /\ saved[e] + n > 1
  THEN IF saved[e] = 0 THEN 1 ELSE 0
  ELSE n

FirstStep(e) ==
  IF e \in Malformed THEN "reject"
  ELSE IF e \in WithID THEN "mark" ELSE "evaluate"
-----------------------------------------------------------------------------
Init ==
  /\ published   = [e \in Envelopes |-> 0]
  /\ loc         = [c \in Copies |-> "free"]
  /\ body       \in [Copies -> {CHOOSE e \in Envelopes : TRUE}]
  /\ attempt     = [c \in Copies |-> 0]
  /\ marks       = {}
  /\ saved       = [e \in Envelopes |-> 0]
  /\ engine      = "running"
  /\ conn        = TRUE
  /\ pc          = [w \in Workers |-> "idle"]
  /\ job         = [w \in Workers |-> NoCopy]
  /\ alerts      = [w \in Workers |-> 0]
  /\ counted     = [e \in Envelopes |-> 0]
  /\ completions = [e \in Envelopes |-> 0]
  /\ dlqFailed   = {}
  /\ expired     = {}
  /\ disruptions = 0
-----------------------------------------------------------------------------
(* The broker *)

\* A producer publishes e to the exchange of the main queue.
Publish(e) ==
  /\ published[e] < MaxPublish
  /\ Enqueue("main", e, 0)
  /\ published' = [published EXCEPT ![e] = @ + 1]
  /\ UNCHANGED <<stores, process, worker, counted, history, disruptions>>

\* The broker pushes a copy to the consumer, within its prefetch.
Deliver(c) ==
  /\ Consuming
  /\ loc[c] = "main"
  /\ Cardinality(Unacked) < Prefetch
  /\ loc' = [loc EXCEPT ![c] = "buffered"]
  /\ UNCHANGED <<published, body, attempt, stores, process, worker, counted,
                 history, disruptions>>

\* The expiration of a retry passes: it is dead-lettered to the main queue.
RetryExpire(c) ==
  /\ loc[c] = "retry"
  /\ loc' = [loc EXCEPT ![c] = "main"]
  /\ UNCHANGED <<published, body, attempt, stores, process, worker, counted,
                 history, disruptions>>

\* The hour of a mark passes.  (Handling a message takes seconds, so the mark
\* of a message in a worker's hands is taken not to expire.)
MarkExpire(e) ==
  /\ "expire" \in Faults
  /\ disruptions < MaxDisruptions
  /\ e \in marks
  /\ \A w \in Workers : pc[w] # "idle" => Env(w) # e
  /\ marks'   = marks \ {e}
  /\ expired' = expired \union {e}
  /\ disruptions' = disruptions + 1
  /\ UNCHANGED <<published, broker, saved, process, worker, counted, completions,
                 dlqFailed>>
-----------------------------------------------------------------------------
(* Processor.Handle, one action per call that leaves the process *)

\* A worker receives from the deliveries channel.  Buffered deliveries are
\* still received after the consumer was cancelled.
Take(w, c) ==
  /\ engine # "down"
  /\ pc[w] = "idle"
  /\ loc[c] = "buffered"
  /\ loc' = [loc EXCEPT ![c] = "handling"]
  /\ job' = [job EXCEPT ![w] = c]
  /\ Goto(w, FirstStep(body[c]))
  /\ UNCHANGED <<published, body, attempt, stores, process, alerts, counted,
                 history, disruptions>>

\* SETNX of the mark.  A call that Redis fails may have taken effect.
TryMarkMessage(w) ==
  /\ pc[w] = "mark"
  /\ \/ /\ MaySucceed
        /\ Goto(w, IF Duplicate(Env(w)) THEN "ack" ELSE "evaluate")
        /\ marks' = marks \union {Env(w)}
     \/ /\ MayFail("redis")
        /\ Goto(w, "release")
        /\ \/ marks' = marks
           \/ "redis" \in Faults /\ marks' = marks \union {Env(w)}
  /\ UNCHANGED <<published, broker, saved, process, job, alerts, counted,
                 history, disruptions>>

\* The rest of ProcessEnvelope: rules are read from Mongo, windows from Redis.
Evaluate(w) ==
  /\ pc[w] = "evaluate"
  /\ \/ /\ MaySucceed
        /\ 0 \in AlertCounts[Env(w)]
        /\ Goto(w, "ack")
        /\ completions' = [completions EXCEPT ![Env(w)] = @ + 1]
        /\ UNCHANGED alerts
     \/ /\ MaySucceed
        /\ \E n \in AlertCounts[Env(w)] \ {0} :
              alerts' = [alerts EXCEPT ![w] = n]
        /\ Goto(w, "save")
        /\ UNCHANGED completions
     \/ /\ MayFail("redis") \/ MayFail("mongo") \/ AlertCounts[Env(w)] = {}
        /\ Goto(w, "release")
        /\ UNCHANGED <<completions, alerts>>
  /\ UNCHANGED <<published, broker, stores, process, job, counted, dlqFailed,
                 expired, disruptions>>

\* InsertMany of the alerts, in order: the first that is refused ends it, and
\* those before it stay.  The metric is counted when all were stored.
SaveAlerts(w) ==
  LET e == Env(w)
      most == Insertable(e, alerts[w])
  IN
  /\ pc[w] = "save"
  /\ alerts' = [alerts EXCEPT ![w] = 0]
  /\ \/ /\ MaySucceed
        /\ saved' = [saved EXCEPT ![e] = @ + most]
        /\ IF most = alerts[w]
           THEN /\ counted' = [counted EXCEPT ![e] = @ + most]
                /\ completions' = [completions EXCEPT ![e] = @ + 1]
                /\ Goto(w, "ack")
           ELSE /\ UNCHANGED <<counted, completions>>
                /\ Goto(w, "release")
     \/ /\ MayFail("mongo")
        /\ \E k \in 0..most : saved' = [saved EXCEPT ![e] = @ + k]
        /\ Goto(w, "release")
        /\ UNCHANGED <<counted, completions>>
  /\ UNCHANGED <<published, broker, marks, process, job, dlqFailed, expired,
                 disruptions>>

\* MUTANT of ReleaseMessageMark: the error path goes straight to retryOrDlq.
ReleaseForgotten(w) ==
  /\ pc[w] = "release"
  /\ Goto(w, "requeue")
  /\ UNCHANGED <<published, broker, stores, process, job, alerts, counted,
                 history, disruptions>>

\* MUTANT of ReleaseMessageMark: the error path acknowledges and returns.
ReleaseThenAck(w) ==
  /\ pc[w] = "release"
  /\ marks' = marks \ {Env(w)}
  /\ Goto(w, "ack")
  /\ UNCHANGED <<published, broker, saved, process, job, alerts, counted,
                 history, disruptions>>

\* The error path deletes the mark, whoever set it, and ignores the result.
ReleaseMessageMark(w) ==
  /\ pc[w] = "release"
  /\ \/ /\ Env(w) \in WithID /\ MaySucceed
        /\ marks' = marks \ {Env(w)}
     \/ /\ Env(w) \in WithID => MayFail("redis")
        /\ UNCHANGED marks
  /\ Goto(w, "requeue")
  /\ UNCHANGED <<published, broker, saved, process, job, alerts, counted,
                 history, disruptions>>

\* MUTANT of PublishRetry: the header is copied but not incremented.
PublishRetryUncounted(w) ==
  /\ pc[w] = "requeue"
  /\ ~Exhausted(job[w])
  /\ conn
  /\ Enqueue("retry", Env(w), attempt[job[w]])
  /\ Goto(w, "ack")
  /\ UNCHANGED <<published, stores, process, job, alerts, counted, history,
                 disruptions>>

\* retryOrDlq, another attempt is left.
PublishRetry(w) ==
  /\ pc[w] = "requeue"
  /\ ~Exhausted(job[w])
  /\ conn
  /\ Enqueue("retry", Env(w), attempt[job[w]] + 1)
  /\ Goto(w, "ack")
  /\ UNCHANGED <<published, stores, process, job, alerts, counted, history,
                 disruptions>>

\* MUTANT of PublishRetryFails: the error is ignored, as that of PublishDLQ is.
PublishRetryFailsAcks(w) ==
  /\ pc[w] = "requeue"
  /\ ~Exhausted(job[w])
  /\ "publish" \in Faults \/ ~conn
  /\ Goto(w, "ack")
  /\ UNCHANGED <<published, broker, stores, process, job, alerts, counted,
                 history, disruptions>>

\* Handle returns the error; nothing acknowledges or rejects the copy.
PublishRetryFails(w) ==
  /\ pc[w] = "requeue"
  /\ ~Exhausted(job[w])
  /\ "publish" \in Faults \/ ~conn
  /\ loc' = IF conn THEN [loc EXCEPT ![job[w]] = "stuck"] ELSE loc
  /\ Goto(w, "idle")
  /\ job' = [job EXCEPT ![w] = NoCopy]
  /\ UNCHANGED <<published, body, attempt, stores, process, alerts, counted,
                 history, disruptions>>

\* A body that cannot be decoded, or retryOrDlq with no attempt left.
GivesUp(w) ==
  \/ pc[w] = "reject"
  \/ pc[w] = "requeue" /\ Exhausted(job[w])

PublishDLQ(w) ==
  /\ GivesUp(w)
  /\ conn
  /\ Enqueue("dlq", Env(w), attempt[job[w]])
  /\ Goto(w, "ack")
  /\ UNCHANGED <<published, stores, process, job, alerts, counted, history,
                 disruptions>>

\* The error of PublishDLQ is ignored: the copy is acknowledged all the same.
PublishDLQFails(w) ==
  /\ GivesUp(w)
  /\ "publish" \in Faults \/ ~conn
  /\ dlqFailed' = dlqFailed \union {Env(w)}
  /\ Goto(w, "ack")
  /\ UNCHANGED <<published, broker, stores, process, job, alerts, counted,
                 completions, expired, disruptions>>

\* An acknowledgement on a connection that is gone does nothing.
Ack(w) ==
  /\ pc[w] = "ack"
  /\ loc' = IF conn THEN [loc EXCEPT ![job[w]] = "free"] ELSE loc
  /\ Goto(w, "idle")
  /\ job' = [job EXCEPT ![w] = NoCopy]
  /\ UNCHANGED <<published, body, attempt, stores, process, alerts, counted,
                 history, disruptions>>
-----------------------------------------------------------------------------
(* The process and its connection *)

\* A fault of the given kind happens, within the bound.
Disrupt(kind) ==
  /\ kind \in Faults
  /\ disruptions < MaxDisruptions
  /\ disruptions' = disruptions + 1

\* What a process forgets when it ends: its goroutines and its metrics.
Forget ==
  /\ engine' = "down"
  /\ pc'      = [w \in Workers |-> "idle"]
  /\ job'     = [w \in Workers |-> NoCopy]
  /\ alerts'  = [w \in Workers |-> 0]
  /\ counted' = [e \in Envelopes |-> 0]

\* SIGTERM cancels the context of every store call.
Stop ==
  /\ engine = "running"
  /\ Disrupt("stop")
  /\ engine' = "stopping"
  /\ UNCHANGED <<published, broker, stores, conn, worker, counted, history>>

\* main closes the connection; it does not wait for the workers.
CloseConn ==
  /\ engine = "stopping" /\ conn
  /\ conn' = FALSE
  /\ RequeueUnacked
  /\ UNCHANGED <<published, body, attempt, stores, engine, worker, counted,
                 history, disruptions>>

\* main returns, whatever the workers are doing.
Exit ==
  /\ engine = "stopping" /\ ~conn
  /\ Forget
  /\ UNCHANGED <<published, broker, stores, conn, history, disruptions>>

Crash ==
  /\ engine # "down"
  /\ Disrupt("crash")
  /\ Forget
  /\ conn' = FALSE
  /\ RequeueUnacked
  /\ UNCHANGED <<published, body, attempt, stores, history>>

\* The container is started again and connects.
Restart ==
  /\ engine = "down"
  /\ engine' = "running"
  /\ conn' = TRUE
  /\ UNCHANGED <<published, broker, stores, worker, counted, history,
                 disruptions>>

\* The broker or the network closes the connection.  The deliveries channel is
\* closed, Run waits for the context, and nothing connects again.
ConnLost ==
  /\ engine = "running" /\ conn
  /\ Disrupt("conn")
  /\ conn' = FALSE
  /\ RequeueUnacked
  /\ UNCHANGED <<published, body, attempt, stores, engine, worker, counted,
                 history>>
-----------------------------------------------------------------------------
Handle(w) ==
  \/ TryMarkMessage(w)
  \/ Evaluate(w)
  \/ SaveAlerts(w)
  \/ ReleaseMessageMark(w)
  \/ PublishRetry(w)
  \/ PublishRetryFails(w)
  \/ PublishDLQ(w)
  \/ PublishDLQFails(w)
  \/ Ack(w)

Next ==
  \/ \E e \in Envelopes : Publish(e) \/ MarkExpire(e)
  \/ \E c \in Copies : Deliver(c) \/ RetryExpire(c)
  \/ \E w \in Workers : Handle(w) \/ \E c \in Copies : Take(w, c)
  \/ Stop \/ CloseConn \/ Exit \/ Crash \/ Restart \/ ConnLost

Spec == Init /\ [][Next]_vars

\* The goroutines run, the broker delivers and expires, main finishes what it
\* started and the container's restart policy applies.
Fairness ==
  /\ \A w \in Workers : WF_vars(Handle(w))
  /\ \A c \in Copies : /\ WF_vars(Deliver(c))
                       /\ WF_vars(RetryExpire(c))
                       /\ WF_vars(\E w \in Workers : Take(w, c))
  /\ WF_vars(CloseConn) /\ WF_vars(Exit) /\ WF_vars(Restart)

FairSpec == Spec /\ Fairness
-----------------------------------------------------------------------------
(* Properties *)

\* The type invariant.  It bounds the retry header: retryOrDlq never publishes
\* a copy whose x-retry-count is above MaxAttempts.
TypeOK ==
  /\ published   \in [Envelopes -> Nat]
  /\ loc         \in [Copies -> Places]
  /\ body        \in [Copies -> Envelopes]
  /\ attempt     \in [Copies -> 0..MaxAttempts]
  /\ marks       \subseteq WithID
  /\ saved       \in [Envelopes -> Nat]
  /\ engine      \in {"running", "stopping", "down"}
  /\ conn        \in BOOLEAN
  /\ pc          \in [Workers -> Steps]
  /\ job         \in [Workers -> Copies \union {NoCopy}]
  /\ alerts      \in [Workers -> Nat]
  /\ counted     \in [Envelopes -> Nat]
  /\ completions \in [Envelopes -> Nat]
  /\ dlqFailed   \subseteq Envelopes
  /\ expired     \subseteq Envelopes
  /\ disruptions \in Nat

\* The worker will still acknowledge copy c, and the broker will listen.
AboutToAck(c) == conn /\ \E w \in Workers : pc[w] = "ack" /\ job[w] = c

\* Some queue or worker still has envelope e; dead letters count.
Kept(e) == \E c \in Copies : loc[c] # "free" /\ body[c] = e

\* An envelope that was published, was never handled to the end and is on no
\* queue was lost in one of two ways: its mark outlived the attempt that set
\* it (and is there, or was until it expired), so that a later delivery passed
\* for a duplicate, or PublishDLQ failed and the copy was acknowledged all the same.
LossExplained ==
  \A e \in Envelopes :
    published[e] > 0 /\ completions[e] = 0 /\ ~Kept(e)
      => e \in marks \union expired \/ e \in dlqFailed

\* A message with an id is handled to the end at most once, whatever is
\* published twice, redelivered after a lost connection or a crash, or retried.
AtMostOnce == \A e \in WithID : completions[e] <= 1

\* Only what cannot be decoded, or has used every attempt, is dead-lettered.
DeadLetterReason ==
  \A c \in Copies :
    loc[c] = "dlq" => body[c] \in Malformed \/ attempt[c] = MaxAttempts

\* A worker that set a mark and has neither finished nor given it back.
Owns(w, e) ==
  /\ pc[w] \in {"evaluate", "save", "release"}
  /\ Env(w) = e

\* A mark in Redis stands for work that is done or in a worker's hands: a
\* failed attempt never leaves one behind to swallow the retry.
MarkJustified ==
  \A e \in marks : completions[e] > 0 \/ \E w \in Workers : Owns(w, e)

\* The abstract view: an envelope is pending while a copy of it may still be
\* handled, done once an attempt succeeded, dead once it is in the DLQ.
Live == {"main", "buffered", "handling", "stuck", "retry"}
pending == {e \in Envelopes : \E c \in Copies : loc[c] \in Live /\ body[c] = e}
done    == {e \in Envelopes : completions[e] > 0}
dead    == {e \in Envelopes : \E c \in Copies : loc[c] = "dlq" /\ body[c] = e}

\* No message leaves the pipeline unless it was handled or dead-lettered.
Abstract == INSTANCE AtLeastOnce
  WITH Envelopes <- Envelopes, pending <- pending, done <- done, dead <- dead
ImplementsAtLeastOnce == Abstract!Spec

\* The connection is lost, the engine runs on and nothing connects again.
CutOff == engine = "running" /\ ~conn

\* A delivery whose retry could not be published is never acknowledged: it stays,
\* and with it, once such deliveries take the whole prefetch, everything else.
Starved(e) ==
  LET stuck == {c \in Copies : loc[c] = "stuck"}
  IN  Cardinality(stuck) >= Prefetch \/ \E c \in stuck : body[c] = e

\* Whatever is published is settled: handled, dead-lettered or dropped, it does
\* not stay in the queues, in a worker or unacknowledged, but where the engine
\* lost its connection or starves.
Settles ==
  \A e \in Envelopes :
    published[e] > 0 ~> e \notin pending \/ CutOff \/ Starved(e)

\* Of the deliveries of one message_id, one evaluation at most yields alerts:
\* none does while or after another has.
DuplicateYieldsNothing ==
  \A w \in Workers :
    pc[w] = "save" /\ Env(w) \in WithID =>
      /\ completions[Env(w)] = 0
      /\ \A v \in Workers \ {w} : ~(pc[v] = "save" /\ Env(v) = Env(w))
=============================================================================
