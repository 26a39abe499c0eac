------------------------------- MODULE Broker -------------------------------
(***************************************************************************)
(* The exchanges and queues of RabbitMQ as rule_engine sets them up and    *)
(* uses them: the nine declarations of SetupTopology, made at every start  *)
(* before the engine consumes; what iot_controller publishes straight to   *)
(* the main queue; and the way of a message that fails through the retry   *)
(* queue, whose messages expire at its head only, back to the main queue   *)
(* or to the dead letters.                                                 *)
(*                                                                         *)
(* A message is handled in one step here; Delivery has the steps of it,    *)
(* with the prefetch, the acknowledgements and what may fail between.      *)
(***************************************************************************)
EXTENDS Backoff, Sequences, FiniteSets

CONSTANTS
  Messages,     \* what producers publish
  Headers,      \* the values of x-retry-count producers send
  MaxAttempts,  \* RABBIT_RETRY_MAX_ATTEMPTS
  MaxFailures   \* bound: starts that fail, and crashes

ASSUME BrokerAssumption ==
  /\ \A h \in Headers : IsHeader(h)
  /\ MaxAttempts \in Nat
  /\ MaxFailures \in Nat

VARIABLES
  declared,  \* the exchanges, queues and bindings that exist
  engine,    \* the process: down, starting or consuming
  step,      \* the declaration SetupTopology makes next
  place,     \* place[m]: where m is
  header,    \* header[m]: its x-retry-count
  waiting,   \* the retry queue: messages, what is left of their expiration, and
             \* for how long they have been there
  first,     \* history: first[m]: the x-retry-count m was published with
  tries,     \* history: tries[m]: how often handling m failed
  failures   \* how many failures there were

vars == <<declared, engine, step, place, header, waiting, first, tries, failures>>

\* A message without an expiration stays.
Never == -1
-----------------------------------------------------------------------------
(* Topology *)

\* What SetupTopology declares, in that order.
Topology ==
  <<"exchange", "retry exchange", "dlx", "queue", "binding", "retry queue",
    "retry binding", "dlq", "dlq binding">>

\* What a message passes on its way to each queue.
Route == [main  |-> {"exchange", "binding", "queue"},
          retry |-> {"retry exchange", "retry binding", "retry queue"},
          dlq   |-> {"dlx", "dlq binding", "dlq"}]

\* Where m is once it was sent to queue q: what cannot be routed is dropped.
Routed(m, q) ==
  place' = [place EXCEPT ![m] = IF Route[q] \subseteq declared THEN q ELSE "lost"]
-----------------------------------------------------------------------------
Init ==
  /\ declared = {}
  /\ engine   = "down"
  /\ step     = 1
  /\ place    = [m \in Messages |-> "unsent"]
  /\ header  \in [Messages -> Headers]
  /\ first    = header
  /\ waiting  = <<>>
  /\ tries    = [m \in Messages |-> 0]
  /\ failures = 0

\* The process starts and reaches Mongo, Redis and RabbitMQ.
Start ==
  /\ engine = "down"
  /\ engine' = "starting"
  /\ step'   = 1
  /\ UNCHANGED <<declared, place, header, waiting, first, tries, failures>>

Declare ==
  /\ engine = "starting"
  /\ step <= Len(Topology)
  /\ declared' = declared \union {Topology[step]}
  /\ step'     = step + 1
  /\ UNCHANGED <<engine, place, header, waiting, first, tries, failures>>

\* MUTANT of Consume: before the topology is complete.
ConsumeEarly ==
  /\ engine = "starting"
  /\ "queue" \in declared
  /\ engine' = "consuming"
  /\ UNCHANGED <<declared, step, place, header, waiting, first, tries, failures>>

Consume ==
  /\ engine = "starting"
  /\ step > Len(Topology)
  /\ engine' = "consuming"
  /\ UNCHANGED <<declared, step, place, header, waiting, first, tries, failures>>

\* A step of the start fails and main panics, or the process ends later.
Fail ==
  /\ engine # "down"
  /\ failures < MaxFailures
  /\ engine'   = "down"
  /\ failures' = failures + 1
  /\ UNCHANGED <<declared, step, place, header, waiting, first, tries>>

\* A producer publishes to the default exchange, which has a route to every
\* queue by its name; nobody learns when there is no such queue.
Publish(m) ==
  /\ place[m] = "unsent"
  /\ place' = [place EXCEPT ![m] = IF "queue" \in declared THEN "main" ELSE "unrouted"]
  /\ UNCHANGED <<declared, engine, step, header, waiting, first, tries, failures>>

Handled(m) ==
  /\ engine = "consuming"
  /\ place[m] = "main"
  /\ place' = [place EXCEPT ![m] = "done"]
  /\ UNCHANGED <<declared, engine, step, header, waiting, first, tries, failures>>

\* Whether retryOrDlq gives up on m.
Exhausted(m) == RetryCount(header[m]) + 1 > MaxAttempts

PublishDLQ(m) ==
  /\ engine = "consuming"
  /\ place[m] = "main"
  /\ Exhausted(m)
  /\ Routed(m, "dlq")
  /\ tries' = [tries EXCEPT ![m] = @ + 1]
  /\ UNCHANGED <<declared, engine, step, header, waiting, first, failures>>

PublishRetry(m) ==
  LET attempt == RetryCount(header[m]) + 1
  IN
  /\ engine = "consuming"
  /\ place[m] = "main"
  /\ ~Exhausted(m)
  /\ Routed(m, "retry")
  /\ header' = [header EXCEPT ![m] = [kind |-> "number", value |-> attempt]]
  /\ \E d \in NextRetryDelay(attempt) :
       waiting' = IF place'[m] = "retry"
                  THEN Append(waiting, [msg  |-> m, age |-> 0,
                                        left |-> IF d > 0 THEN d ELSE Never])
                  ELSE waiting
  /\ tries' = [tries EXCEPT ![m] = @ + 1]
  /\ UNCHANGED <<declared, engine, step, first, failures>>

\* The head of the retry queue is dead-lettered to the exchange of the main one.
Expire ==
  /\ waiting # <<>>
  /\ Head(waiting).left = 0
  /\ Routed(Head(waiting).msg, "main")
  /\ waiting' = Tail(waiting)
  /\ UNCHANGED <<declared, engine, step, header, first, tries, failures>>

\* Time passes, but for a head that is due.  Ages are told up to one beyond the
\* longest delay.
Tick ==
  /\ waiting # <<>>
  /\ Head(waiting).left # 0
  /\ waiting' =
       [i \in DOMAIN waiting |->
          [waiting[i] EXCEPT
             !.left = IF @ \in {0, Never} THEN @ ELSE @ - 1,
             !.age  = IF @ > Longest THEN @ ELSE @ + 1]]
  /\ UNCHANGED <<declared, engine, step, place, header, first, tries, failures>>

Next ==
  \/ Start \/ Declare \/ Consume \/ Fail \/ Expire \/ Tick
  \/ \E m \in Messages :
       Publish(m) \/ Handled(m) \/ PublishRetry(m) \/ PublishDLQ(m)

Spec == Init /\ [][Next]_vars

\* The container is restarted, a start goes on, messages are handled and time
\* passes.
Fairness ==
  /\ WF_vars(Start) /\ WF_vars(Declare) /\ WF_vars(Consume)
  /\ WF_vars(Expire) /\ WF_vars(Tick)
  /\ \A m \in Messages : WF_vars(Handled(m) \/ PublishRetry(m) \/ PublishDLQ(m))

FairSpec == Spec /\ Fairness
-----------------------------------------------------------------------------
(* Properties *)

\* The type invariant.  No message waits for an attempt it has not left.
TypeOK ==
  /\ declared \subseteq {Topology[i] : i \in DOMAIN Topology}
  /\ engine   \in {"down", "starting", "consuming"}
  /\ step     \in 1..Len(Topology) + 1
  /\ place    \in [Messages -> {"unsent", "unrouted", "main", "retry", "dlq",
                                "done", "lost"}]
  /\ \A m \in Messages : IsHeader(header[m]) /\ first[m] \in Headers
  /\ \A i \in DOMAIN waiting :
       /\ place[waiting[i].msg] = "retry"
       /\ RetryCount(header[waiting[i].msg]) <= MaxAttempts
       /\ waiting[i].left \in Nat \union {Never}
       /\ waiting[i].age  \in 0..Longest + 1
  /\ tries \in [Messages -> Nat]
  /\ failures \in 0..MaxFailures

\* Nothing the engine publishes, and nothing that expires, is without a route,
\* however its starts failed before.
NothingLost == \A m \in Messages : place[m] # "lost"

\* A message that fails is back in the main queue after the longest delay, though
\* those before it hold it up.
ReturnsInTime == \A i \in DOMAIN waiting : waiting[i].age <= Longest

\* A message fails once more than it has attempts left, whatever form the count in
\* its header has; checked with the type invariant.
TriesBounded ==
  /\ TypeOK
  /\ \A m \in Messages :
       LET used == IF first[m].kind = "other" THEN 0 ELSE first[m].value
       IN  tries[m] <= IF used < MaxAttempts THEN MaxAttempts - used + 1 ELSE 1

\* A message in the main or the retry queue is handled or dead-lettered in the end.
Settles ==
  \A m \in Messages :
    place[m] \in {"main", "retry"} ~> place[m] \in {"done", "dlq"}
=============================================================================
