--------------------------- MODULE DeliveryProofs ---------------------------
(***************************************************************************)
(* Theorems about Delivery, for any envelopes, workers, prefetch and number *)
(* of attempts, and for every combination of faults the statement allows.  *)
(***************************************************************************)
EXTENDS Delivery, TLAPS

\* A busy worker holds a copy nobody else holds.  While the connection is open
\* the broker has it as handled; once it is closed the copy is back on the
\* queue, where it stays until the process, which never connects again, ends.
Holding ==
  /\ \A w \in Workers :
       /\ pc[w] # "idle" <=> job[w] \in Copies
       /\ pc[w] # "idle" =>
            loc[job[w]] = (IF conn THEN "handling" ELSE "main")
       /\ pc[w] = "mark" => Env(w) \in WithID
       /\ engine = "down" => pc[w] = "idle"
  /\ \A w, v \in Workers : job[w] = job[v] /\ pc[w] # "idle" => w = v
  /\ engine = "down" => ~conn
  /\ ~conn => Unacked = {}

Structure == TypeOK /\ Holding

\* The initial states have that structure.
LEMMA StructureInit == Init => Structure
  BY DeliveryAssumption DEF Init, Structure, TypeOK, Holding, Unacked, Places,
     Steps

\* Every step keeps it.
LEMMA StructureStep == Structure /\ [Next]_vars => Structure'
<1> SUFFICES ASSUME Structure, [Next]_vars PROVE Structure'
  OBVIOUS
<1> USE DeliveryAssumption
    DEF Structure, TypeOK, Holding, Unacked, Places, Steps, Env, Goto
<1>1. ASSUME NEW e \in Envelopes, Publish(e) PROVE Structure'
  BY <1>1 DEF Publish, Enqueue, broker, stores, process, worker, history
<1>2. ASSUME NEW e \in Envelopes, MarkExpire(e) PROVE Structure'
  BY <1>2 DEF MarkExpire, broker, process, worker
<1>3. ASSUME NEW c \in Copies, Deliver(c) PROVE Structure'
  BY <1>3 DEF Deliver, Consuming, stores, process, worker, history
<1>4. ASSUME NEW c \in Copies, RetryExpire(c) PROVE Structure'
  BY <1>4 DEF RetryExpire, stores, process, worker, history
<1>5. ASSUME NEW w \in Workers, NEW c \in Copies, Take(w, c) PROVE Structure'
  BY <1>5 DEF Take, FirstStep, stores, process, history
<1>6. ASSUME NEW w \in Workers, TryMarkMessage(w) PROVE Structure'
  BY <1>6 DEF TryMarkMessage, broker, process, history
<1>7. ASSUME NEW w \in Workers, Evaluate(w) PROVE Structure'
  BY <1>7 DEF Evaluate, broker, stores, process
<1>8. ASSUME NEW w \in Workers, SaveAlerts(w) PROVE Structure'
  <2>1. alerts[w] \in Nat /\ Env(w) \in Envelopes
    BY <1>8 DEF SaveAlerts
  <2>2. Insertable(Env(w), alerts[w]) \in Nat
    BY <2>1 DEF Insertable
  <2>3. /\ saved' \in [Envelopes -> Nat]
        /\ counted' \in [Envelopes -> Nat]
        /\ completions' \in [Envelopes -> Nat]
    BY <1>8, <2>1, <2>2 DEF SaveAlerts
  <2>4. TypeOK'
    BY <1>8, <2>3 DEF SaveAlerts, broker, process
  <2>5. Holding'
    BY <1>8 DEF SaveAlerts, broker, process
  <2> QED
    BY <2>4, <2>5
<1>9. ASSUME NEW w \in Workers, ReleaseMessageMark(w) PROVE Structure'
  BY <1>9 DEF ReleaseMessageMark, broker, process, history
<1>10. ASSUME NEW w \in Workers, PublishRetry(w) PROVE Structure'
  BY <1>10 DEF PublishRetry, Enqueue, Exhausted, stores, process, history
<1>11. ASSUME NEW w \in Workers, PublishRetryFails(w) PROVE Structure'
  BY <1>11 DEF PublishRetryFails, stores, process, history
<1>12. ASSUME NEW w \in Workers, PublishDLQ(w) PROVE Structure'
  BY <1>12 DEF PublishDLQ, GivesUp, Enqueue, stores, process, history
<1>13. ASSUME NEW w \in Workers, PublishDLQFails(w) PROVE Structure'
  BY <1>13 DEF PublishDLQFails, GivesUp, broker, stores, process
<1>14. ASSUME NEW w \in Workers, Ack(w) PROVE Structure'
  BY <1>14 DEF Ack, stores, process, history
<1>15. ASSUME Stop PROVE Structure'
  BY <1>15 DEF Stop, Disrupt, broker, stores, worker, history
<1>16. ASSUME CloseConn PROVE Structure'
  BY <1>16 DEF CloseConn, RequeueUnacked, stores, worker, history
<1>17. ASSUME Exit PROVE Structure'
  BY <1>17 DEF Exit, Forget, broker, stores, history
<1>18. ASSUME Crash PROVE Structure'
  <2>1. loc' \in [Copies -> Places]
    BY <1>18 DEF Crash, RequeueUnacked
  <2>2. disruptions' \in Nat
    BY <1>18 DEF Crash, Disrupt
  <2>3. TypeOK'
    BY <1>18, <2>1, <2>2 DEF Crash, Forget, stores, history
  <2>4. Holding'
    BY <1>18 DEF Crash, Forget, RequeueUnacked
  <2> QED
    BY <2>3, <2>4
<1>19. ASSUME Restart PROVE Structure'
  BY <1>19 DEF Restart, broker, stores, worker, history
<1>20. ASSUME ConnLost PROVE Structure'
  <2>1. loc' \in [Copies -> Places]
    BY <1>20 DEF ConnLost, RequeueUnacked
  <2>2. disruptions' \in Nat
    BY <1>20 DEF ConnLost, Disrupt
  <2>3. TypeOK'
    BY <1>20, <2>1, <2>2 DEF ConnLost, stores, worker, history
  <2>4. Holding'
    BY <1>20 DEF ConnLost, RequeueUnacked, stores, worker
  <2> QED
    BY <2>3, <2>4
<1>21. CASE UNCHANGED vars
  BY <1>21 DEF vars, broker, stores, process, worker, history
<1> QED
  BY <1>1, <1>2, <1>3, <1>4, <1>5, <1>6, <1>7, <1>8, <1>9, <1>10, <1>11,
     <1>12, <1>13, <1>14, <1>15, <1>16, <1>17, <1>18, <1>19, <1>20, <1>21
  DEF Next, Handle

\* The type invariant holds; in particular no copy carries more attempts than
\* retryOrDlq allows.
THEOREM TypeCorrect == Spec => []TypeOK
<1>1. Structure /\ [Next]_vars => Structure'
  BY StructureStep
<1>2. Structure => TypeOK
  BY DEF Structure
<1> QED
  BY <1>1, <1>2, StructureInit, PTL DEF Spec
-----------------------------------------------------------------------------
(* Loss *)

\* A copy of e that no pending acknowledgement will remove.
Safe(c, e) == loc[c] # "free" /\ body[c] = e /\ ~AboutToAck(c)

\* LossExplained is not inductive: a copy about to be acknowledged still counts
\* as kept.  What is inductive is that by then the envelope is accounted for in
\* another way.
AccountedFor(e) ==
  published[e] > 0 =>
    \/ completions[e] > 0
    \/ e \in marks
    \/ e \in expired
    \/ e \in dlqFailed
    \/ \E c \in Copies : Safe(c, e)

Accounted == \A e \in Envelopes : AccountedFor(e)

LEMMA AccountedStep ==
  ASSUME Structure, Structure', Accounted, [Next]_vars
  PROVE  Accounted'
<1> SUFFICES ASSUME NEW e \in Envelopes PROVE AccountedFor(e)'
  BY DEF Accounted
<1>0. AccountedFor(e)
  BY DEF Accounted
<1> USE <1>0 DEF Structure, TypeOK, Holding, Unacked, Env, Goto, AccountedFor,
                 Safe, AboutToAck, Steps
<1>1. ASSUME NEW f \in Envelopes, Publish(f) PROVE AccountedFor(e)'
  BY <1>1 DEF Publish, Enqueue, broker, stores, process, worker, history
<1>2. ASSUME NEW f \in Envelopes, MarkExpire(f) PROVE AccountedFor(e)'
  BY <1>2 DEF MarkExpire, broker, process, worker
<1>3. ASSUME NEW c \in Copies, Deliver(c) PROVE AccountedFor(e)'
  BY <1>3 DEF Deliver, Consuming, stores, process, worker, history
<1>4. ASSUME NEW c \in Copies, RetryExpire(c) PROVE AccountedFor(e)'
  BY <1>4 DEF RetryExpire, stores, process, worker, history
<1>5. ASSUME NEW w \in Workers, NEW c \in Copies, Take(w, c)
      PROVE AccountedFor(e)'
  BY <1>5 DEF Take, FirstStep, stores, process, history
<1>6. ASSUME NEW w \in Workers, TryMarkMessage(w) PROVE AccountedFor(e)'
  BY <1>6 DEF TryMarkMessage, broker, process, history
<1>7. ASSUME NEW w \in Workers, Evaluate(w) PROVE AccountedFor(e)'
  BY <1>7 DEF Evaluate, broker, stores, process
<1>8. ASSUME NEW w \in Workers, SaveAlerts(w) PROVE AccountedFor(e)'
  BY <1>8 DEF SaveAlerts, Insertable, broker, process
<1>9. ASSUME NEW w \in Workers, ReleaseMessageMark(w) PROVE AccountedFor(e)'
  BY <1>9 DEF ReleaseMessageMark, broker, process, history
<1>10. ASSUME NEW w \in Workers, PublishRetry(w) PROVE AccountedFor(e)'
  BY <1>10 DEF PublishRetry, Enqueue, Exhausted, stores, process, history
<1>11. ASSUME NEW w \in Workers, PublishRetryFails(w) PROVE AccountedFor(e)'
  BY <1>11 DEF PublishRetryFails, stores, process, history
<1>12. ASSUME NEW w \in Workers, PublishDLQ(w) PROVE AccountedFor(e)'
  BY <1>12 DEF PublishDLQ, GivesUp, Enqueue, stores, process, history
<1>13. ASSUME NEW w \in Workers, PublishDLQFails(w) PROVE AccountedFor(e)'
  BY <1>13 DEF PublishDLQFails, GivesUp, broker, stores, process
<1>14. ASSUME NEW w \in Workers, Ack(w) PROVE AccountedFor(e)'
  BY <1>14 DEF Ack, stores, process, history
<1>15. ASSUME Stop PROVE AccountedFor(e)'
  BY <1>15 DEF Stop, broker, stores, worker, history
<1>16. ASSUME CloseConn PROVE AccountedFor(e)'
  BY <1>16 DEF CloseConn, RequeueUnacked, stores, worker, history
<1>17. ASSUME Exit PROVE AccountedFor(e)'
  BY <1>17 DEF Exit, Forget, broker, stores, history
<1>18. ASSUME Crash PROVE AccountedFor(e)'
  BY <1>18 DEF Crash, Forget, RequeueUnacked, stores, history
<1>19. ASSUME Restart PROVE AccountedFor(e)'
  BY <1>19 DEF Restart, broker, stores, worker, history
<1>20. ASSUME ConnLost PROVE AccountedFor(e)'
  BY <1>20 DEF ConnLost, RequeueUnacked, stores, worker, history
<1>21. CASE UNCHANGED vars
  BY <1>21 DEF vars, broker, stores, process, worker, history
<1> QED
  BY <1>1, <1>2, <1>3, <1>4, <1>5, <1>6, <1>7, <1>8, <1>9, <1>10, <1>11,
     <1>12, <1>13, <1>14, <1>15, <1>16, <1>17, <1>18, <1>19, <1>20, <1>21
  DEF Next, Handle

\* A published envelope that was never handled to the end and is on no queue
\* has or had a mark in Redis or failed to reach the dead-letter queue: whatever
\* else fails or is interrupted, and however often, loses nothing.
THEOREM LossIsExplained == Spec => []LossExplained
<1>1. Init => Accounted
  BY DEF Init, Accounted, AccountedFor
<1>2. Structure /\ Structure' /\ Accounted /\ [Next]_vars => Accounted'
  BY AccountedStep
<1>3. Accounted => LossExplained
  BY DEF Accounted, AccountedFor, LossExplained, Kept, Safe
<1>4. Structure /\ [Next]_vars => Structure'
  BY StructureStep
<1> QED
  BY <1>1, <1>2, <1>3, <1>4, StructureInit, PTL DEF Spec
-----------------------------------------------------------------------------
(* Dead letters *)

\* A worker that rejects a copy holds one that cannot be decoded; with that, what
\* DeadLetterReason says of the dead-letter queue is inductive.
Reasoned ==
  /\ \A w \in Workers : pc[w] = "reject" => Env(w) \in Malformed
  /\ DeadLetterReason

LEMMA ReasonedStep ==
  ASSUME Structure, Structure', Reasoned, [Next]_vars
  PROVE  Reasoned'
<1> USE DeliveryAssumption
    DEF Structure, TypeOK, Holding, Unacked, Env, Goto, Reasoned,
        DeadLetterReason, Steps, Places
<1>1. ASSUME NEW f \in Envelopes, Publish(f) PROVE Reasoned'
  BY <1>1 DEF Publish, Enqueue, broker, stores, process, worker, history
<1>2. ASSUME NEW f \in Envelopes, MarkExpire(f) PROVE Reasoned'
  BY <1>2 DEF MarkExpire, broker, process, worker
<1>3. ASSUME NEW c \in Copies, Deliver(c) PROVE Reasoned'
  BY <1>3 DEF Deliver, stores, process, worker, history
<1>4. ASSUME NEW c \in Copies, RetryExpire(c) PROVE Reasoned'
  BY <1>4 DEF RetryExpire, stores, process, worker, history
<1>5. ASSUME NEW w \in Workers, NEW c \in Copies, Take(w, c) PROVE Reasoned'
  BY <1>5 DEF Take, FirstStep, stores, process, history
<1>6. ASSUME NEW w \in Workers, TryMarkMessage(w) PROVE Reasoned'
  BY <1>6 DEF TryMarkMessage, broker, process, history
<1>7. ASSUME NEW w \in Workers, Evaluate(w) PROVE Reasoned'
  BY <1>7 DEF Evaluate, broker, stores, process
<1>8. ASSUME NEW w \in Workers, SaveAlerts(w) PROVE Reasoned'
  BY <1>8 DEF SaveAlerts, broker, process
<1>9. ASSUME NEW w \in Workers, ReleaseMessageMark(w) PROVE Reasoned'
  BY <1>9 DEF ReleaseMessageMark, broker, process, history
<1>10. ASSUME NEW w \in Workers, PublishRetry(w) PROVE Reasoned'
  BY <1>10 DEF PublishRetry, Enqueue, Exhausted, stores, process, history
<1>11. ASSUME NEW w \in Workers, PublishRetryFails(w) PROVE Reasoned'
  BY <1>11 DEF PublishRetryFails, stores, process, history
<1>12. ASSUME NEW w \in Workers, PublishDLQ(w) PROVE Reasoned'
  <2>1. Env(w) \in Malformed \/ attempt[job[w]] = MaxAttempts
    <3>1. CASE pc[w] = "reject"
      BY <3>1
    <3>2. CASE pc[w] = "requeue" /\ Exhausted(job[w])
      <4>1. job[w] \in Copies
        BY <3>2
      <4>2. attempt[job[w]] \in 0..MaxAttempts /\ attempt[job[w]] + 1 > MaxAttempts
        BY <3>2, <4>1 DEF Exhausted
      <4>3. attempt[job[w]] = MaxAttempts
        BY ONLY <4>2, DeliveryAssumption
      <4> QED
        BY <4>3
    <3> QED
      BY <1>12, <3>1, <3>2 DEF PublishDLQ, GivesUp
  <2> QED
    BY <1>12, <2>1 DEF PublishDLQ, GivesUp, Enqueue, stores, process, history
<1>13. ASSUME NEW w \in Workers, PublishDLQFails(w) PROVE Reasoned'
  BY <1>13 DEF PublishDLQFails, broker, stores, process
<1>14. ASSUME NEW w \in Workers, Ack(w) PROVE Reasoned'
  BY <1>14 DEF Ack, stores, process, history
<1>15. ASSUME Stop PROVE Reasoned'
  BY <1>15 DEF Stop, broker, stores, worker, history
<1>16. ASSUME CloseConn PROVE Reasoned'
  BY <1>16 DEF CloseConn, RequeueUnacked, stores, worker, history
<1>17. ASSUME Exit PROVE Reasoned'
  BY <1>17 DEF Exit, Forget, broker, stores, history
<1>18. ASSUME Crash PROVE Reasoned'
  BY <1>18 DEF Crash, Forget, RequeueUnacked, stores, history
<1>19. ASSUME Restart PROVE Reasoned'
  BY <1>19 DEF Restart, broker, stores, worker, history
<1>20. ASSUME ConnLost PROVE Reasoned'
  BY <1>20 DEF ConnLost, RequeueUnacked, stores, worker, history
<1>21. CASE UNCHANGED vars
  BY <1>21 DEF vars, broker, stores, process, worker, history
<1> QED
  BY <1>1, <1>2, <1>3, <1>4, <1>5, <1>6, <1>7, <1>8, <1>9, <1>10, <1>11,
     <1>12, <1>13, <1>14, <1>15, <1>16, <1>17, <1>18, <1>19, <1>20, <1>21
  DEF Next, Handle

\* Only what cannot be decoded, or has used every attempt, is dead-lettered,
\* whatever fails.
THEOREM DeadLettersHaveReason == Spec => []DeadLetterReason
<1>1. Init => Reasoned
  BY DEF Init, Reasoned, DeadLetterReason
<1>2. Structure /\ Structure' /\ Reasoned /\ [Next]_vars => Reasoned'
  BY ReasonedStep
<1>3. Reasoned => DeadLetterReason
  BY DEF Reasoned
<1>4. Structure /\ [Next]_vars => Structure'
  BY StructureStep
<1> QED
  BY <1>1, <1>2, <1>3, <1>4, StructureInit, PTL DEF Spec
-----------------------------------------------------------------------------
(* Deduplication *)

\* Worker w set the mark of e and may still finish e or give the mark back.  A
\* worker whose process is stopping can do neither: its calls to Redis fail.
Working(w, e) ==
  /\ \/ pc[w] \in {"evaluate", "save"}
     \/ pc[w] = "release" /\ engine = "running"
  /\ Env(w) = e

\* AtMostOnce needs to know who may complete an envelope: at most one worker,
\* only while it is marked, and nobody once it was completed.
OnceFor(e) ==
  /\ completions[e] <= 1
  /\ completions[e] > 0 => e \in marks
  /\ \A w \in Workers : Working(w, e) => e \in marks /\ completions[e] = 0
  /\ \A w, v \in Workers : Working(w, e) /\ Working(v, e) => w = v

Once == \A e \in WithID : OnceFor(e)

LEMMA OnceStep ==
  ASSUME {"redis", "expire"} \cap Faults = {},
         Structure, Structure', Once, [Next]_vars
  PROVE  Once'
<1> SUFFICES ASSUME NEW e \in WithID PROVE OnceFor(e)'
  BY DEF Once
<1>0. OnceFor(e)
  BY DEF Once
<1> USE <1>0, DeliveryAssumption
    DEF Structure, TypeOK, Holding, Unacked, Env, Goto, OnceFor, Working, Steps
<1>1. ASSUME NEW f \in Envelopes, Publish(f) PROVE OnceFor(e)'
  BY <1>1 DEF Publish, Enqueue, broker, stores, process, worker, history
<1>2. ASSUME NEW f \in Envelopes, MarkExpire(f) PROVE OnceFor(e)'
  BY <1>2 DEF MarkExpire
<1>3. ASSUME NEW c \in Copies, Deliver(c) PROVE OnceFor(e)'
  BY <1>3 DEF Deliver, Consuming, stores, process, worker, history
<1>4. ASSUME NEW c \in Copies, RetryExpire(c) PROVE OnceFor(e)'
  BY <1>4 DEF RetryExpire, stores, process, worker, history
<1>5. ASSUME NEW w \in Workers, NEW c \in Copies, Take(w, c) PROVE OnceFor(e)'
  BY <1>5 DEF Take, FirstStep, stores, process, history
<1>6. ASSUME NEW w \in Workers, TryMarkMessage(w) PROVE OnceFor(e)'
  BY <1>6 DEF TryMarkMessage, Duplicate, MayFail, MaySucceed, broker, process,
         history
<1>7. ASSUME NEW w \in Workers, Evaluate(w) PROVE OnceFor(e)'
  BY <1>7 DEF Evaluate, MaySucceed, broker, stores, process
<1>8. ASSUME NEW w \in Workers, SaveAlerts(w) PROVE OnceFor(e)'
  BY <1>8 DEF SaveAlerts, MaySucceed, broker, process
<1>9. ASSUME NEW w \in Workers, ReleaseMessageMark(w) PROVE OnceFor(e)'
  BY <1>9 DEF ReleaseMessageMark, MayFail, MaySucceed, broker, process, history
<1>10. ASSUME NEW w \in Workers, PublishRetry(w) PROVE OnceFor(e)'
  BY <1>10 DEF PublishRetry, Enqueue, stores, process, history
<1>11. ASSUME NEW w \in Workers, PublishRetryFails(w) PROVE OnceFor(e)'
  BY <1>11 DEF PublishRetryFails, stores, process, history
<1>12. ASSUME NEW w \in Workers, PublishDLQ(w) PROVE OnceFor(e)'
  BY <1>12 DEF PublishDLQ, GivesUp, Enqueue, stores, process, history
<1>13. ASSUME NEW w \in Workers, PublishDLQFails(w) PROVE OnceFor(e)'
  BY <1>13 DEF PublishDLQFails, GivesUp, broker, stores, process
<1>14. ASSUME NEW w \in Workers, Ack(w) PROVE OnceFor(e)'
  BY <1>14 DEF Ack, stores, process, history
<1>15. ASSUME Stop PROVE OnceFor(e)'
  BY <1>15 DEF Stop, broker, stores, worker, history
<1>16. ASSUME CloseConn PROVE OnceFor(e)'
  BY <1>16 DEF CloseConn, RequeueUnacked, stores, worker, history
<1>17. ASSUME Exit PROVE OnceFor(e)'
  BY <1>17 DEF Exit, Forget, broker, stores, history
<1>18. ASSUME Crash PROVE OnceFor(e)'
  BY <1>18 DEF Crash, Forget, RequeueUnacked, stores, history
<1>19. ASSUME Restart PROVE OnceFor(e)'
  BY <1>19 DEF Restart, broker, stores, worker, history
<1>20. ASSUME ConnLost PROVE OnceFor(e)'
  BY <1>20 DEF ConnLost, RequeueUnacked, stores, worker, history
<1>21. CASE UNCHANGED vars
  BY <1>21 DEF vars, broker, stores, process, worker, history
<1> QED
  BY <1>1, <1>2, <1>3, <1>4, <1>5, <1>6, <1>7, <1>8, <1>9, <1>10, <1>11,
     <1>12, <1>13, <1>14, <1>15, <1>16, <1>17, <1>18, <1>19, <1>20, <1>21
  DEF Next, Handle

\* As long as Redis answers and no mark expires, a message with an id is handled
\* to the end at most once, through any number of duplicates, retries, crashes,
\* shutdowns and lost connections.
THEOREM HandledAtMostOnce ==
  ASSUME {"redis", "expire"} \cap Faults = {}
  PROVE  Spec => []AtMostOnce
<1>1. Init => Once
  BY DeliveryAssumption DEF Init, Once, OnceFor, Working
<1>2. Structure /\ Structure' /\ Once /\ [Next]_vars => Once'
  BY OnceStep
<1>3. Once => AtMostOnce
  BY DEF Once, OnceFor, AtMostOnce
<1>4. Structure /\ [Next]_vars => Structure'
  BY StructureStep
<1> QED
  BY <1>1, <1>2, <1>3, <1>4, StructureInit, PTL DEF Spec
-----------------------------------------------------------------------------
(* Implementing AtLeastOnce *)

\* While Redis answers and the process is neither stopped nor killed, a mark is
\* always justified.
Justified == engine = "running" /\ MarkJustified

LEMMA JustifiedStep ==
  ASSUME Faults \subseteq {"mongo", "publish", "conn"},
         Structure, Structure', Justified, [Next]_vars
  PROVE  Justified'
<1> USE DeliveryAssumption
    DEF Structure, TypeOK, Holding, Unacked, Env, Goto, Justified,
        MarkJustified, Owns, Steps
<1>1. ASSUME NEW f \in Envelopes, Publish(f) PROVE Justified'
  BY <1>1 DEF Publish, Enqueue, broker, stores, process, worker, history
<1>2. ASSUME NEW f \in Envelopes, MarkExpire(f) PROVE Justified'
  BY <1>2 DEF MarkExpire
<1>3. ASSUME NEW c \in Copies, Deliver(c) PROVE Justified'
  BY <1>3 DEF Deliver, Consuming, stores, process, worker, history
<1>4. ASSUME NEW c \in Copies, RetryExpire(c) PROVE Justified'
  BY <1>4 DEF RetryExpire, stores, process, worker, history
<1>5. ASSUME NEW w \in Workers, NEW c \in Copies, Take(w, c) PROVE Justified'
  BY <1>5 DEF Take, FirstStep, stores, process, history
<1>6. ASSUME NEW w \in Workers, TryMarkMessage(w) PROVE Justified'
  BY <1>6 DEF TryMarkMessage, Duplicate, MayFail, MaySucceed, broker, process,
         history
<1>7. ASSUME NEW w \in Workers, Evaluate(w) PROVE Justified'
  BY <1>7 DEF Evaluate, MaySucceed, broker, stores, process
<1>8. ASSUME NEW w \in Workers, SaveAlerts(w) PROVE Justified'
  BY <1>8 DEF SaveAlerts, MaySucceed, broker, process
<1>9. ASSUME NEW w \in Workers, ReleaseMessageMark(w) PROVE Justified'
  BY <1>9 DEF ReleaseMessageMark, MayFail, MaySucceed, broker, process, history
<1>10. ASSUME NEW w \in Workers, PublishRetry(w) PROVE Justified'
  BY <1>10 DEF PublishRetry, Enqueue, stores, process, history
<1>11. ASSUME NEW w \in Workers, PublishRetryFails(w) PROVE Justified'
  BY <1>11 DEF PublishRetryFails, stores, process, history
<1>12. ASSUME NEW w \in Workers, PublishDLQ(w) PROVE Justified'
  BY <1>12 DEF PublishDLQ, GivesUp, Enqueue, stores, process, history
<1>13. ASSUME NEW w \in Workers, PublishDLQFails(w) PROVE Justified'
  BY <1>13 DEF PublishDLQFails, GivesUp, broker, stores, process
<1>14. ASSUME NEW w \in Workers, Ack(w) PROVE Justified'
  BY <1>14 DEF Ack, stores, process, history
<1>15. ASSUME Stop PROVE Justified'
  BY <1>15 DEF Stop, Disrupt
<1>16. ASSUME CloseConn PROVE Justified'
  BY <1>16 DEF CloseConn
<1>17. ASSUME Exit PROVE Justified'
  BY <1>17 DEF Exit
<1>18. ASSUME Crash PROVE Justified'
  BY <1>18 DEF Crash, Disrupt
<1>19. ASSUME Restart PROVE Justified'
  BY <1>19 DEF Restart
<1>20. ASSUME ConnLost PROVE Justified'
  BY <1>20 DEF ConnLost, RequeueUnacked, stores, worker, history
<1>21. CASE UNCHANGED vars
  BY <1>21 DEF vars, broker, stores, process, worker, history
<1> QED
  BY <1>1, <1>2, <1>3, <1>4, <1>5, <1>6, <1>7, <1>8, <1>9, <1>10, <1>11,
     <1>12, <1>13, <1>14, <1>15, <1>16, <1>17, <1>18, <1>19, <1>20, <1>21
  DEF Next, Handle

\* No failed attempt leaves a mark behind: a mark in Redis means that the
\* envelope was handled or that a worker is at it.
THEOREM MarksAreJustified ==
  ASSUME Faults \subseteq {"mongo", "publish", "conn"}
  PROVE  Spec => []MarkJustified
<1>1. Init => Justified
  BY DEF Init, Justified, MarkJustified
<1>2. Structure /\ Structure' /\ Justified /\ [Next]_vars => Justified'
  BY JustifiedStep
<1>3. Justified => MarkJustified
  BY DEF Justified
<1>4. Structure /\ [Next]_vars => Structure'
  BY StructureStep
<1> QED
  BY <1>1, <1>2, <1>3, <1>4, StructureInit, PTL DEF Spec

\* An envelope with copies left was handled, is dead-lettered, or has a copy
\* that no pending acknowledgement will remove.
SafeFor(e) ==
  e \in pending =>
    e \in done \union dead \/ \E c \in Copies : loc[c] \in Live /\ Safe(c, e)

AllSafe == \A e \in Envelopes : SafeFor(e)

LEMMA AllSafeStep ==
  ASSUME Faults \subseteq {"mongo", "conn"},
         Structure, Structure', Justified, AllSafe, [Next]_vars
  PROVE  AllSafe'
<1> SUFFICES ASSUME NEW e \in Envelopes PROVE SafeFor(e)'
  BY DEF AllSafe
<1>0. SafeFor(e)
  BY DEF AllSafe
<1> USE <1>0, DeliveryAssumption
    DEF Structure, TypeOK, Holding, Unacked, Env, Goto, Justified,
        MarkJustified, Owns, Steps, SafeFor, Safe, AboutToAck, Live, pending,
        done, dead
<1>1. ASSUME NEW f \in Envelopes, Publish(f) PROVE SafeFor(e)'
  BY <1>1 DEF Publish, Enqueue, broker, stores, process, worker, history
<1>2. ASSUME NEW f \in Envelopes, MarkExpire(f) PROVE SafeFor(e)'
  BY <1>2 DEF MarkExpire
<1>3. ASSUME NEW c \in Copies, Deliver(c) PROVE SafeFor(e)'
  BY <1>3 DEF Deliver, Consuming, stores, process, worker, history
<1>4. ASSUME NEW c \in Copies, RetryExpire(c) PROVE SafeFor(e)'
  BY <1>4 DEF RetryExpire, stores, process, worker, history
<1>5. ASSUME NEW w \in Workers, NEW c \in Copies, Take(w, c) PROVE SafeFor(e)'
  BY <1>5 DEF Take, FirstStep, stores, process, history
<1>6. ASSUME NEW w \in Workers, TryMarkMessage(w) PROVE SafeFor(e)'
  BY <1>6 DEF TryMarkMessage, Duplicate, MayFail, MaySucceed, broker, process,
         history
<1>7. ASSUME NEW w \in Workers, Evaluate(w) PROVE SafeFor(e)'
  BY <1>7 DEF Evaluate, MaySucceed, broker, stores, process
<1>8. ASSUME NEW w \in Workers, SaveAlerts(w) PROVE SafeFor(e)'
  BY <1>8 DEF SaveAlerts, MaySucceed, broker, process
<1>9. ASSUME NEW w \in Workers, ReleaseMessageMark(w) PROVE SafeFor(e)'
  BY <1>9 DEF ReleaseMessageMark, MayFail, MaySucceed, broker, process, history
<1>10. ASSUME NEW w \in Workers, PublishRetry(w) PROVE SafeFor(e)'
  BY <1>10 DEF PublishRetry, Enqueue, stores, process, history
<1>11. ASSUME NEW w \in Workers, PublishRetryFails(w) PROVE SafeFor(e)'
  BY <1>11 DEF PublishRetryFails, stores, process, history
<1>12. ASSUME NEW w \in Workers, PublishDLQ(w) PROVE SafeFor(e)'
  BY <1>12 DEF PublishDLQ, GivesUp, Enqueue, stores, process, history
<1>13. ASSUME NEW w \in Workers, PublishDLQFails(w) PROVE SafeFor(e)'
  BY <1>13 DEF PublishDLQFails, GivesUp, broker, stores, process
<1>14. ASSUME NEW w \in Workers, Ack(w) PROVE SafeFor(e)'
  BY <1>14 DEF Ack, stores, process, history
<1>15. ASSUME Stop PROVE SafeFor(e)'
  BY <1>15 DEF Stop, Disrupt
<1>16. ASSUME CloseConn PROVE SafeFor(e)'
  BY <1>16 DEF CloseConn
<1>17. ASSUME Exit PROVE SafeFor(e)'
  BY <1>17 DEF Exit
<1>18. ASSUME Crash PROVE SafeFor(e)'
  BY <1>18 DEF Crash, Disrupt
<1>19. ASSUME Restart PROVE SafeFor(e)'
  BY <1>19 DEF Restart
<1>20. ASSUME ConnLost PROVE SafeFor(e)'
  BY <1>20 DEF ConnLost, RequeueUnacked, stores, worker, history
<1>21. CASE UNCHANGED vars
  BY <1>21 DEF vars, broker, stores, process, worker, history
<1> QED
  BY <1>1, <1>2, <1>3, <1>4, <1>5, <1>6, <1>7, <1>8, <1>9, <1>10, <1>11,
     <1>12, <1>13, <1>14, <1>15, <1>16, <1>17, <1>18, <1>19, <1>20, <1>21
  DEF Next, Handle

AbstractStep == [Abstract!Next]_<<pending, done, dead>>

\* Every step is a step of AtLeastOnce or leaves its three sets alone.
LEMMA StepRefines ==
  ASSUME Faults \subseteq {"mongo", "conn"},
         Structure, Structure', Justified, AllSafe, [Next]_vars
  PROVE  AbstractStep
<1> USE DeliveryAssumption
    DEF Structure, TypeOK, Holding, Unacked, Env, Goto, Justified,
        AllSafe, SafeFor, Safe, AboutToAck, Live, pending, done, dead,
        AbstractStep, Abstract!Next, Abstract!Accept, Abstract!Complete,
        Abstract!Bury, Abstract!Leave, Steps
<1>1. ASSUME NEW f \in Envelopes, Publish(f) PROVE AbstractStep
  BY <1>1 DEF Publish, Enqueue, broker, stores, process, worker, history
<1>2. ASSUME NEW f \in Envelopes, MarkExpire(f) PROVE AbstractStep
  BY <1>2 DEF MarkExpire
<1>3. ASSUME NEW c \in Copies, Deliver(c) PROVE AbstractStep
  BY <1>3 DEF Deliver, Consuming, stores, process, worker, history
<1>4. ASSUME NEW c \in Copies, RetryExpire(c) PROVE AbstractStep
  BY <1>4 DEF RetryExpire, stores, process, worker, history
<1>5. ASSUME NEW w \in Workers, NEW c \in Copies, Take(w, c) PROVE AbstractStep
  BY <1>5 DEF Take, stores, process, history
<1>6. ASSUME NEW w \in Workers, TryMarkMessage(w) PROVE AbstractStep
  BY <1>6 DEF TryMarkMessage, broker, history
<1>7. ASSUME NEW w \in Workers, Evaluate(w) PROVE AbstractStep
  BY <1>7 DEF Evaluate, broker
<1>8. ASSUME NEW w \in Workers, SaveAlerts(w) PROVE AbstractStep
  BY <1>8 DEF SaveAlerts, broker
<1>9. ASSUME NEW w \in Workers, ReleaseMessageMark(w) PROVE AbstractStep
  BY <1>9 DEF ReleaseMessageMark, broker, history
<1>10. ASSUME NEW w \in Workers, PublishRetry(w) PROVE AbstractStep
  BY <1>10 DEF PublishRetry, Enqueue, history
<1>11. ASSUME NEW w \in Workers, PublishRetryFails(w) PROVE AbstractStep
  BY <1>11 DEF PublishRetryFails, stores, process, history
<1>12. ASSUME NEW w \in Workers, PublishDLQ(w) PROVE AbstractStep
  <2>1. job[w] \in Copies /\ Env(w) \in pending /\ done' = done
    BY <1>12 DEF PublishDLQ, GivesUp, history
  <2>2. PICK d \in Copies : /\ loc[d] = "free"
                           /\ loc'  = [loc EXCEPT ![d] = "dlq"]
                           /\ body' = [body EXCEPT ![d] = Env(w)]
    BY <1>12 DEF PublishDLQ, Enqueue
  <2>3. \A f \in Envelopes : (f \in pending <=> f \in pending')
    BY <2>1, <2>2
  <2>4. \A f \in Envelopes : (f \in dead' <=> f \in dead \/ f = Env(w))
    BY <2>1, <2>2
  <2>5. pending' = pending
    BY <2>3
  <2>6. dead' = dead \union {Env(w)}
    BY <2>1, <2>4
  <2> QED
    BY <2>1, <2>5, <2>6
<1>13. ASSUME NEW w \in Workers, PublishDLQFails(w) PROVE AbstractStep
  BY <1>13 DEF PublishDLQFails, broker
<1>14. ASSUME NEW w \in Workers, Ack(w) PROVE AbstractStep
  <2>0. Env(w) \in Envelopes /\ job[w] \in Copies /\ body' = body
    BY <1>14 DEF Ack
  <2>1. PICK e \in Envelopes : e = Env(w)
    BY <2>0
  <2>2. done' = done /\ dead' = dead
    BY <1>14 DEF Ack, history
  <2>3. CASE ~conn
    BY <1>14, <2>2, <2>3 DEF Ack
  <2>4. CASE conn
    <3>1. e \in pending
      BY <1>14, <2>0, <2>1, <2>4 DEF Ack
    <3>2. \A f \in Envelopes \ {e} : f \in pending <=> f \in pending'
      BY <1>14, <2>0, <2>1, <2>4 DEF Ack
    <3>3. pending \subseteq Envelopes /\ pending' \subseteq Envelopes
      OBVIOUS
    <3>4. CASE e \in pending'
      <4>1. pending' = pending
        <5>1. \A f \in Envelopes : f \in pending <=> f \in pending'
          BY <3>1, <3>2, <3>4
        <5> HIDE DEF pending, Structure
        <5> QED
          BY ONLY <3>3, <5>1
      <4> QED
        BY <2>2, <4>1
    <3>5. CASE e \notin pending'
      <4>1. pending' = pending \ {e}
        <5> HIDE DEF pending
        <5> QED
          BY <3>1, <3>2, <3>3, <3>5
      <4>2. ~\E c \in Copies : loc[c] \in Live /\ Safe(c, e)
        BY <1>14, <2>0, <2>1, <2>4, <3>5 DEF Ack
      <4>3. SafeFor(e)
        <5> HIDE DEF SafeFor
        <5> QED
          OBVIOUS
      <4>4. e \in done \union dead
        BY <3>1, <4>2, <4>3
      <4>5. Abstract!Leave(e)
        BY <2>2, <4>1, <4>4
      <4> QED
        BY <2>1, <4>5
    <3> QED
      BY <3>4, <3>5
  <2> QED
    BY <2>3, <2>4
<1>15. ASSUME Stop PROVE AbstractStep
  BY <1>15 DEF Stop, Disrupt
<1>16. ASSUME CloseConn PROVE AbstractStep
  BY <1>16 DEF CloseConn
<1>17. ASSUME Exit PROVE AbstractStep
  BY <1>17 DEF Exit
<1>18. ASSUME Crash PROVE AbstractStep
  BY <1>18 DEF Crash, Disrupt
<1>19. ASSUME Restart PROVE AbstractStep
  BY <1>19 DEF Restart
<1>20. ASSUME ConnLost PROVE AbstractStep
  BY <1>20 DEF ConnLost, RequeueUnacked, history
<1>21. CASE UNCHANGED vars
  BY <1>21 DEF vars, broker, history
<1> QED
  BY <1>1, <1>2, <1>3, <1>4, <1>5, <1>6, <1>7, <1>8, <1>9, <1>10, <1>11,
     <1>12, <1>13, <1>14, <1>15, <1>16, <1>17, <1>18, <1>19, <1>20, <1>21
  DEF Next, Handle

\* With stores that fail, connections that are lost and no other fault, no
\* message leaves the pipeline before it was handled to the end or is in the
\* dead-letter queue: Delivery implements AtLeastOnce.
THEOREM DeliveryImplements ==
  ASSUME Faults \subseteq {"mongo", "conn"}
  PROVE  Spec => ImplementsAtLeastOnce
<1>1. Init => Justified /\ AllSafe /\ Abstract!Init
  BY DEF Init, Justified, MarkJustified, AllSafe, SafeFor, pending, done, dead,
         Live, Abstract!Init
<1>2. Structure /\ [Next]_vars => Structure'
  BY StructureStep
<1>3. Structure /\ Structure' /\ Justified /\ [Next]_vars => Justified'
  BY JustifiedStep
<1>4. Structure /\ Structure' /\ Justified /\ AllSafe /\ [Next]_vars => AllSafe'
  BY AllSafeStep
<1>5. Structure /\ Structure' /\ Justified /\ AllSafe /\ [Next]_vars
        => [Abstract!Next]_<<pending, done, dead>>
  BY StepRefines DEF AbstractStep
<1> QED
  BY <1>1, <1>2, <1>3, <1>4, <1>5, StructureInit, PTL
  DEF Spec, ImplementsAtLeastOnce, Abstract!Spec
=============================================================================
