---------------------------- MODULE BrokerProofs ----------------------------
(***************************************************************************)
(* Theorems about Broker and Backoff, for any messages, headers, delays,   *)
(* jitter and number of attempts.                                          *)
(***************************************************************************)
EXTENDS Broker, SequenceTheorems, TLAPS

(* The delays *)

\* A product of two numbers is no less than that of smaller ones.
LEMMA ProductGrows ==
  ASSUME NEW a \in Nat, NEW b \in Nat, NEW c \in Int, NEW d \in Int, a <= c, b <= d
  PROVE  a * b <= c * d
<1>1. PICK x \in Nat : c = a + x
  BY SMT
<1>2. PICK y \in Nat : d = b + y
  BY SMT
<1>3. c * d = a * b + (a * y + x * b + x * y)
  BY <1>1, <1>2, SMT
<1>4. a * y \in Nat /\ x * b \in Nat /\ x * y \in Nat
  BY <1>1, <1>2, SMT
<1>5. a * b \in Int
  BY SMT
<1> QED
  BY <1>3, <1>4, <1>5, SMT

\* Every retry waits, and no longer than Longest, whatever the attempt and however
\* the product of the base and the power of two came out.
LEMMA DelayBounds ==
  /\ Longest \in Nat \ {0}
  /\ \A n \in Int : NextRetryDelay(n) \subseteq 1..Longest
<1> USE BackoffAssumption
<1> DEFINE F == Grain - Spread..Grain + Spread
<1>1. /\ Spread \in Nat /\ Spread < Grain /\ Grain - Spread <= Grain - Jitter
      /\ (Spread = Jitter \/ Spread = 0)
  BY DEF Spread
<1>2. ASSUME NEW d \in {BaseDelay, MaxDelay} PROVE d * (Grain - Spread) >= Grain
  <2>1. CASE Spread = Jitter
    BY <2>1
  <2>2. CASE Spread = 0
    <3>1. 1 * Grain <= d * Grain
      BY ProductGrows
    <3> QED
      BY <1>1, <2>2, <3>1
  <2> QED
    BY <1>1, <2>1, <2>2
<1>3. ASSUME NEW d \in Int, BaseDelay <= d \/ d = MaxDelay, d <= MaxDelay, NEW f \in F
      PROVE  (d * f) \div Grain \in 1..(MaxDelay * (Grain + Spread)) \div Grain
  <2>1. d \in Nat /\ f \in Nat /\ Grain - Spread \in Nat
    BY <1>1, <1>3
  <2>2. d * (Grain - Spread) >= Grain
    <3>1. CASE d = MaxDelay
      BY <1>2, <3>1
    <3>2. CASE BaseDelay <= d
      <4>1. BaseDelay * (Grain - Spread) <= d * (Grain - Spread)
        BY <2>1, <3>2, ProductGrows
      <4> QED
        BY <1>1, <1>2, <2>1, <4>1
    <3> QED
      BY <1>3, <3>1, <3>2
  <2>3. d * (Grain - Spread) <= d * f
    BY <1>3, <2>1, ProductGrows
  <2>4. d * f <= MaxDelay * (Grain + Spread)
    BY <1>1, <1>3, <2>1, ProductGrows
  <2>5. /\ d * f \in Nat /\ d * (Grain - Spread) \in Nat
        /\ MaxDelay * (Grain + Spread) \in Nat
    BY <1>1, <2>1
  <2>6. Grain <= d * f
    BY <2>2, <2>3, <2>5
  <2> HIDE DEF F
  <2>7. ASSUME NEW p \in Nat, NEW q \in Nat, Grain <= p, p <= q
        PROVE  p \div Grain \in 1..q \div Grain
    BY <2>7
  <2> QED
    BY <2>4, <2>5, <2>6, <2>7
<1>4. /\ Longest \in Nat \ {0} /\ BaseDelay <= Longest
      /\ (MaxDelay * (Grain + Spread)) \div Grain <= Longest
      /\ (MaxDelay * (Grain + Spread)) \div Grain \in Int
  <2>1. Grain \in F /\ MaxDelay \in Int
    BY <1>1
  <2>2. (MaxDelay * Grain) \div Grain \in 1..(MaxDelay * (Grain + Spread)) \div Grain
    BY <1>3, <2>1
  <2>3. MaxDelay * (Grain + Spread) \in Int
    BY <1>1
  <2>4. (MaxDelay * (Grain + Spread)) \div Grain \in Int
    BY <2>3
  <2> QED
    BY <2>4 DEF Longest
<1>5. ASSUME NEW n \in Int, NEW x \in NextRetryDelay(n) PROVE x \in 1..Longest
  <2>1. PICK d \in Doubled(n) :
          x \in IF Capped(d) <= 0 THEN {BaseDelay} ELSE Jittered(Capped(d))
    BY <1>5 DEF NextRetryDelay
  <2>2. Attempt(n) - 1 \in Nat
    BY DEF Attempt
  <2>3. 2^(Attempt(n) - 1) \in Int
    BY <2>2
  <2>4. d \in Int /\ (d <= 0 \/ BaseDelay <= d)
    <3>1. CASE d = BaseDelay * 2^(Attempt(n) - 1)
      <4>1. ASSUME NEW k \in Int
            PROVE  /\ BaseDelay * k \in Int
                   /\ BaseDelay * k <= 0 \/ BaseDelay <= BaseDelay * k
        <5>1. CASE k <= 0
          <6>1. 0 - k \in Nat /\ BaseDelay * k = 0 - BaseDelay * (0 - k)
            BY <5>1
          <6>2. BaseDelay * (0 - k) \in Nat
            BY <6>1
          <6> QED
            BY <6>1, <6>2
        <5>2. CASE k >= 1
          <6>1. BaseDelay * 1 <= BaseDelay * k
            BY <5>2, ProductGrows
          <6> QED
            BY <6>1
        <5> QED
          BY <5>1, <5>2
      <4> QED
        BY <2>3, <3>1, <4>1
    <3>2. CASE d \in {MaxInt, -MaxInt - 1}
      BY <3>2
    <3> QED
      BY <3>1, <3>2 DEF Doubled
  <2>5. CASE Capped(d) <= 0
    BY <1>4, <2>1, <2>5
  <2>6. CASE Capped(d) > 0
    <3>1. /\ Capped(d) \in Int /\ Capped(d) <= MaxDelay
          /\ BaseDelay <= Capped(d) \/ Capped(d) = MaxDelay
      BY <2>4, <2>6 DEF Capped
    <3>2. PICK f \in F : x = (Capped(d) * f) \div Grain
      BY <2>1, <2>6, <3>1 DEF Jittered
    <3> QED
      <4> HIDE DEF F
      <4>1. x \in 1..(MaxDelay * (Grain + Spread)) \div Grain
        BY <1>3, <3>1, <3>2
      <4> QED
        BY <1>4, <4>1
  <2> QED
    BY <2>4, <2>5, <2>6 DEF Capped
<1> QED
  BY <1>4, <1>5
-----------------------------------------------------------------------------
(* Structure *)

Number == [kind : {"number"}, value : Int]

Entry == [msg : Messages, age : 0..Longest + 1, left : Nat \union {Never}]

\* Every message that waits is in the retry queue, once.
Structure ==
  /\ TypeOK
  /\ header \in [Messages -> Headers \union Number]
  /\ first  \in [Messages -> Headers]
  /\ waiting \in Seq(Entry)
  /\ \A i, j \in DOMAIN waiting : waiting[i].msg = waiting[j].msg => i = j

\* What a retry adds to the queue.
LEMMA RetryAppends ==
  ASSUME Structure, NEW m \in Messages, PublishRetry(m)
  PROVE  /\ place[m] = "main"
         /\ RetryCount(header[m]) \in Int /\ RetryCount(header[m]) + 1 <= MaxAttempts
         /\ header' = [header EXCEPT ![m] = [kind  |-> "number",
                                            value |-> RetryCount(header[m]) + 1]]
         /\ \/ place'[m] = "retry" /\ Route["retry"] \subseteq declared
               /\ \E d \in 1..Longest :
                    waiting' = Append(waiting, [msg |-> m, age |-> 0, left |-> d])
            \/ place'[m] # "retry" /\ waiting' = waiting
<1>1. RetryCount(header[m]) \in Int
  BY DEF Structure, TypeOK, IsHeader, RetryCount
<1>2. PICK d \in NextRetryDelay(RetryCount(header[m]) + 1) :
        waiting' = IF place'[m] = "retry"
                   THEN Append(waiting, [msg  |-> m, age |-> 0,
                                         left |-> IF d > 0 THEN d ELSE Never])
                   ELSE waiting
  BY DEF PublishRetry
<1>3. d \in 1..Longest
  BY <1>1, <1>2, DelayBounds
<1>4. (IF d > 0 THEN d ELSE Never) = d
  BY <1>3, DelayBounds
<1>5. place'[m] = "retry" => Route["retry"] \subseteq declared
  BY DEF PublishRetry, Routed, Structure, TypeOK
<1>6. place[m] = "main" /\ ~Exhausted(m)
  BY DEF PublishRetry
<1>7. RetryCount(header[m]) + 1 <= MaxAttempts
  BY <1>1, <1>6, BrokerAssumption DEF Exhausted
<1> QED
  BY <1>1, <1>2, <1>3, <1>4, <1>5, <1>6, <1>7 DEF PublishRetry

\* What a second does to it.
LEMMA TickAges ==
  ASSUME Structure, Tick
  PROVE  /\ waiting' \in Seq(Entry) /\ DOMAIN waiting' = DOMAIN waiting
         /\ \A i \in DOMAIN waiting :
              /\ waiting'[i].msg = waiting[i].msg
              /\ waiting'[i].age = IF waiting[i].age > Longest THEN waiting[i].age
                                   ELSE waiting[i].age + 1
              /\ waiting'[i].left = IF waiting[i].left \in {0, Never} THEN waiting[i].left
                                    ELSE waiting[i].left - 1
<1>1. /\ DOMAIN waiting = 1..Len(waiting) /\ Len(waiting) \in Nat
      /\ \A i \in DOMAIN waiting : waiting[i] \in Entry
  BY LenProperties, ElementOfSeq DEF Structure
<1>2. Longest \in Nat
  BY DelayBounds
<1>3. waiting' = [i \in DOMAIN waiting |->
          [waiting[i] EXCEPT
             !.left = IF @ \in {0, Never} THEN @ ELSE @ - 1,
             !.age  = IF @ > Longest THEN @ ELSE @ + 1]]
  BY DEF Tick
<1>4. ASSUME NEW i \in DOMAIN waiting
      PROVE  /\ waiting'[i] \in Entry
             /\ waiting'[i].msg = waiting[i].msg
             /\ waiting'[i].age = IF waiting[i].age > Longest THEN waiting[i].age
                                  ELSE waiting[i].age + 1
             /\ waiting'[i].left = IF waiting[i].left \in {0, Never} THEN waiting[i].left
                                   ELSE waiting[i].left - 1
  <2>1. waiting'[i] = [waiting[i] EXCEPT
             !.left = IF @ \in {0, Never} THEN @ ELSE @ - 1,
             !.age  = IF @ > Longest THEN @ ELSE @ + 1]
    BY <1>3
  <2>2. waiting[i] \in Entry
    BY <1>1
  <2> QED
    <3> DEFINE l == IF waiting[i].left \in {0, Never} THEN waiting[i].left
                    ELSE waiting[i].left - 1
               a == IF waiting[i].age > Longest THEN waiting[i].age
                    ELSE waiting[i].age + 1
    <3>1. waiting'[i] = [msg |-> waiting[i].msg, age |-> a, left |-> l]
      BY <2>1, <2>2 DEF Entry
    <3>2. /\ waiting[i].msg \in Messages /\ waiting[i].age \in 0..Longest + 1
          /\ waiting[i].left \in Nat \union {Never}
      BY <2>2 DEF Entry
    <3>3. l \in Nat \union {Never} /\ a \in 0..Longest + 1
      BY <1>2, <3>2 DEF Never
    <3> HIDE DEF l, a
    <3>4. /\ waiting'[i].msg = waiting[i].msg /\ waiting'[i].age = a
          /\ waiting'[i].left = l
      BY <3>1
    <3>5. waiting'[i] \in Entry
      BY <3>1, <3>2, <3>3 DEF Entry
    <3> QED
      BY <3>4, <3>5 DEF l, a
<1>5. waiting' \in [1..Len(waiting) -> Entry]
  BY <1>1, <1>3, <1>4
<1>6. waiting' \in Seq(Entry)
  BY <1>1, <1>5
<1> QED
  BY <1>1, <1>3, <1>4, <1>6

\* The head leaves; the others are the ones there were.
LEMMA ExpireShifts ==
  ASSUME Structure, Expire
  PROVE  /\ waiting # <<>> /\ waiting' \in Seq(Entry)
         /\ 1 \in DOMAIN waiting
         /\ \A i \in DOMAIN waiting' :
              /\ i + 1 \in DOMAIN waiting /\ i \in Nat \ {0}
              /\ waiting'[i] = waiting[i + 1]
         /\ place' = [place EXCEPT ![waiting[1].msg] =
                        IF Route["main"] \subseteq declared THEN "main" ELSE "lost"]
<1>1. /\ waiting # <<>> /\ waiting' = Tail(waiting)
      /\ Routed(Head(waiting).msg, "main")
  BY DEF Expire
<1>2. /\ waiting' \in Seq(Entry) /\ Len(waiting') = Len(waiting) - 1
      /\ \A i \in 1..Len(waiting') : waiting'[i] = waiting[i + 1]
  BY <1>1, HeadTailProperties DEF Structure
<1>3. /\ DOMAIN waiting = 1..Len(waiting) /\ Len(waiting) \in Nat \ {0}
      /\ DOMAIN waiting' = 1..Len(waiting')
  BY <1>1, <1>2, LenProperties, EmptySeq DEF Structure
<1>4. Head(waiting) = waiting[1]
  BY DEF Structure
<1>5. ASSUME NEW i \in DOMAIN waiting'
      PROVE  /\ i + 1 \in DOMAIN waiting /\ i \in Nat \ {0}
             /\ waiting'[i] = waiting[i + 1]
  BY <1>2, <1>3
<1>6. place' = [place EXCEPT ![waiting[1].msg] =
                 IF Route["main"] \subseteq declared THEN "main" ELSE "lost"]
  BY <1>1, <1>4 DEF Routed
<1> QED
  BY <1>1, <1>2, <1>3, <1>5, <1>6

\* A queue with one more entry.
LEMMA EntryAppended ==
  ASSUME Structure, NEW e \in Entry, waiting' = Append(waiting, e)
  PROVE  /\ waiting' \in Seq(Entry)
         /\ Len(waiting) \in Nat /\ DOMAIN waiting = 1..Len(waiting)
         /\ DOMAIN waiting' = 1..Len(waiting) + 1
         /\ \A i \in 1..Len(waiting) : waiting'[i] = waiting[i]
         /\ waiting'[Len(waiting) + 1] = e
  BY AppendProperties, LenProperties DEF Structure

\* Nine declarations.
LEMMA TopologyLength == Len(Topology) = 9 /\ DOMAIN Topology = 1..9
<1>1. Len(Topology) = 9
  BY DEF Topology
<1>2. DOMAIN Topology = 1..9
  BY DEF Topology
<1> QED
  BY <1>1, <1>2

\* The initial states have that structure.
LEMMA StructureInit == Init => Structure
<1> SUFFICES ASSUME Init PROVE Structure
  OBVIOUS
<1>1. waiting \in Seq(Entry) /\ DOMAIN waiting = {}
  BY DEF Init
<1>2. step \in 1..Len(Topology) + 1
  BY DEF Init, Topology
<1> QED
  BY <1>1, <1>2, BrokerAssumption DEF Init, Structure, TypeOK

\* Every step keeps it.
LEMMA StructureStep == Structure /\ [Next]_vars => Structure'
<1> SUFFICES ASSUME Structure, [Next]_vars PROVE Structure'
  OBVIOUS
<1> USE BrokerAssumption DEF Structure, TypeOK
<1> DEFINE Steps == 1..Len(Topology) + 1
<1>1. Len(Topology) = 9 /\ DOMAIN Topology = 1..9
  BY TopologyLength
<1>2. CASE Start
  BY <1>1, <1>2 DEF Start
<1>3. CASE Declare
  <2>1. step \in DOMAIN Topology /\ step + 1 \in Steps
    BY <1>1, <1>3 DEF Declare
  <2>2. declared' \subseteq {Topology[i] : i \in DOMAIN Topology}
    BY <1>3, <2>1 DEF Declare
  <2> QED
    BY <1>3, <2>1, <2>2 DEF Declare
<1>4. CASE Consume
  BY <1>4 DEF Consume
<1>5. CASE Fail
  BY <1>5 DEF Fail
<1>6. ASSUME NEW m \in Messages, Publish(m) PROVE Structure'
  BY <1>6 DEF Publish
<1>7. ASSUME NEW m \in Messages, Handled(m) PROVE Structure'
  BY <1>7 DEF Handled
<1>8. ASSUME NEW m \in Messages, PublishDLQ(m) PROVE Structure'
  BY <1>8 DEF PublishDLQ, Routed
<1>9. ASSUME NEW m \in Messages, PublishRetry(m) PROVE Structure'
  <2> DEFINE n == RetryCount(header[m]) + 1
             h == [kind |-> "number", value |-> n]
  <2>1. /\ n \in Int /\ n <= MaxAttempts /\ header' = [header EXCEPT ![m] = h]
        /\ place[m] = "main"
    BY <1>9, RetryAppends
  <2>2. IsHeader(h) /\ RetryCount(h) = n /\ h \in Number
    BY <2>1 DEF IsHeader, RetryCount, Number
  <2> HIDE DEF n, h
  <2>3. place' \in [Messages -> {"unsent", "unrouted", "main", "retry", "dlq",
                                "done", "lost"}]
    BY <1>9 DEF PublishRetry, Routed
  <2>4. \A i \in DOMAIN waiting : waiting[i].msg # m
    BY <2>1
  <2>5. /\ tries' \in [Messages -> Nat]
        /\ UNCHANGED <<declared, engine, step, first, failures>>
        /\ \A x \in Messages \ {m} : place'[x] = place[x]
    BY <1>9 DEF PublishRetry, Routed
  <2>6. /\ header' \in [Messages -> Headers \union Number]
        /\ header'[m] = h /\ \A x \in Messages \ {m} : header'[x] = header[x]
    BY <2>1, <2>2
  <2>7. /\ \A i \in DOMAIN waiting : waiting[i] \in Entry
        /\ DOMAIN waiting = 1..Len(waiting)
    BY LenProperties, ElementOfSeq
  <2>8. /\ waiting' \in Seq(Entry)
        /\ \A i, j \in DOMAIN waiting' : waiting'[i].msg = waiting'[j].msg => i = j
        /\ \A i \in DOMAIN waiting' :
             /\ place'[waiting'[i].msg] = "retry"
             /\ RetryCount(header'[waiting'[i].msg]) <= MaxAttempts
             /\ waiting'[i].left \in Nat \union {Never}
             /\ waiting'[i].age  \in 0..Longest + 1
    <3>1. CASE waiting' = waiting
      <4>1. \A i \in DOMAIN waiting : waiting[i].msg \in Messages \ {m}
        BY <2>4, <2>7 DEF Entry
      <4> QED
        BY <2>5, <2>6, <3>1, <4>1
    <3>2. CASE waiting' # waiting
      <4>1. PICK d \in 1..Longest :
              waiting' = Append(waiting, [msg |-> m, age |-> 0, left |-> d])
        BY <1>9, <3>2, RetryAppends
      <4>2. place'[m] = "retry"
        BY <1>9, <3>2, RetryAppends
      <4> DEFINE e == [msg |-> m, age |-> 0, left |-> d]
      <4>3. e \in Entry
        BY DelayBounds DEF Entry
      <4>4. e.msg = m /\ e.age = 0 /\ e.left = d
        OBVIOUS
      <4> HIDE DEF e
      <4>5. /\ waiting' \in Seq(Entry)
            /\ Len(waiting) \in Nat /\ DOMAIN waiting = 1..Len(waiting)
            /\ DOMAIN waiting' = 1..Len(waiting) + 1
            /\ \A i \in 1..Len(waiting) : waiting'[i] = waiting[i]
            /\ waiting'[Len(waiting) + 1] = e
        BY <4>1, <4>3, EntryAppended DEF e
      <4>6. \A i \in DOMAIN waiting : waiting[i].msg \in Messages \ {m}
        BY <2>4, <2>7 DEF Entry
      <4>7. \A i, j \in DOMAIN waiting' : waiting'[i].msg = waiting'[j].msg => i = j
        BY <4>4, <4>5, <4>6
      <4>8. ASSUME NEW i \in DOMAIN waiting'
            PROVE  /\ place'[waiting'[i].msg] = "retry"
                   /\ RetryCount(header'[waiting'[i].msg]) <= MaxAttempts
                   /\ waiting'[i].left \in Nat \union {Never}
                   /\ waiting'[i].age  \in 0..Longest + 1
        <5>1. CASE i = Len(waiting) + 1
          BY <2>1, <2>2, <2>6, <4>2, <4>4, <4>5, <5>1, DelayBounds
        <5>2. CASE i \in DOMAIN waiting
          BY <2>5, <2>6, <4>5, <4>6, <5>2
        <5> QED
          BY <4>5, <5>1, <5>2
      <4> QED
        BY <4>5, <4>7, <4>8
    <3> QED
      BY <3>1, <3>2
  <2>9. \A x \in Messages : IsHeader(header'[x])
    BY <2>2, <2>6
  <2> QED
    BY <2>3, <2>5, <2>6, <2>8, <2>9
<1>10. CASE Expire
  <2>1. /\ waiting' \in Seq(Entry)
        /\ \A i \in DOMAIN waiting' :
             /\ i + 1 \in DOMAIN waiting /\ i \in Nat \ {0}
             /\ waiting'[i] = waiting[i + 1]
        /\ 1 \in DOMAIN waiting
        /\ place' = [place EXCEPT ![waiting[1].msg] =
                       IF Route["main"] \subseteq declared THEN "main" ELSE "lost"]
    BY <1>10, ExpireShifts
  <2>2. \A i \in DOMAIN waiting' : waiting'[i].msg # waiting[1].msg
    BY <2>1
  <2>3. \A i \in DOMAIN waiting' : waiting'[i] \in Entry
    BY <2>1, LenProperties, ElementOfSeq
  <2>4. \A i \in DOMAIN waiting' : place'[waiting'[i].msg] = "retry"
    BY <2>1, <2>2, <2>3 DEF Entry
  <2>5. \A i, j \in DOMAIN waiting' : waiting'[i].msg = waiting'[j].msg => i = j
    BY <2>1
  <2>6. \A i \in DOMAIN waiting' :
          /\ RetryCount(header[waiting'[i].msg]) <= MaxAttempts
          /\ waiting'[i].left \in Nat \union {Never}
          /\ waiting'[i].age  \in 0..Longest + 1
    BY <2>1
  <2>7. UNCHANGED <<declared, engine, step, header, first, tries, failures>>
    BY <1>10 DEF Expire
  <2>8. place' \in [Messages -> {"unsent", "unrouted", "main", "retry", "dlq",
                                "done", "lost"}]
    BY <2>1
  <2> QED
    BY <2>1, <2>4, <2>5, <2>6, <2>7, <2>8
<1>11. CASE Tick
  <2>1. \A i \in DOMAIN waiting' : waiting'[i] \in Entry
    BY <1>11, TickAges, LenProperties, ElementOfSeq
  <2>2. DOMAIN waiting' = DOMAIN waiting /\ waiting' \in Seq(Entry)
    BY <1>11, TickAges
  <2>3. \A i \in DOMAIN waiting : waiting'[i].msg = waiting[i].msg
    BY <1>11, TickAges
  <2>4. \A i \in DOMAIN waiting' :
          /\ waiting'[i].left \in Nat \union {Never}
          /\ waiting'[i].age  \in 0..Longest + 1
    BY <2>1 DEF Entry
  <2>5. UNCHANGED <<declared, engine, step, place, header, first, tries, failures>>
    BY <1>11 DEF Tick
  <2> QED
    BY <2>2, <2>3, <2>4, <2>5
<1>12. CASE UNCHANGED vars
  BY <1>12 DEF vars
<1> QED
  BY <1>2, <1>3, <1>4, <1>5, <1>6, <1>7, <1>8, <1>9, <1>10, <1>11, <1>12 DEF Next

\* The type invariant holds: a message waits in the retry queue once, and for an
\* attempt it has left.
THEOREM TypeCorrect == Spec => []TypeOK
<1>1. Structure => TypeOK
  BY DEF Structure
<1> QED
  BY <1>1, StructureInit, StructureStep, PTL DEF Spec
-----------------------------------------------------------------------------
(* Routes *)

Declared(n) == {Topology[i] : i \in 1..n}
Complete    == Declared(9) \subseteq declared

\* What was declared stays, a start declares in order, and nobody consumes, nor has a
\* message failed, before the last declaration.
Routable ==
  /\ engine = "starting" => Declared(step - 1) \subseteq declared
  /\ engine = "consuming" => Complete
  /\ waiting # <<>> => Complete
  /\ NothingLost

\* Every route is among the declarations.
LEMMA RouteComplete ==
  ASSUME Complete, NEW q \in {"main", "retry", "dlq"}
  PROVE  Route[q] \subseteq declared
<1>1. /\ Topology[1] = "exchange" /\ Topology[2] = "retry exchange"
      /\ Topology[3] = "dlx" /\ Topology[4] = "queue" /\ Topology[5] = "binding"
      /\ Topology[6] = "retry queue" /\ Topology[7] = "retry binding"
      /\ Topology[8] = "dlq" /\ Topology[9] = "dlq binding"
  BY DEF Topology
<1>2. \A i \in 1..9 : Topology[i] \in declared
  BY DEF Complete, Declared
<1>3. /\ Topology[1] \in declared /\ Topology[2] \in declared
      /\ Topology[3] \in declared /\ Topology[4] \in declared
      /\ Topology[5] \in declared /\ Topology[6] \in declared
      /\ Topology[7] \in declared /\ Topology[8] \in declared
      /\ Topology[9] \in declared
  BY <1>2
<1>4. /\ Route["main"]  = {"exchange", "binding", "queue"}
      /\ Route["retry"] = {"retry exchange", "retry binding", "retry queue"}
      /\ Route["dlq"]   = {"dlx", "dlq binding", "dlq"}
  BY DEF Route
<1>5. /\ Route["main"] \subseteq declared /\ Route["retry"] \subseteq declared
      /\ Route["dlq"] \subseteq declared
  BY <1>1, <1>3, <1>4
<1> QED
  BY <1>5

\* Every step leaves a route for what the engine publishes and what expires.
LEMMA RoutableStep ==
  ASSUME Structure, Structure', Routable, [Next]_vars
  PROVE  Routable'
<1> USE DEF Structure, TypeOK, Routable, NothingLost
<1>1. CASE Start
  BY <1>1, TopologyLength DEF Start, Complete, Declared
<1>2. CASE Declare
  <2>1. /\ step \in 1..9 /\ step' = step + 1 /\ engine' = "starting"
        /\ declared' = declared \union {Topology[step]}
        /\ UNCHANGED <<place, waiting>>
    BY <1>2, TopologyLength DEF Declare
  <2>2. Declared(step' - 1) \subseteq declared'
    BY <1>2, <2>1 DEF Declare, Declared
  <2>3. Complete => Complete'
    BY <2>1 DEF Complete
  <2> QED
    BY <2>1, <2>2, <2>3
<1>3. CASE Consume
  <2>1. step = 10
    BY <1>3, TopologyLength DEF Consume
  <2>2. Complete
    BY <1>3, <2>1 DEF Consume, Complete
  <2> QED
    BY <1>3, <2>2 DEF Consume, Complete
<1>4. CASE Fail
  BY <1>4 DEF Fail, Complete
<1>5. ASSUME NEW m \in Messages, Publish(m) \/ Handled(m) PROVE Routable'
  BY <1>5 DEF Publish, Handled, Complete
<1>6. ASSUME NEW m \in Messages, PublishDLQ(m) PROVE Routable'
  <2>1. Complete /\ Route["dlq"] \subseteq declared
    BY <1>6, RouteComplete DEF PublishDLQ
  <2> QED
    BY <1>6, <2>1 DEF PublishDLQ, Routed, Complete
<1>7. ASSUME NEW m \in Messages, PublishRetry(m) PROVE Routable'
  <2>1. Complete /\ Route["retry"] \subseteq declared
    BY <1>7, RouteComplete DEF PublishRetry
  <2>2. place' = [place EXCEPT ![m] = "retry"]
    BY <1>7, <2>1 DEF PublishRetry, Routed
  <2> QED
    BY <1>7, <2>1, <2>2 DEF PublishRetry, Complete
<1>8. CASE Expire
  <2>1. Complete /\ Route["main"] \subseteq declared
    BY <1>8, RouteComplete DEF Expire
  <2>2. \A m \in Messages : place'[m] # "lost"
    BY <1>8, <2>1, ExpireShifts
  <2> QED
    BY <1>8, <2>1, <2>2 DEF Expire, Complete
<1>9. CASE Tick
  BY <1>9 DEF Tick, Complete
<1>10. CASE UNCHANGED vars
  BY <1>10 DEF vars, Complete
<1> QED
  BY <1>1, <1>2, <1>3, <1>4, <1>5, <1>6, <1>7, <1>8, <1>9, <1>10 DEF Next

\* Nothing the engine publishes, and nothing that expires, is without a route,
\* however its starts failed before.
THEOREM EverythingHasARoute == Spec => []NothingLost
<1>1. Init => Routable
  BY DEF Init, Routable, NothingLost
<1>2. Routable => NothingLost
  BY DEF Routable
<1> QED
  BY <1>1, <1>2, StructureInit, StructureStep, RoutableStep, PTL DEF Spec
-----------------------------------------------------------------------------
(* Time *)

\* The age alone does not tell when an entry leaves: it waits for those before it,
\* which came earlier, so that none of them has more time left than it takes this
\* one to reach the longest delay.
HeldUp ==
  \A i \in DOMAIN waiting : \A j \in 1..i :
    waiting[j].left \in Nat /\ waiting[i].age + waiting[j].left <= Longest

\* Every step keeps the messages in time.
LEMMA HeldUpStep ==
  ASSUME Structure, Structure', HeldUp, [Next]_vars
  PROVE  HeldUp'
<1> USE DEF HeldUp
<1>1. /\ DOMAIN waiting = 1..Len(waiting) /\ Len(waiting) \in Nat
      /\ \A i \in DOMAIN waiting : waiting[i] \in Entry
      /\ Longest \in Nat
  BY LenProperties, ElementOfSeq, DelayBounds DEF Structure
<1>2. CASE UNCHANGED waiting
  BY <1>2
<1>3. ASSUME NEW m \in Messages, PublishRetry(m), waiting' # waiting PROVE HeldUp'
  <2>1. PICK d \in 1..Longest :
          waiting' = Append(waiting, [msg |-> m, age |-> 0, left |-> d])
    BY <1>3, RetryAppends
  <2> DEFINE e == [msg |-> m, age |-> 0, left |-> d]
  <2>2. e \in Entry /\ e.age = 0 /\ e.left = d
    BY <1>1 DEF Entry
  <2> HIDE DEF e
  <2>3. /\ DOMAIN waiting' = 1..Len(waiting) + 1
        /\ \A i \in 1..Len(waiting) : waiting'[i] = waiting[i]
        /\ waiting'[Len(waiting) + 1] = e
    BY <2>1, <2>2, EntryAppended DEF e
  <2>4. \A j \in 1..Len(waiting) : waiting[j].left \in Nat /\ waiting[j].left <= Longest
    BY <1>1 DEF Entry
  <2>5. ASSUME NEW i \in DOMAIN waiting', NEW j \in 1..i
        PROVE  waiting'[j].left \in Nat /\ waiting'[i].age + waiting'[j].left <= Longest
    <3>1. CASE i = Len(waiting) + 1
      BY <1>1, <2>1, <2>2, <2>3, <2>4, <2>5, <3>1
    <3>2. CASE i \in 1..Len(waiting)
      BY <1>1, <2>3, <2>5, <3>2
    <3> QED
      BY <1>1, <2>3, <3>1, <3>2
  <2> QED
    BY <2>5
<1>4. CASE Expire
  BY <1>1, <1>4, ExpireShifts
<1>5. CASE Tick
  <2>1. waiting[1].left \in Nat /\ waiting[1].left # 0 /\ 1 \in DOMAIN waiting
    <3>1. waiting # <<>> /\ Head(waiting).left # 0
      BY <1>5 DEF Tick
    <3>2. Len(waiting) # 0 /\ Head(waiting) = waiting[1]
      BY <3>1, EmptySeq DEF Structure
    <3>3. 1 \in DOMAIN waiting /\ 1 \in 1..1
      BY <1>1, <3>2
    <3> QED
      BY <3>1, <3>2, <3>3
  <2>2. /\ DOMAIN waiting' = DOMAIN waiting
        /\ \A i \in DOMAIN waiting :
             /\ waiting'[i].age = IF waiting[i].age > Longest THEN waiting[i].age
                                  ELSE waiting[i].age + 1
             /\ waiting'[i].left = IF waiting[i].left \in {0, Never} THEN waiting[i].left
                                   ELSE waiting[i].left - 1
    BY <1>5, TickAges
  <2>3. ASSUME NEW i \in DOMAIN waiting, NEW j \in 1..i
        PROVE  waiting'[j].left \in Nat /\ waiting'[i].age + waiting'[j].left <= Longest
    <3>1. /\ waiting[i].age \in Nat /\ waiting[i].age + waiting[1].left <= Longest
          /\ waiting[j].left \in Nat /\ waiting[i].age + waiting[j].left <= Longest
          /\ j \in DOMAIN waiting
      BY <1>1, <2>3 DEF Entry
    <3>2. waiting'[i].age = waiting[i].age + 1
      BY <1>1, <2>1, <2>2, <3>1
    <3>3. waiting'[j].left = IF waiting[j].left = 0 THEN 0 ELSE waiting[j].left - 1
      BY <2>2, <3>1 DEF Never
    <3> QED
      BY <1>1, <2>1, <3>1, <3>2, <3>3
  <2> QED
    BY <2>2, <2>3
<1> QED
  BY <1>2, <1>3, <1>4, <1>5
  DEF Next, Start, Declare, Consume, Fail, Publish, Handled, PublishDLQ, vars

\* A message that fails is back in the main queue after the longest delay, though
\* those before it hold it up.
THEOREM RetriesReturnInTime == Spec => []ReturnsInTime
<1>1. Init => HeldUp
  BY DEF Init, HeldUp
<1>2. Structure /\ HeldUp => ReturnsInTime
  <2> SUFFICES ASSUME Structure, HeldUp, NEW i \in DOMAIN waiting
               PROVE  waiting[i].age <= Longest
    BY DEF ReturnsInTime
  <2>1. /\ i \in 1..Len(waiting) /\ Len(waiting) \in Nat /\ waiting[i] \in Entry
        /\ Longest \in Nat
    BY LenProperties, ElementOfSeq, DelayBounds DEF Structure
  <2> QED
    BY <2>1 DEF HeldUp, Entry
<1> QED
  BY <1>1, <1>2, StructureInit, StructureStep, HeldUpStep, PTL DEF Spec
-----------------------------------------------------------------------------
(* Attempts *)

Used(m) == IF first[m].kind = "other" THEN 0 ELSE first[m].value

\* The count in the header says how often handling failed, until the message is given
\* up on, and one that was retried has not more than there may be.
CountedInHeader(m) ==
  \/ place[m] = "dlq" /\ tries[m] >= 1
     /\ (tries[m] = 1 \/ (Used(m) + tries[m] <= MaxAttempts + 1))
  \/ /\ place[m] # "dlq"
     /\ RetryCount(header[m]) = Used(m) + tries[m]
     /\ tries[m] = 0 \/ RetryCount(header[m]) <= MaxAttempts

Counted == \A m \in Messages : CountedInHeader(m)

\* Every step keeps the count.
LEMMA CountedStep ==
  ASSUME Structure, Structure', Routable', Counted, [Next]_vars
  PROVE  Counted'
<1> USE BrokerAssumption DEF Structure, TypeOK, Counted, CountedInHeader, Used
<1>1. \A m \in Messages : Used(m) \in Int /\ RetryCount(header[m]) \in Int
  BY DEF IsHeader, RetryCount
<1>2. ASSUME UNCHANGED <<header, first, tries>>,
             \A m \in Messages : place'[m] = place[m] \/ {place[m], place'[m]} \intersect {"dlq"} = {}
      PROVE  Counted'
  BY <1>2
<1>3. CASE Start \/ Declare \/ Consume \/ Fail \/ Tick \/ UNCHANGED vars
  BY <1>2, <1>3 DEF Start, Declare, Consume, Fail, Tick, vars
<1>4. ASSUME NEW m \in Messages, Publish(m) \/ Handled(m) PROVE Counted'
  BY <1>2, <1>4 DEF Publish, Handled
<1>5. ASSUME NEW m \in Messages, PublishDLQ(m) PROVE Counted'
  <2>1. /\ tries' = [tries EXCEPT ![m] = @ + 1] /\ UNCHANGED <<header, first>>
        /\ place[m] = "main" /\ \A x \in Messages \ {m} : place'[x] = place[x]
    BY <1>5 DEF PublishDLQ, Routed
  <2>2. place'[m] = "dlq"
    BY <1>5 DEF PublishDLQ, Routed, Routable, NothingLost
  <2>3. CountedInHeader(m)'
    <3>1. /\ tries'[m] = tries[m] + 1 /\ tries[m] \in Nat
          /\ Used(m)' = Used(m) /\ RetryCount(header[m]) = Used(m) + tries[m]
          /\ tries[m] = 0 \/ RetryCount(header[m]) <= MaxAttempts
      BY <2>1
    <3> HIDE DEF Used
    <3> QED
      BY <1>1, <2>2, <3>1
  <2> QED
    BY <2>1, <2>3
<1>6. ASSUME NEW m \in Messages, PublishRetry(m) PROVE Counted'
  <2> DEFINE n == RetryCount(header[m]) + 1
             h == [kind |-> "number", value |-> n]
  <2>1. /\ n \in Int /\ n <= MaxAttempts /\ header' = [header EXCEPT ![m] = h]
        /\ place[m] = "main"
    BY <1>6, RetryAppends
  <2>2. RetryCount(h) = n
    BY DEF RetryCount
  <2>3. n = RetryCount(header[m]) + 1
    OBVIOUS
  <2> HIDE DEF n, h
  <2>4. /\ tries' = [tries EXCEPT ![m] = @ + 1] /\ UNCHANGED first
        /\ place'[m] # "dlq" /\ \A x \in Messages \ {m} : place'[x] = place[x]
    BY <1>6 DEF PublishRetry, Routed
  <2>5. RetryCount(header'[m]) = n /\ \A x \in Messages \ {m} : header'[x] = header[x]
    BY <2>1, <2>2
  <2>6. CountedInHeader(m)'
    <3>1. /\ tries'[m] = tries[m] + 1 /\ tries[m] \in Nat
          /\ Used(m)' = Used(m) /\ RetryCount(header[m]) = Used(m) + tries[m]
      BY <2>1, <2>4
    <3> HIDE DEF Used
    <3> QED
      BY <1>1, <2>1, <2>3, <2>4, <2>5, <3>1
  <2> QED
    BY <2>4, <2>5, <2>6
<1>7. CASE Expire
  <2>1. /\ UNCHANGED <<header, first, tries>> /\ waiting[1].msg \in Messages
        /\ place[waiting[1].msg] = "retry"
        /\ place' = [place EXCEPT ![waiting[1].msg] =
                       IF Route["main"] \subseteq declared THEN "main" ELSE "lost"]
    <3>1. /\ 1 \in DOMAIN waiting
          /\ place' = [place EXCEPT ![waiting[1].msg] =
                         IF Route["main"] \subseteq declared THEN "main" ELSE "lost"]
      BY <1>7, ExpireShifts
    <3>2. waiting[1] \in Entry
      BY <3>1, LenProperties, ElementOfSeq
    <3> QED
      BY <1>7, <3>1, <3>2 DEF Expire, Entry
  <2> QED
    BY <1>2, <2>1
<1> QED
  BY <1>3, <1>4, <1>5, <1>6, <1>7 DEF Next

\* A message fails once more than it has attempts left, whatever form the count in
\* its header has.
THEOREM TriesAreBounded == Spec => []TriesBounded
<1>1. Init => Routable /\ Counted
  <2> SUFFICES ASSUME Init, NEW m \in Messages PROVE Routable /\ CountedInHeader(m)
    BY DEF Counted, Init, Routable, NothingLost
  <2>1. Routable
    BY DEF Init, Routable, NothingLost
  <2>2. IsHeader(header[m]) /\ first[m] = header[m] /\ tries[m] = 0 /\ place[m] # "dlq"
    BY BrokerAssumption DEF Init
  <2> QED
    BY <2>1, <2>2 DEF CountedInHeader, Used, RetryCount, IsHeader
<1>2. Structure /\ Counted => TriesBounded
  <2> SUFFICES ASSUME Structure, Counted, NEW m \in Messages
               PROVE  tries[m] <= IF Used(m) < MaxAttempts THEN MaxAttempts - Used(m) + 1
                                  ELSE 1
    BY DEF TriesBounded, Structure, Used
  <2>1. tries[m] \in Nat /\ Used(m) \in Int /\ MaxAttempts \in Nat
    BY BrokerAssumption DEF Structure, TypeOK, Used, IsHeader
  <2>2. CountedInHeader(m)
    BY DEF Counted
  <2> QED
    BY <2>1, <2>2 DEF CountedInHeader
<1> QED
  BY <1>1, <1>2, StructureInit, StructureStep, RoutableStep, CountedStep, PTL DEF Spec
=============================================================================
