-------------------------- MODULE CountWindowProofs --------------------------
(***************************************************************************)
(* Theorems about CountWindow, for any messages, windows, workers and      *)
(* failures.                                                               *)
(***************************************************************************)
EXTENDS CountWindow, FiniteSetTheorems, SequenceTheorems, TLAPS

\* A message is with one worker, or in the queue, or done.
Jobs ==
  /\ \A w \in Workers : pc[w] # "idle" => job[w] \in Messages /\ job[w] \notin queue
  /\ \A v, w \in Workers : pc[v] # "idle" /\ pc[w] # "idle" /\ job[v] = job[w] => v = w

Structure == TypeOK /\ Jobs

Has(win, m) == \E i \in DOMAIN win : win[i] = m

\* m is not to be counted any more.
Done(m) ==
  /\ m \notin queue
  /\ \A w \in Workers : pc[w] \in {"get", "set"} => job[w] # m

\* A message that never failed is not counted again, whoever has the window.
CountedOnce ==
  \A m \in Messages :
    /\ attempt[m] = 0
    /\ Has(window, m) \/ \E w \in Workers : Has(read[w], m)
    => Done(m)

\* Only a message that failed is in the window twice.
Distinct(win) ==
  \A i, j \in DOMAIN win : win[i] = win[j] => i = j \/ attempt[win[i]] > 0

AllDistinct == Distinct(window) /\ \A w \in Workers : Distinct(read[w])

\* In order, one worker is between its calls, and knows the window, which the log
\* determines; and the log has a message once.
WindowIsRecent ==
  orderly =>
    /\ \A v, w \in Workers : pc[v] = "set" /\ pc[w] = "set" => v = w
    /\ \A w \in Workers : pc[w] = "set" => read[w] = window
    /\ window = Reference!Recent(log, cut)
    /\ \A m \in Messages : Has(log, m) => Done(m)

\* In order, the last alert ended with the measurement at the cut.
CutHasAlert ==
  orderly /\ cut > 0 => \E alert \in raised : Has(alert, log[cut])
-----------------------------------------------------------------------------
(* Windows *)

\* The window is extended at its end, and cut at its front to its size.
LEMMA ExtendedIs ==
  ASSUME NEW win \in Seq(Messages), NEW m \in Messages
  PROVE  /\ Extended(win, m) \in Seq(Messages)
         /\ \E n \in 0..Len(win) :
              /\ n = IF Len(win) + 1 > Size THEN Len(win) + 1 - Size ELSE 0
              /\ Len(Extended(win, m)) = Len(win) + 1 - n
              /\ \A i \in 1..Len(win) + 1 - n :
                   /\ i + n \in 1..Len(win) + 1
                   /\ i + n \in 1..Len(win) => Extended(win, m)[i] = win[i + n]
                   /\ i + n = Len(win) + 1 => Extended(win, m)[i] = m
<1> DEFINE longer == Append(win, m)
           n == IF Len(win) + 1 > Size THEN Len(win) + 1 - Size ELSE 0
<1>1. /\ longer \in Seq(Messages) /\ Len(longer) = Len(win) + 1 /\ Len(win) \in Nat
      /\ \A i \in 1..Len(win) : longer[i] = win[i]
      /\ longer[Len(win) + 1] = m
      /\ \A i \in 1..Len(win) + 1 : longer[i] \in Messages
  <2>1. /\ longer \in Seq(Messages) /\ Len(longer) = Len(win) + 1
        /\ \A i \in 1..Len(win) : longer[i] = win[i]
        /\ longer[Len(win) + 1] = m
    BY AppendProperties
  <2>2. Len(win) \in Nat
    BY LenProperties
  <2>3. \A i \in 1..Len(longer) : longer[i] \in Messages
    BY <2>1, ElementOfSeq
  <2> QED
    BY <2>1, <2>2, <2>3
<1>2. n \in 0..Len(win) /\ n \in Nat
  BY <1>1, CountWindowAssumption
<1>3. Extended(win, m) = IF Len(longer) > Size
                         THEN SubSeq(longer, Len(longer) - Size + 1, Len(longer))
                         ELSE longer
  BY DEF Extended
<1>4. /\ Len(win) + 1 > Size => n = Len(win) + 1 - Size
      /\ ~(Len(win) + 1 > Size) => n = 0
  OBVIOUS
<1> HIDE DEF longer, n
<1>5. /\ Extended(win, m) \in Seq(Messages) /\ Len(Extended(win, m)) = Len(win) + 1 - n
      /\ \A i \in 1..Len(win) + 1 - n : Extended(win, m)[i] = longer[i + n]
  <2>1. CASE Len(win) + 1 > Size
    <3> DEFINE L == Len(win) + 1
               cutWin == SubSeq(longer, n + 1, L)
    <3>1. L \in Int /\ n + 1 \in Int /\ n + 1 <= L
      BY <1>1, <1>2
    <3>2. Len(longer) - Size + 1 = n + 1
      BY <1>1, <1>4, <2>1, CountWindowAssumption
    <3>3. Extended(win, m) = cutWin
      BY <1>1, <1>3, <2>1, <3>2
    <3>4. \A i \in n + 1..L : longer[i] \in Messages
      BY <1>1, <1>2
    <3> HIDE DEF L
    <3>5. /\ cutWin \in Seq(Messages)
          /\ Len(cutWin) = IF n + 1 <= L THEN L - (n + 1) + 1 ELSE 0
          /\ \A i \in 1..L - (n + 1) + 1 : cutWin[i] = longer[n + 1 + i - 1]
      BY <3>1, <3>4, SubSeqProperties
    <3> HIDE DEF cutWin
    <3>6. Len(cutWin) = L - n
      BY <1>2, <3>1, <3>5
    <3>7. ASSUME NEW i \in 1..L - n PROVE cutWin[i] = longer[i + n]
      <4>1. i \in 1..L - (n + 1) + 1 /\ n + 1 + i - 1 = i + n
        BY <1>2, <3>1
      <4> QED
        BY <3>5, <4>1
    <3>8. L = Len(win) + 1
      BY DEF L
    <3>9. Extended(win, m) \in Seq(Messages)
      BY <3>3, <3>5
    <3>10. Len(Extended(win, m)) = L - n
      BY <3>3, <3>6
    <3>11. \A i \in 1..L - n : Extended(win, m)[i] = longer[i + n]
      BY <3>3, <3>7
    <3> QED
      BY <1>1, <1>2, <3>8, <3>9, <3>10, <3>11
  <2>2. CASE ~(Len(win) + 1 > Size)
    BY <1>1, <1>3, <1>4, <2>2
  <2> QED
    BY <2>1, <2>2
<1>6. \A i \in 1..Len(win) + 1 - n :
        /\ i + n \in 1..Len(win) + 1
        /\ i + n \in 1..Len(win) => Extended(win, m)[i] = win[i + n]
        /\ i + n = Len(win) + 1 => Extended(win, m)[i] = m
  BY <1>1, <1>2, <1>5
<1> QED
  BY <1>2, <1>5, <1>6 DEF n

\* The measurement that is added is the last.
LEMMA ExtendedHas ==
  ASSUME NEW win \in Seq(Messages), NEW m \in Messages
  PROVE  /\ Has(Extended(win, m), m)
         /\ \A x : Has(Extended(win, m), x) => Has(win, x) \/ x = m
<1> DEFINE next == Extended(win, m)
<1>1. PICK n \in 0..Len(win) :
        /\ Len(next) = Len(win) + 1 - n
        /\ \A i \in 1..Len(win) + 1 - n :
             /\ i + n \in 1..Len(win) + 1
             /\ i + n \in 1..Len(win) => next[i] = win[i + n]
             /\ i + n = Len(win) + 1 => next[i] = m
  BY ExtendedIs
<1>2. /\ next \in Seq(Messages) /\ DOMAIN next = 1..Len(next)
      /\ DOMAIN win = 1..Len(win) /\ Len(win) \in Nat
  BY ExtendedIs, LenProperties
<1> HIDE DEF next
<1>3. Has(next, m)
  <2>1. /\ Len(win) + 1 - n \in 1..Len(win) + 1 - n
        /\ Len(win) + 1 - n + n = Len(win) + 1
    BY <1>2
  <2>2. next[Len(win) + 1 - n] = m
    BY <1>1, <2>1
  <2> QED
    BY <1>1, <1>2, <2>1, <2>2 DEF Has
<1>4. ASSUME NEW i \in DOMAIN next PROVE Has(win, next[i]) \/ next[i] = m
  <2>1. i \in 1..Len(win) + 1 - n /\ i + n \in 1..Len(win) + 1
    BY <1>1, <1>2
  <2>2. CASE i + n \in 1..Len(win)
    BY <1>1, <1>2, <2>1, <2>2 DEF Has
  <2>3. CASE i + n = Len(win) + 1
    BY <1>1, <2>1, <2>3
  <2> QED
    BY <1>2, <2>1, <2>2, <2>3
<1> QED
  BY <1>3, <1>4 DEF Has, next

\* A message that is not in the window, or failed, may be added.
LEMMA ExtendedDistinct ==
  ASSUME NEW win \in Seq(Messages), NEW m \in Messages,
         Distinct(win), ~Has(win, m) \/ attempt[m] > 0
  PROVE  Distinct(Extended(win, m))
<1> DEFINE next == Extended(win, m)
<1>1. PICK n \in 0..Len(win) :
        /\ Len(next) = Len(win) + 1 - n
        /\ \A i \in 1..Len(win) + 1 - n :
             /\ i + n \in 1..Len(win) + 1
             /\ i + n \in 1..Len(win) => next[i] = win[i + n]
             /\ i + n = Len(win) + 1 => next[i] = m
  BY ExtendedIs
<1>2. /\ next \in Seq(Messages) /\ DOMAIN next = 1..Len(next)
      /\ DOMAIN win = 1..Len(win) /\ Len(win) \in Nat
  BY ExtendedIs, LenProperties
<1> HIDE DEF next
<1> SUFFICES ASSUME NEW i \in DOMAIN next, NEW j \in DOMAIN next, next[i] = next[j]
             PROVE  i = j \/ attempt[next[i]] > 0
  BY DEF Distinct, next
<1>3. /\ i \in 1..Len(win) + 1 - n /\ i + n \in 1..Len(win) + 1
      /\ j \in 1..Len(win) + 1 - n /\ j + n \in 1..Len(win) + 1
      /\ i \in Int /\ j \in Int
  BY <1>1, <1>2
<1>4. CASE i + n \in 1..Len(win) /\ j + n \in 1..Len(win)
  <2>1. next[i] = win[i + n] /\ next[j] = win[j + n]
    BY <1>1, <1>3, <1>4
  <2>2. i + n = j + n \/ attempt[win[i + n]] > 0
    BY <1>2, <1>4, <2>1 DEF Distinct
  <2> QED
    BY <1>3, <2>1, <2>2
<1>5. CASE i + n = Len(win) + 1 /\ j + n = Len(win) + 1
  BY <1>3, <1>5
<1>6. CASE i + n = Len(win) + 1 /\ j + n \in 1..Len(win)
  <2>1. next[i] = m /\ next[j] = win[j + n]
    BY <1>1, <1>3, <1>6
  <2> QED
    BY <1>2, <1>6, <2>1 DEF Has
<1>7. CASE j + n = Len(win) + 1 /\ i + n \in 1..Len(win)
  <2>1. next[j] = m /\ next[i] = win[i + n]
    BY <1>1, <1>3, <1>7
  <2> QED
    BY <1>2, <1>7, <2>1 DEF Has
<1> QED
  BY <1>2, <1>3, <1>4, <1>5, <1>6, <1>7
-----------------------------------------------------------------------------
(* Steps *)

\* As long as the order holds, it held, and the log and its cut are those given.
LEMMA RecordEffect ==
  ASSUME NEW ok \in BOOLEAN, NEW l, NEW c, Record(ok, l, c)
  PROVE  /\ orderly' \in BOOLEAN
         /\ orderly' => orderly /\ ok /\ log' = l /\ cut' = c
         /\ ~orderly' => log' = <<>> /\ cut' = 0
<1>1. orderly' = (orderly /\ ok)
  BY DEF Record
<1>2. orderly' \in BOOLEAN
  BY <1>1
<1> QED
  BY <1>1, <1>2 DEF Record

\* What becomes of a message whose handling failed.
LEMMA FailEffect ==
  ASSUME Structure, NEW w \in Workers, Fail(w)
  PROVE  /\ pc[w] \in {"get", "set", "finish"} /\ job[w] \in Messages
         /\ queue' \subseteq Messages /\ attempt' \in [Messages -> 0..MaxAttempts]
         /\ \A n \in Messages \ {job[w]} :
              (n \in queue' <=> n \in queue) /\ attempt'[n] = attempt[n]
         /\ \/ UNCHANGED <<queue, attempt>>
            \/ attempt'[job[w]] > 0
<1>1. pc[w] \in {"get", "set", "finish"} /\ job[w] \in Messages
  BY DEF Fail, Structure, Jobs
<1>2. CASE Exhausted(job[w])
  BY <1>1, <1>2 DEF Fail, Structure, TypeOK
<1>3. CASE ~Exhausted(job[w])
  <2>1. /\ queue' = queue \union {job[w]}
        /\ attempt' = [attempt EXCEPT ![job[w]] = @ + 1]
    BY <1>3 DEF Fail
  <2>2. attempt[job[w]] \in 0..MaxAttempts /\ attempt[job[w]] + 1 <= MaxAttempts
    BY <1>1, <1>3, CountWindowAssumption DEF Exhausted, Structure, TypeOK
  <2>3. attempt[job[w]] + 1 \in 0..MaxAttempts /\ attempt[job[w]] + 1 > 0
    BY <2>2, CountWindowAssumption
  <2> QED
    BY <1>1, <2>1, <2>3 DEF Structure, TypeOK
<1> QED
  BY <1>2, <1>3

\* A call on the state that is written.
LEMMA SetEffect ==
  ASSUME Structure, NEW w \in Workers, SetRuleState(w)
  PROVE  LET next == Extended(read[w], job[w])
         IN  /\ pc[w] = "set" /\ job[w] \in Messages /\ read[w] \in Seq(Messages)
             /\ next \in Seq(Messages)
             /\ window' = IF Triggered(next) THEN <<>> ELSE next
             /\ raised' = IF Triggered(next) THEN raised \union {next} ELSE raised
             /\ Record(TRUE, Append(log, job[w]),
                       IF Triggered(next) THEN Len(log) + 1 ELSE cut)
             /\ read' = [read EXCEPT ![w] = <<>>]
             /\ pc'   = [pc EXCEPT ![w] = "finish"]
             /\ UNCHANGED <<queue, attempt, job>>
<1>1. pc[w] = "set" /\ job[w] \in Messages /\ read[w] \in Seq(Messages)
  BY DEF SetRuleState, Structure, TypeOK, Jobs
<1>2. Extended(read[w], job[w]) \in Seq(Messages)
  BY <1>1, ExtendedIs
<1> QED
  BY <1>1, <1>2 DEF SetRuleState

\* The initial states have the structure.
LEMMA StructureInit == Init => Structure
<1> SUFFICES ASSUME Init PROVE Structure
  OBVIOUS
<1>1. <<>> \in Seq(Messages) /\ Len(<<>>) = 0
  BY EmptySeq
<1>2. 0 \in 0..MaxAttempts
  BY CountWindowAssumption
<1> QED
  BY <1>1, <1>2 DEF Init, Structure, TypeOK, Jobs

\* Every step keeps it.
LEMMA StructureStep == Structure /\ [Next]_vars => Structure'
<1> SUFFICES ASSUME Structure, [Next]_vars PROVE Structure'
  OBVIOUS
<1>1. <<>> \in Seq(Messages) /\ Len(<<>>) = 0
  BY EmptySeq
<1>2. /\ cut \in Nat /\ Len(log) \in Nat /\ cut <= Len(log)
  BY LenProperties DEF Structure, TypeOK
<1>3. ASSUME NEW ok \in BOOLEAN, Record(ok, log, cut)
      PROVE  orderly' \in BOOLEAN /\ log' \in Seq(Messages) /\ cut' \in 0..Len(log')
  <2>1. orderly' \in BOOLEAN
    BY <1>3, RecordEffect
  <2>2. CASE orderly'
    <3>1. log' = log /\ cut' = cut
      BY <1>3, <2>2, RecordEffect
    <3> QED
      BY <2>1, <3>1 DEF Structure, TypeOK
  <2>3. CASE ~orderly'
    <3>1. log' = <<>> /\ cut' = 0
      BY <1>3, <2>3, RecordEffect
    <3> QED
      BY <1>1, <2>1, <3>1
  <2> QED
    BY <2>2, <2>3
<1> USE DEF Structure, TypeOK, Jobs
<1>4. ASSUME NEW w \in Workers, Take(w) PROVE Structure'
  <2>1. PICK m \in queue :
          job' = [job EXCEPT ![w] = m] /\ queue' = queue \ {m}
    BY <1>4 DEF Take
  <2>2. m \in Messages /\ \A v \in Workers : pc[v] # "idle" => job[v] # m
    OBVIOUS
  <2>3. TypeOK'
    BY <1>4, <2>1, <2>2 DEF Take
  <2>4. Jobs'
    BY <1>4, <2>1, <2>2 DEF Take
  <2> QED
    BY <2>3, <2>4
<1>5. ASSUME NEW w \in Workers, GetRuleState(w) PROVE Structure'
  <2>1. Record(\A v \in Workers : pc[v] # "set", log, cut)
    BY <1>5 DEF GetRuleState
  <2>2. orderly' \in BOOLEAN /\ log' \in Seq(Messages) /\ cut' \in 0..Len(log')
    <3>1. (\A v \in Workers : pc[v] # "set") \in BOOLEAN
      OBVIOUS
    <3> QED
      BY <1>3, <2>1, <3>1
  <2> QED
    BY <1>5, <2>2 DEF GetRuleState
<1>6. ASSUME NEW w \in Workers, SetRuleState(w) PROVE Structure'
  <2> DEFINE next == Extended(read[w], job[w])
             c == IF Triggered(next) THEN Len(log) + 1 ELSE cut
  <2>1. /\ pc[w] = "set" /\ job[w] \in Messages /\ next \in Seq(Messages)
        /\ window' = IF Triggered(next) THEN <<>> ELSE next
        /\ raised' = IF Triggered(next) THEN raised \union {next} ELSE raised
        /\ Record(TRUE, Append(log, job[w]), c)
        /\ read' = [read EXCEPT ![w] = <<>>]
        /\ pc'   = [pc EXCEPT ![w] = "finish"]
        /\ UNCHANGED <<queue, attempt, job>>
    BY <1>6, SetEffect
  <2>2. c \in 0..Len(log) + 1
    BY <1>2
  <2> HIDE DEF next, c
  <2>3. /\ Append(log, job[w]) \in Seq(Messages)
        /\ Len(Append(log, job[w])) = Len(log) + 1
    BY <2>1, AppendProperties
  <2>4. orderly' \in BOOLEAN /\ log' \in Seq(Messages) /\ cut' \in 0..Len(log')
    <3>1. orderly' \in BOOLEAN
      BY <2>1, RecordEffect
    <3>2. CASE orderly'
      <4>1. log' = Append(log, job[w]) /\ cut' = c
        BY <2>1, <3>2, RecordEffect
      <4> QED
        BY <2>2, <2>3, <3>1, <4>1
    <3>3. CASE ~orderly'
      <4>1. log' = <<>> /\ cut' = 0
        BY <2>1, <3>3, RecordEffect
      <4> QED
        BY <1>1, <3>1, <4>1
    <3> QED
      BY <3>2, <3>3
  <2>5. window' \in Seq(Messages) /\ raised' \subseteq Seq(Messages)
    BY <1>1, <2>1
  <2>6. TypeOK'
    BY <1>1, <2>1, <2>4, <2>5
  <2>7. Jobs'
    BY <2>1
  <2> QED
    BY <2>6, <2>7
<1>7. ASSUME NEW w \in Workers, Finish(w) PROVE Structure'
  BY <1>7 DEF Finish
<1>8. ASSUME NEW w \in Workers, Fail(w) PROVE Structure'
  <2>1. /\ queue' \subseteq Messages /\ attempt' \in [Messages -> 0..MaxAttempts]
        /\ \A n \in Messages \ {job[w]} : n \in queue' <=> n \in queue
        /\ pc[w] # "idle"
    BY <1>8, FailEffect
  <2>2. /\ pc'   = [pc EXCEPT ![w] = "idle"]
        /\ job'  = [job EXCEPT ![w] = NoMessage]
        /\ read' = [read EXCEPT ![w] = <<>>]
        /\ UNCHANGED <<window, raised>>
    BY <1>8 DEF Fail
  <2>3. orderly' \in BOOLEAN /\ log' \in Seq(Messages) /\ cut' \in 0..Len(log')
    <3>1. Record(pc[w] # "finish", log, cut) /\ (pc[w] # "finish") \in BOOLEAN
      BY <1>8 DEF Fail
    <3> QED
      BY <1>3, <3>1
  <2>4. TypeOK'
    BY <1>1, <2>1, <2>2, <2>3
  <2>5. Jobs'
    BY <2>1, <2>2
  <2> QED
    BY <2>4, <2>5
<1>9. CASE Expire
  <2>1. orderly' \in BOOLEAN /\ log' \in Seq(Messages) /\ cut' \in 0..Len(log')
    BY <1>3, <1>9 DEF Expire
  <2> QED
    BY <1>1, <1>9, <2>1 DEF Expire
<1>10. CASE UNCHANGED vars
  BY <1>10 DEF vars
<1> QED
  BY <1>4, <1>5, <1>6, <1>7, <1>8, <1>9, <1>10 DEF Next

\* What a step makes of the windows and of the alerts.
LEMMA WindowEffect ==
  ASSUME Structure, [Next]_vars
  PROVE  /\ \/ window' \in {window, <<>>}
            \/ \E w \in Workers :
                 SetRuleState(w) /\ window' = Extended(read[w], job[w])
         /\ \A v \in Workers : read'[v] \in {read[v], window, <<>>}
         /\ \/ raised' = raised
            \/ \E w \in Workers :
                 /\ SetRuleState(w) /\ Triggered(Extended(read[w], job[w]))
                 /\ raised' = raised \union {Extended(read[w], job[w])}
<1> USE DEF Structure, TypeOK
<1>1. ASSUME NEW w \in Workers, Take(w) \/ Finish(w)
      PROVE  UNCHANGED <<window, read, raised>>
  BY <1>1 DEF Take, Finish
<1>2. ASSUME NEW w \in Workers, GetRuleState(w)
      PROVE  /\ UNCHANGED <<window, raised>>
             /\ \A v \in Workers : read'[v] \in {read[v], window}
  BY <1>2 DEF GetRuleState
<1>3. ASSUME NEW w \in Workers, SetRuleState(w)
      PROVE  /\ window' \in {<<>>, Extended(read[w], job[w])}
             /\ \A v \in Workers : read'[v] \in {read[v], <<>>}
             /\ \/ raised' = raised
                \/ /\ Triggered(Extended(read[w], job[w]))
                   /\ raised' = raised \union {Extended(read[w], job[w])}
  <2>1. /\ window' \in {<<>>, Extended(read[w], job[w])}
        /\ \/ raised' = raised
           \/ /\ Triggered(Extended(read[w], job[w]))
              /\ raised' = raised \union {Extended(read[w], job[w])}
    BY <1>3, SetEffect
  <2>2. read' = [read EXCEPT ![w] = <<>>]
    BY <1>3, SetEffect
  <2> QED
    BY <2>1, <2>2
<1>4. ASSUME NEW w \in Workers, Fail(w)
      PROVE  /\ UNCHANGED <<window, raised>>
             /\ \A v \in Workers : read'[v] \in {read[v], <<>>}
  BY <1>4 DEF Fail
<1>5. CASE Expire
  BY <1>5 DEF Expire
<1>6. CASE UNCHANGED vars
  BY <1>6 DEF vars
<1> QED
  BY <1>1, <1>2, <1>3, <1>4, <1>5, <1>6 DEF Next

\* A message that failed has failed.
LEMMA AttemptsGrow ==
  ASSUME Structure, Structure', [Next]_vars, NEW m \in Messages
  PROVE  /\ attempt[m] \in Nat /\ attempt'[m] \in Nat
         /\ attempt[m] > 0 => attempt'[m] > 0
<1>1. attempt[m] \in Nat /\ attempt'[m] \in Nat
  BY CountWindowAssumption DEF Structure, TypeOK
<1>2. ASSUME NEW w \in Workers, Fail(w) PROVE attempt[m] > 0 => attempt'[m] > 0
  BY <1>2, FailEffect
<1>3. (\E w \in Workers : Fail(w)) \/ attempt' = attempt
  BY SetEffect DEF Next, Take, GetRuleState, Finish, Expire, vars
<1> QED
  BY <1>1, <1>2, <1>3

\* What is not to be counted any more is not, unless it failed once counted.
LEMMA DoneStays ==
  ASSUME Structure, Structure', [Next]_vars, NEW m \in Messages, Done(m),
         attempt'[m] = 0 \/ orderly'
  PROVE  Done(m)'
<1> USE DEF Structure, TypeOK
<1>1. ASSUME NEW w \in Workers, Take(w) PROVE Done(m)'
  BY <1>1 DEF Take, Done
<1>2. ASSUME NEW w \in Workers, GetRuleState(w) \/ Finish(w) PROVE Done(m)'
  BY <1>2 DEF GetRuleState, Finish, Done
<1>3. ASSUME NEW w \in Workers, SetRuleState(w) PROVE Done(m)'
  BY <1>3, SetEffect DEF Done
<1>4. ASSUME NEW w \in Workers, Fail(w) PROVE Done(m)'
  <2>1. /\ pc[w] \in {"get", "set", "finish"}
        /\ \A n \in Messages \ {job[w]} : n \in queue' <=> n \in queue
        /\ \/ UNCHANGED queue
           \/ attempt'[job[w]] > 0
    BY <1>4, FailEffect
  <2>2. /\ pc' = [pc EXCEPT ![w] = "idle"] /\ job' = [job EXCEPT ![w] = NoMessage]
        /\ Record(pc[w] # "finish", log, cut)
    BY <1>4 DEF Fail
  <2>3. \A v \in Workers : pc'[v] \in {"get", "set"} => pc[v] \in {"get", "set"} /\ job'[v] = job[v]
    BY <2>2
  <2>4. m \notin queue'
    <3>1. CASE pc[w] = "finish"
      <4>1. ~orderly'
        BY <2>2, <3>1 DEF Record
      <4> QED
        BY <2>1, <4>1 DEF Done
    <3>2. CASE pc[w] \in {"get", "set"}
      BY <2>1, <3>2 DEF Done
    <3> QED
      BY <2>1, <3>1, <3>2
  <2> QED
    BY <2>3, <2>4 DEF Done
<1>5. CASE Expire
  BY <1>5 DEF Expire, Done
<1>6. CASE UNCHANGED vars
  BY <1>6 DEF vars, Done
<1> QED
  BY <1>1, <1>2, <1>3, <1>4, <1>5, <1>6 DEF Next

\* What was just counted is not counted any more.
LEMMA SetIsDone ==
  ASSUME Structure, NEW w \in Workers, SetRuleState(w)
  PROVE  Done(job[w])'
<1>1. /\ pc[w] = "set" /\ pc' = [pc EXCEPT ![w] = "finish"]
      /\ UNCHANGED <<queue, job>>
  BY SetEffect
<1> QED
  BY <1>1 DEF Done, Structure, TypeOK, Jobs

-----------------------------------------------------------------------------
(* Whatever the order *)

\* A message that never failed is not counted twice.
LEMMA CountedOnceStep ==
  ASSUME Structure, Structure', CountedOnce, [Next]_vars
  PROVE  CountedOnce'
<1> SUFFICES ASSUME NEW m \in Messages, attempt'[m] = 0,
                    Has(window, m)' \/ \E v \in Workers : Has(read[v], m)'
             PROVE  Done(m)'
  BY DEF CountedOnce
<1>1. attempt[m] = 0
  BY AttemptsGrow
<1>2. ~Has(<<>>, m)
  BY DEF Has
<1>3. \/ Has(window, m) \/ \E v \in Workers : Has(read[v], m)
      \/ \E w \in Workers : SetRuleState(w) /\ Has(Extended(read[w], job[w]), m)
  <2>1. CASE Has(window, m)'
    BY <1>2, <2>1, WindowEffect DEF Has
  <2>2. ASSUME NEW v \in Workers, Has(read[v], m)'
        PROVE  Has(window, m) \/ Has(read[v], m)
    BY <1>2, <2>2, WindowEffect DEF Has
  <2> QED
    BY <2>1, <2>2
<1>4. ASSUME Has(window, m) \/ \E v \in Workers : Has(read[v], m)
      PROVE  Done(m)'
  BY <1>1, <1>4, DoneStays DEF CountedOnce
<1>5. ASSUME NEW w \in Workers, SetRuleState(w), Has(Extended(read[w], job[w]), m)
      PROVE  Done(m)'
  <2>1. Has(read[w], m) \/ m = job[w]
    <3>1. read[w] \in Seq(Messages) /\ job[w] \in Messages
      BY <1>5, SetEffect
    <3> QED
      BY <1>5, <3>1, ExtendedHas
  <2>2. CASE m = job[w]
    <3>1. Done(job[w])' /\ job' = job
      BY <1>5, SetIsDone, SetEffect
    <3> QED
      BY <2>2, <3>1 DEF Done
  <2> QED
    BY <1>4, <2>1, <2>2
<1> QED
  BY <1>3, <1>4, <1>5

\* A window stays free of what was counted twice, as messages fail.
LEMMA DistinctStays ==
  ASSUME Structure, Structure', [Next]_vars, NEW win \in Seq(Messages), Distinct(win)
  PROVE  \A i, j \in DOMAIN win : win[i] = win[j] => i = j \/ attempt'[win[i]] > 0
<1>1. \A i \in DOMAIN win : win[i] \in Messages
  BY LenProperties, ElementOfSeq
<1> QED
  BY <1>1, AttemptsGrow DEF Distinct

\* The window that a call writes has only a message that failed twice.
LEMMA SetDistinct ==
  ASSUME Structure, CountedOnce, AllDistinct, NEW w \in Workers, SetRuleState(w)
  PROVE  /\ Extended(read[w], job[w]) \in Seq(Messages)
         /\ Distinct(Extended(read[w], job[w]))
<1>1. pc[w] = "set" /\ read[w] \in Seq(Messages) /\ job[w] \in Messages
  BY SetEffect
<1>2. ~Has(read[w], job[w]) \/ attempt[job[w]] > 0
  <2>1. attempt[job[w]] \in Nat
    BY <1>1, CountWindowAssumption DEF Structure, TypeOK
  <2> QED
    BY <1>1, <2>1 DEF CountedOnce, Done
<1>3. Distinct(read[w])
  BY DEF AllDistinct
<1> QED
  BY <1>1, <1>2, <1>3, ExtendedIs, ExtendedDistinct

\* Every step keeps the windows free of what was counted twice.
LEMMA AllDistinctStep ==
  ASSUME Structure, Structure', CountedOnce, AllDistinct, [Next]_vars
  PROVE  AllDistinct'
<1>1. window \in Seq(Messages) /\ \A v \in Workers : read[v] \in Seq(Messages)
  BY DEF Structure, TypeOK
<1>2. Distinct(<<>>)
  BY DEF Distinct
<1>3. Distinct(window)'
  <2>1. CASE window' \in {window, <<>>}
    BY <1>1, <1>2, <2>1, DistinctStays DEF AllDistinct, Distinct
  <2>2. ASSUME NEW w \in Workers, SetRuleState(w), window' = Extended(read[w], job[w])
        PROVE  Distinct(window)'
    <3>1. /\ Extended(read[w], job[w]) \in Seq(Messages)
          /\ Distinct(Extended(read[w], job[w]))
      BY <2>2, SetDistinct
    <3> QED
      BY <2>2, <3>1, DistinctStays DEF Distinct
  <2> QED
    BY <2>1, <2>2, WindowEffect
<1>4. ASSUME NEW v \in Workers PROVE Distinct(read[v])'
  <2>1. read'[v] \in {read[v], window, <<>>}
    BY WindowEffect
  <2> QED
    BY <1>1, <1>2, <2>1, DistinctStays DEF AllDistinct, Distinct
<1> QED
  BY <1>3, <1>4 DEF AllDistinct

\* A window without what was counted twice has as many messages as measurements.
LEMMA DistinctMatches ==
  ASSUME Structure, NEW win \in Seq(Messages), Distinct(win),
         \A i \in DOMAIN win : ~(attempt[win[i]] > 0)
  PROVE  Cardinality({win[i] : i \in DOMAIN win} \intersect Matching) = Matches(win)
<1> DEFINE I == {i \in DOMAIN win : win[i] \in Matching}
           T == {win[i] : i \in DOMAIN win} \intersect Matching
           f == [i \in I |-> win[i]]
<1>1. IsFiniteSet(I)
  <2>1. IsFiniteSet(1..Len(win)) /\ DOMAIN win = 1..Len(win)
    BY LenProperties, FS_Interval
  <2>2. I \in SUBSET (1..Len(win))
    BY <2>1
  <2> QED
    BY <2>1, <2>2, FS_Subset
<1>2. f \in Surjection(I, T)
  BY DEF Surjection
<1>3. f \in Injection(I, T)
  <2>1. \A i, j \in I : f[i] = f[j] => i = j
    BY DEF Distinct
  <2>2. f \in [I -> T]
    OBVIOUS
  <2> QED
    BY <2>1, <2>2 DEF Injection, IsInjective
<1> HIDE DEF I, T, f
<1>4. Cardinality(T) = Cardinality(I)
  BY <1>1, <1>2, <1>3, FS_Surjection
<1> QED
  BY <1>4 DEF I, T, Matches

\* Every step keeps the alerts backed.
LEMMA AlertBackedStep ==
  ASSUME Structure, Structure', CountedOnce, AllDistinct, AlertBacked, [Next]_vars
  PROVE  AlertBacked'
<1>1. ASSUME NEW alert \in Seq(Messages),
             \/ Cardinality({alert[i] : i \in DOMAIN alert} \intersect Matching) >= Required
             \/ \E i \in DOMAIN alert : attempt[alert[i]] > 0
      PROVE  \/ Cardinality({alert[i] : i \in DOMAIN alert} \intersect Matching) >= Required
             \/ \E i \in DOMAIN alert : attempt'[alert[i]] > 0
  <2>1. \A i \in DOMAIN alert : alert[i] \in Messages
    BY LenProperties, ElementOfSeq
  <2> QED
    BY <1>1, <2>1, AttemptsGrow
<1>2. ASSUME NEW w \in Workers, SetRuleState(w), Triggered(Extended(read[w], job[w]))
      PROVE  LET alert == Extended(read[w], job[w])
             IN  /\ alert \in Seq(Messages)
                 /\ \/ Cardinality({alert[i] : i \in DOMAIN alert} \intersect Matching)
                         >= Required
                    \/ \E i \in DOMAIN alert : attempt[alert[i]] > 0
  BY <1>2, SetDistinct, DistinctMatches DEF Triggered
<1>3. ASSUME NEW alert \in raised'
      PROVE  \/ Cardinality({alert[i] : i \in DOMAIN alert} \intersect Matching) >= Required
             \/ \E i \in DOMAIN alert : attempt'[alert[i]] > 0
  <2>1. CASE alert \in raised
    BY <1>1, <2>1 DEF AlertBacked, TypeOK
  <2>2. CASE alert \notin raised
    BY <1>1, <1>2, <2>2, WindowEffect
  <2> QED
    BY <2>1, <2>2
<1> QED
  BY <1>3 DEF AlertBacked, Structure

\* An alert is backed by as many different matching measurements as the rule
\* requires, also when workers overwrite each other's windows, unless one of them
\* came twice because its message was retried.
THEOREM AlertsAreBacked == Spec => []AlertBacked
<1>1. Init => CountedOnce /\ AllDistinct /\ AlertBacked
  <2> SUFFICES ASSUME Init PROVE CountedOnce /\ AllDistinct /\ AlertBacked
    OBVIOUS
  <2>1. window = <<>> /\ raised = {} /\ \A w \in Workers : read[w] = <<>>
    BY DEF Init
  <2>2. TypeOK
    BY StructureInit DEF Structure
  <2> QED
    BY <2>1, <2>2 DEF CountedOnce, AllDistinct, AlertBacked, Distinct, Has
<1> QED
  BY <1>1, StructureInit, StructureStep, CountedOnceStep, AllDistinctStep, AlertBackedStep,
     PTL DEF Spec
-----------------------------------------------------------------------------
(* In order *)

\* Where the last Size measurements begin, none before the cut.
Start(l, c) == IF Len(l) > c + Size THEN Len(l) - Size ELSE c

\* A piece of a sequence of messages.
LEMMA PieceIs ==
  ASSUME NEW l \in Seq(Messages), NEW s \in 0..Len(l), NEW e \in s..Len(l)
  PROVE  /\ SubSeq(l, s + 1, e) \in Seq(Messages)
         /\ Len(SubSeq(l, s + 1, e)) = e - s
         /\ \A i \in 1..e - s : SubSeq(l, s + 1, e)[i] = l[i + s]
<1> DEFINE piece == SubSeq(l, s + 1, e)
<1>1. Len(l) \in Nat /\ s \in Int /\ e \in Int /\ s + 1 \in Int /\ s >= 0 /\ e >= s
  BY LenProperties
<1>2. \A i \in s + 1..e : l[i] \in Messages
  BY <1>1, ElementOfSeq
<1>3. /\ piece \in Seq(Messages)
      /\ Len(piece) = IF s + 1 <= e THEN e - (s + 1) + 1 ELSE 0
      /\ \A i \in 1..e - (s + 1) + 1 : piece[i] = l[s + 1 + i - 1]
  BY <1>1, <1>2, SubSeqProperties
<1> HIDE DEF piece
<1>4. Len(piece) = e - s
  BY <1>1, <1>3
<1>5. ASSUME NEW i \in 1..e - s PROVE piece[i] = l[i + s]
  <2>1. i \in 1..e - (s + 1) + 1 /\ s + 1 + i - 1 = i + s
    BY <1>1
  <2> QED
    BY <1>3, <2>1
<1> QED
  BY <1>3, <1>4, <1>5 DEF piece

\* The recent measurements are a piece of the log, no longer than a window.
LEMMA RecentIs ==
  ASSUME NEW l \in Seq(Messages), NEW c \in 0..Len(l)
  PROVE  /\ Start(l, c) \in 0..Len(l) /\ Start(l, c) >= Len(l) - Size
         /\ Reference!Recent(l, c) = SubSeq(l, Start(l, c) + 1, Len(l))
         /\ Reference!Recent(l, c) \in Seq(Messages)
         /\ Len(Reference!Recent(l, c)) = Len(l) - Start(l, c)
         /\ \A i \in 1..Len(l) - Start(l, c) :
              Reference!Recent(l, c)[i] = l[i + Start(l, c)]
<1>1. Len(l) \in Nat
  BY LenProperties
<1>2. Start(l, c) \in 0..Len(l) /\ Start(l, c) >= Len(l) - Size
  BY <1>1, CountWindowAssumption DEF Start
<1>3. Reference!Recent(l, c) = SubSeq(l, Start(l, c) + 1, Len(l))
  BY DEF Reference!Recent, Start
<1>4. Len(l) \in Start(l, c)..Len(l)
  BY <1>1, <1>2
<1> QED
  BY <1>2, <1>3, <1>4, PieceIs

\* Extending the recent measurements gives the recent measurements.
LEMMA ExtendedRecent ==
  ASSUME NEW l \in Seq(Messages), NEW c \in 0..Len(l), NEW m \in Messages
  PROVE  Extended(Reference!Recent(l, c), m) = Reference!Recent(Append(l, m), c)
<1> DEFINE win == Reference!Recent(l, c)
           next == Extended(win, m)
           longer == Append(l, m)
           s == Start(l, c)
           t == Start(longer, c)
           k == Len(l)
<1>1. /\ longer \in Seq(Messages) /\ Len(longer) = k + 1 /\ k \in Nat /\ c \in 0..k
      /\ \A i \in 1..k : longer[i] = l[i]
      /\ longer[k + 1] = m
  BY AppendProperties, LenProperties
<1>2. c \in 0..Len(longer)
  BY <1>1
<1>3. /\ s \in 0..k /\ win \in Seq(Messages) /\ Len(win) = k - s
      /\ \A i \in 1..k - s : win[i] = l[i + s]
  BY RecentIs
<1>4. /\ t \in 0..k + 1 /\ Reference!Recent(longer, c) \in Seq(Messages)
      /\ Len(Reference!Recent(longer, c)) = k + 1 - t
      /\ \A i \in 1..k + 1 - t : Reference!Recent(longer, c)[i] = longer[i + t]
  <2> HIDE DEF longer
  <2>1. /\ t \in 0..Len(longer) /\ Reference!Recent(longer, c) \in Seq(Messages)
        /\ Len(Reference!Recent(longer, c)) = Len(longer) - t
        /\ \A i \in 1..Len(longer) - t : Reference!Recent(longer, c)[i] = longer[i + t]
    BY <1>1, <1>2, RecentIs
  <2> HIDE DEF t
  <2> QED
    BY <1>1, <2>1
<1>5. PICK n \in 0..Len(win) :
        /\ n = IF Len(win) + 1 > Size THEN Len(win) + 1 - Size ELSE 0
        /\ Len(next) = Len(win) + 1 - n
        /\ \A i \in 1..Len(win) + 1 - n :
             /\ i + n \in 1..Len(win) + 1
             /\ i + n \in 1..Len(win) => next[i] = win[i + n]
             /\ i + n = Len(win) + 1 => next[i] = m
  BY <1>3, ExtendedIs
<1>6. next \in Seq(Messages)
  BY <1>3, ExtendedIs
<1>7. /\ s = IF k > c + Size THEN k - Size ELSE c
      /\ t = IF k + 1 > c + Size THEN k + 1 - Size ELSE c
  <2>1. s = IF k > c + Size THEN k - Size ELSE c
    BY DEF Start
  <2>2. t = IF Len(longer) > c + Size THEN Len(longer) - Size ELSE c
    BY DEF Start
  <2>3. Len(longer) = k + 1 /\ k \in Int /\ c \in Int /\ Size \in Int
    BY <1>1, CountWindowAssumption
  <2> HIDE DEF s, t, longer, k
  <2> QED
    BY <2>1, <2>2, <2>3
<1> HIDE DEF win, next, longer, s, t, k
<1>8. t = s + n
  BY <1>1, <1>3, <1>5, <1>7, CountWindowAssumption
<1>9. Len(next) = k + 1 - t /\ s \in Int /\ n \in Int /\ k \in Int /\ t \in Int
  <2>1. s \in Int /\ n \in Int /\ k \in Int /\ t \in Int
    BY <1>1, <1>3, <1>4, <1>5
  <2>2. Len(next) = k - s + 1 - n
    BY <1>3, <1>5
  <2> QED
    BY <1>8, <2>1, <2>2
<1>10. ASSUME NEW i \in 1..k + 1 - t PROVE next[i] = longer[i + t]
  <2>1. i \in 1..Len(win) + 1 - n /\ i + t = i + n + s /\ i \in Int
    BY <1>3, <1>8, <1>9
  <2>2. CASE i + n \in 1..Len(win)
    <3>1. next[i] = win[i + n]
      BY <1>5, <2>1, <2>2
    <3>2. win[i + n] = l[i + n + s]
      BY <1>3, <2>2
    <3>3. i + n + s \in 1..k
      BY <1>3, <1>9, <2>1, <2>2
    <3> QED
      BY <1>1, <2>1, <3>1, <3>2, <3>3
  <2>3. CASE i + n = Len(win) + 1
    <3>1. next[i] = m
      BY <1>5, <2>1, <2>3
    <3>2. i + t = k + 1
      BY <1>3, <1>9, <2>1, <2>3
    <3> QED
      BY <1>1, <3>1, <3>2
  <2>4. i + n \in 1..Len(win) + 1
    BY <1>5, <2>1
  <2>5. Len(win) \in Nat
    BY <1>3
  <2>6. i + n \in 1..Len(win) \/ i + n = Len(win) + 1
    BY <2>4, <2>5
  <2> QED
    BY <2>2, <2>3, <2>6
<1>11. next = Reference!Recent(longer, c)
  <2> DEFINE recent == Reference!Recent(longer, c)
  <2>1. recent \in Seq(Messages) /\ Len(recent) = Len(next)
    BY <1>4, <1>9
  <2>2. \A i \in 1..Len(next) : next[i] = recent[i]
    BY <1>4, <1>9, <1>10
  <2> HIDE DEF recent
  <2>3. next = recent
    BY <1>6, <2>1, <2>2, SeqEqual
  <2> QED
    BY <2>3 DEF recent
<1> QED
  BY <1>11 DEF next, win, longer

\* What is in a log with a measurement more.
LEMMA AppendHas ==
  ASSUME NEW l \in Seq(Messages), NEW m \in Messages
  PROVE  \A x : Has(Append(l, m), x) <=> Has(l, x) \/ x = m
<1>1. /\ DOMAIN l = 1..Len(l) /\ DOMAIN Append(l, m) = 1..Len(l) + 1 /\ Len(l) \in Nat
      /\ \A i \in 1..Len(l) : Append(l, m)[i] = l[i]
      /\ Append(l, m)[Len(l) + 1] = m
  BY AppendProperties, LenProperties
<1> SUFFICES ASSUME NEW x PROVE Has(Append(l, m), x) <=> Has(l, x) \/ x = m
  OBVIOUS
<1>2. ASSUME NEW i \in 1..Len(l) + 1, Append(l, m)[i] = x PROVE Has(l, x) \/ x = m
  <2>1. CASE i = Len(l) + 1
    BY <1>1, <1>2, <2>1
  <2>2. CASE i \in 1..Len(l)
    BY <1>1, <1>2, <2>2 DEF Has
  <2> QED
    BY <1>1, <2>1, <2>2
<1>3. ASSUME NEW i \in 1..Len(l), l[i] = x PROVE Has(Append(l, m), x)
  <2>1. i \in 1..Len(l) + 1 /\ Append(l, m)[i] = x
    BY <1>1, <1>3
  <2> QED
    BY <1>1, <2>1 DEF Has
<1>4. Has(Append(l, m), m)
  <2>1. Len(l) + 1 \in 1..Len(l) + 1
    BY <1>1
  <2> QED
    BY <1>1, <2>1 DEF Has
<1> QED
  BY <1>1, <1>2, <1>3, <1>4 DEF Has

\* The step that counts a measurement, in order.
Counts(w) ==
  LET next == Extended(read[w], job[w])
  IN  /\ SetRuleState(w) /\ pc[w] = "set" /\ job[w] \in Messages
      /\ log' = Append(log, job[w])
      /\ IF Triggered(next)
         THEN window' = <<>> /\ raised' = raised \union {next} /\ cut' = Len(log) + 1
         ELSE window' = next /\ raised' = raised /\ cut' = cut

\* The steps that keep the order.
LEMMA OrderlyEffect ==
  ASSUME Structure, [Next]_vars, orderly'
  PROVE  /\ orderly
         /\ \/ UNCHANGED <<window, raised, log, cut>>
            \/ \E w \in Workers : Counts(w)
<1>1. ASSUME NEW w \in Workers, Take(w) \/ Finish(w)
      PROVE  orderly /\ UNCHANGED <<window, raised, log, cut>>
  BY <1>1 DEF Take, Finish
<1>2. ASSUME NEW w \in Workers, GetRuleState(w)
      PROVE  orderly /\ UNCHANGED <<window, raised, log, cut>>
  BY <1>2 DEF GetRuleState, Record
<1>3. ASSUME NEW w \in Workers, SetRuleState(w) PROVE orderly /\ Counts(w)
  <2> DEFINE next == Extended(read[w], job[w])
  <2>1. /\ pc[w] = "set" /\ job[w] \in Messages
        /\ window' = IF Triggered(next) THEN <<>> ELSE next
        /\ raised' = IF Triggered(next) THEN raised \union {next} ELSE raised
        /\ Record(TRUE, Append(log, job[w]),
                  IF Triggered(next) THEN Len(log) + 1 ELSE cut)
    BY <1>3, SetEffect
  <2> HIDE DEF next
  <2>2. /\ orderly /\ log' = Append(log, job[w])
        /\ cut' = IF Triggered(next) THEN Len(log) + 1 ELSE cut
    BY <2>1, RecordEffect
  <2>3. CASE Triggered(next)
    BY <1>3, <2>1, <2>2, <2>3 DEF Counts, next
  <2>4. CASE ~Triggered(next)
    BY <1>3, <2>1, <2>2, <2>4 DEF Counts, next
  <2> QED
    BY <2>3, <2>4
<1>4. ASSUME NEW w \in Workers, Fail(w)
      PROVE  orderly /\ UNCHANGED <<window, raised, log, cut>>
  BY <1>4 DEF Fail, Record
<1>5. CASE Expire
  BY <1>5 DEF Expire, Record
<1>6. CASE UNCHANGED vars
  BY <1>6 DEF vars
<1> QED
  BY <1>1, <1>2, <1>3, <1>4, <1>5, <1>6 DEF Next

\* In order, the window that is written is the recent one of the log with the new
\* measurement, which the log did not have.
LEMMA CountsRecent ==
  ASSUME Structure, WindowIsRecent, orderly, NEW w \in Workers, Counts(w)
  PROVE  /\ Append(log, job[w]) \in Seq(Messages)
         /\ Len(Append(log, job[w])) = Len(log) + 1
         /\ cut \in 0..Len(log) + 1 /\ Len(log) \in Nat
         /\ Extended(read[w], job[w]) = Reference!Recent(Append(log, job[w]), cut)
         /\ ~Has(log, job[w])
         /\ Has(Extended(read[w], job[w]), job[w])
         /\ Len(Extended(read[w], job[w])) <= Size
<1>1. /\ log \in Seq(Messages) /\ cut \in 0..Len(log) /\ job[w] \in Messages
      /\ read[w] \in Seq(Messages) /\ pc[w] = "set"
  BY DEF Structure, TypeOK, Counts
<1>2. Len(log) \in Nat
  BY <1>1, LenProperties
<1>3. Append(log, job[w]) \in Seq(Messages) /\ Len(Append(log, job[w])) = Len(log) + 1
  BY <1>1, AppendProperties
<1>4. read[w] = Reference!Recent(log, cut)
  BY <1>1 DEF WindowIsRecent
<1>5. Extended(read[w], job[w]) = Reference!Recent(Append(log, job[w]), cut)
  BY <1>1, <1>4, ExtendedRecent
<1>6. ~Has(log, job[w])
  BY <1>1 DEF WindowIsRecent, Done
<1>7. Len(Extended(read[w], job[w])) <= Size
  <2>1. PICK n \in 0..Len(read[w]) :
          /\ n = IF Len(read[w]) + 1 > Size THEN Len(read[w]) + 1 - Size ELSE 0
          /\ Len(Extended(read[w], job[w])) = Len(read[w]) + 1 - n
    BY <1>1, ExtendedIs
  <2>2. Len(read[w]) \in Nat
    BY <1>1, LenProperties
  <2> QED
    BY <2>1, <2>2, CountWindowAssumption
<1>8. cut \in 0..Len(log) + 1
  BY <1>1, <1>2
<1> QED
  BY <1>1, <1>2, <1>3, <1>5, <1>6, <1>7, <1>8, ExtendedHas

\* Every step that keeps the order keeps the window that of the log.
LEMMA WindowIsRecentStep ==
  ASSUME Structure, Structure', WindowIsRecent, [Next]_vars
  PROVE  WindowIsRecent'
<1> SUFFICES ASSUME orderly' PROVE WindowIsRecent'
  BY DEF WindowIsRecent
<1>1. /\ orderly
      /\ \/ UNCHANGED <<window, raised, log, cut>>
         \/ \E w \in Workers : Counts(w)
  BY OrderlyEffect
<1>2. /\ \A v, w \in Workers : pc[v] = "set" /\ pc[w] = "set" => v = w
      /\ \A w \in Workers : pc[w] = "set" => read[w] = window
      /\ window = Reference!Recent(log, cut)
      /\ \A m \in Messages : Has(log, m) => Done(m)
  BY <1>1 DEF WindowIsRecent
<1>3. /\ \A v, w \in Workers : pc'[v] = "set" /\ pc'[w] = "set" => v = w
      /\ \A w \in Workers : pc'[w] = "set" => read'[w] = window'
  <2> USE DEF Structure, TypeOK
  <2>1. ASSUME NEW u \in Workers, Take(u) \/ Finish(u) \/ Fail(u)
        PROVE  /\ window' = window
               /\ \A v \in Workers : pc'[v] = "set" => pc[v] = "set" /\ read'[v] = read[v]
    BY <2>1 DEF Take, Finish, Fail
  <2>2. ASSUME NEW u \in Workers, GetRuleState(u)
        PROVE  /\ window' = window
               /\ \A v \in Workers : pc'[v] = "set" => v = u /\ read'[v] = window
    <3>1. \A v \in Workers : pc[v] # "set"
      BY <2>2 DEF GetRuleState, Record
    <3> QED
      BY <2>2, <3>1 DEF GetRuleState
  <2>3. ASSUME NEW u \in Workers, SetRuleState(u)
        PROVE  \A v \in Workers : pc'[v] # "set"
    <3>1. pc[u] = "set" /\ pc' = [pc EXCEPT ![u] = "finish"]
      BY <2>3, SetEffect
    <3> QED
      BY <1>2, <3>1
  <2>4. CASE Expire
    BY <2>4 DEF Expire, Record
  <2>5. CASE UNCHANGED vars
    BY <1>2, <2>5 DEF vars
  <2> QED
    BY <1>2, <2>1, <2>2, <2>3, <2>4, <2>5 DEF Next
<1>4. window' = Reference!Recent(log', cut')
  <2>1. CASE UNCHANGED <<window, raised, log, cut>>
    BY <1>2, <2>1
  <2>2. ASSUME NEW w \in Workers, Counts(w)
        PROVE  window' = Reference!Recent(log', cut')
    <3> DEFINE l == Append(log, job[w])
    <3>1. /\ l \in Seq(Messages) /\ Len(l) = Len(log) + 1 /\ Len(log) \in Nat
          /\ Extended(read[w], job[w]) = Reference!Recent(l, cut)
      BY <1>1, <2>2, CountsRecent
    <3>2. log' = l
      BY <2>2 DEF Counts
    <3> HIDE DEF l
    <3>3. CASE Triggered(Extended(read[w], job[w]))
      <4>1. window' = <<>> /\ cut' = Len(l)
        BY <2>2, <3>1, <3>3 DEF Counts
      <4>2. Len(l) \in Int /\ Len(l) \in 0..Len(l) /\ Len(l) - Len(l) = 0
        BY <3>1
      <4>3. /\ Reference!Recent(l, Len(l)) \in Seq(Messages)
            /\ Start(l, Len(l)) = Len(l)
        <5>1. ~(Len(l) > Len(l) + Size)
          BY <4>2, CountWindowAssumption
        <5> QED
          BY <3>1, <4>2, <5>1, RecentIs DEF Start
      <4>4. Len(Reference!Recent(l, Len(l))) = 0
        BY <3>1, <4>2, <4>3, RecentIs
      <4>5. Reference!Recent(l, Len(l)) = <<>>
        BY <4>3, <4>4, EmptySeq
      <4> QED
        BY <3>2, <4>1, <4>5
    <3>4. CASE ~Triggered(Extended(read[w], job[w]))
      BY <2>2, <3>1, <3>2, <3>4 DEF Counts
    <3> QED
      BY <3>3, <3>4
  <2> QED
    BY <1>1, <2>1, <2>2
<1>5. ASSUME NEW m \in Messages, Has(log', m) PROVE Done(m)'
  <2>1. CASE Has(log, m)
    BY <1>2, <2>1, DoneStays
  <2>2. CASE ~Has(log, m)
    <3>1. PICK w \in Workers : Counts(w)
      BY <1>1, <1>5, <2>2
    <3>2. log' = Append(log, job[w]) /\ job[w] \in Messages /\ log \in Seq(Messages)
      BY <3>1 DEF Counts, Structure, TypeOK
    <3>3. m = job[w]
      BY <1>5, <2>2, <3>2, AppendHas
    <3>4. Done(job[w])' /\ job' = job
      BY <3>1, SetIsDone, SetEffect DEF Counts
    <3> QED
      BY <3>3, <3>4 DEF Done
  <2> QED
    BY <2>1, <2>2
<1>6. (window = Reference!Recent(log, cut))' /\ \A m \in Messages : Has(log, m)' => Done(m)'
  BY <1>4, <1>5 DEF Has, Reference!Recent
<1> QED
  BY <1>3, <1>6 DEF WindowIsRecent

\* At the start nothing is counted.
LEMMA WindowIsRecentInit == Init => WindowIsRecent /\ CutHasAlert /\ Reference!Init
<1> SUFFICES ASSUME Init PROVE WindowIsRecent /\ CutHasAlert /\ Reference!Init
  OBVIOUS
<1>1. /\ window = <<>> /\ log = <<>> /\ cut = 0 /\ raised = {}
      /\ \A w \in Workers : pc[w] = "idle"
  BY DEF Init
<1>2. Reference!Recent(<<>>, 0) = <<>>
  <2>1. ~(0 > 0 + Size)
    BY CountWindowAssumption
  <2>2. SubSeq(<<>>, 0 + 1, 0) = <<>>
    BY SubSeqEmpty
  <2> QED
    BY <2>1, <2>2, EmptySeq DEF Reference!Recent
<1> QED
  BY <1>1, <1>2 DEF WindowIsRecent, CutHasAlert, Has, Reference!Init

\* A step that keeps the order counts a measurement in the log, or nothing.
LEMMA ReferenceStep ==
  ASSUME Structure, WindowIsRecent, [Next]_vars, orderly'
  PROVE  Reference!Next \/ UNCHANGED <<log, cut, raised>>
<1>1. /\ orderly
      /\ \/ UNCHANGED <<window, raised, log, cut>>
         \/ \E w \in Workers : Counts(w)
  BY OrderlyEffect
<1>2. ASSUME NEW w \in Workers, Counts(w) PROVE Reference!Next
  <2> DEFINE l == Append(log, job[w])
             next == Extended(read[w], job[w])
  <2>1. /\ Len(l) = Len(log) + 1 /\ next = Reference!Recent(l, cut)
        /\ ~Has(log, job[w]) /\ Len(next) <= Size
    BY <1>1, <1>2, CountsRecent
  <2>2. job[w] \in Messages /\ log' = l
    BY <1>2 DEF Counts
  <2>3. Len(next) \in Nat
    <3>1. SetRuleState(w)
      BY <1>2 DEF Counts
    <3> QED
      BY <3>1, SetEffect, LenProperties
  <2>4. Triggered(next) <=> Len(next) = Size /\ Reference!Matches(next) >= Required
    <3> HIDE DEF next
    <3>1. Matches(next) = Reference!Matches(next)
      BY DEF Matches, Reference!Matches, Cardinality, Reference!Cardinality
    <3>2. Len(next) >= Size <=> Len(next) = Size
      BY <2>1, <2>3, CountWindowAssumption
    <3> QED
      BY <3>1, <3>2 DEF Triggered
  <2>5. IF Triggered(next) THEN cut' = Len(l) /\ raised' = raised \union {next}
                           ELSE UNCHANGED <<cut, raised>>
    BY <1>2, <2>1 DEF Counts
  <2> HIDE DEF next, l
  <2>6. Reference!Count(job[w])
    BY <2>1, <2>2, <2>4, <2>5 DEF Reference!Count, l
  <2> QED
    BY <2>1, <2>2, <2>6 DEF Reference!Next, Has
<1> QED
  BY <1>1, <1>2

\* Workers that do not overlap between reading and writing keep exactly the window
\* that the log of measurements defines, and so raise exactly its alerts.
THEOREM WindowLogIsImplemented == Spec => ImplementsWindowLog
<1>1. Init => Structure /\ WindowIsRecent /\ Reference!Init
  BY StructureInit, WindowIsRecentInit
<1>2. Structure /\ WindowIsRecent /\ [Next]_vars => Structure' /\ WindowIsRecent'
  BY StructureStep, WindowIsRecentStep
<1>3. Structure /\ WindowIsRecent /\ [Next]_vars
        => [orderly' => Reference!Next]_<<log, cut, raised>>
  BY ReferenceStep
<1> QED
  BY <1>1, <1>2, <1>3, PTL DEF Spec, ImplementsWindowLog

\* In order, the last alert has the measurement at the cut.
LEMMA CutHasAlertStep ==
  ASSUME Structure, WindowIsRecent, CutHasAlert, [Next]_vars
  PROVE  CutHasAlert'
<1> SUFFICES ASSUME orderly', cut' > 0
             PROVE  \E alert \in raised' : Has(alert, log'[cut'])
  BY DEF CutHasAlert, Has
<1>1. /\ orderly
      /\ \/ UNCHANGED <<window, raised, log, cut>>
         \/ \E w \in Workers : Counts(w)
  BY OrderlyEffect
<1>2. CASE UNCHANGED <<window, raised, log, cut>>
  BY <1>1, <1>2 DEF CutHasAlert
<1>3. ASSUME NEW w \in Workers, Counts(w)
      PROVE  \E alert \in raised' : Has(alert, log'[cut'])
  <2>1. /\ log \in Seq(Messages) /\ job[w] \in Messages /\ log' = Append(log, job[w])
        /\ cut \in 0..Len(log) /\ Len(log) \in Nat
    BY <1>3, LenProperties DEF Structure, TypeOK, Counts
  <2>2. CASE Triggered(Extended(read[w], job[w]))
    <3>1. cut' = Len(log) + 1 /\ raised' = raised \union {Extended(read[w], job[w])}
      BY <1>3, <2>2 DEF Counts
    <3>2. log'[cut'] = job[w]
      BY <2>1, <3>1, AppendProperties
    <3> QED
      BY <1>1, <1>3, <3>1, <3>2, CountsRecent
  <2>3. CASE ~Triggered(Extended(read[w], job[w]))
    <3>1. cut' = cut /\ raised' = raised
      BY <1>3, <2>3 DEF Counts
    <3>2. cut \in 1..Len(log)
      BY <2>1, <3>1
    <3>3. log'[cut] = log[cut]
      BY <2>1, <3>2, AppendProperties
    <3> QED
      BY <1>1, <3>1, <3>3 DEF CutHasAlert
  <2> QED
    BY <2>2, <2>3
<1> QED
  BY <1>1, <1>2, <1>3

\* In order, no window with the required matches goes without an alert.
LEMMA NoMissedWindowStep ==
  ASSUME Structure, Structure', WindowIsRecent, CutHasAlert, NoMissedWindow, [Next]_vars
  PROVE  NoMissedWindow'
<1> DEFINE Last(l, e) == SubSeq(l, e - Size + 1, e)
           Served(A, last) == \E alert \in A : \E x : Has(alert, x) /\ Has(last, x)
<1>1. ASSUME NEW alert, NEW last
      PROVE  {alert[j] : j \in DOMAIN alert} \intersect {last[j] : j \in DOMAIN last} # {}
               <=> \E x : Has(alert, x) /\ Has(last, x)
  BY DEF Has
<1> SUFFICES ASSUME orderly', NEW i \in Size..Len(log'),
                    Matches(Last(log', i)) >= Required
             PROVE  Served(raised', Last(log', i))
  <2>1. ASSUME NEW alert \in raised', NEW i \in Size..Len(log')
        PROVE  {alert[j] : j \in DOMAIN alert}
                 \intersect {Last(log', i)[j] : j \in DOMAIN Last(log', i)} # {}
               <=> \E x : Has(alert, x) /\ Has(Last(log', i), x)
    BY <1>1
  <2> QED
    BY <2>1 DEF NoMissedWindow, Matches
<1>2. /\ orderly
      /\ \/ UNCHANGED <<window, raised, log, cut>>
         \/ \E w \in Workers : Counts(w)
  BY OrderlyEffect
<1>3. ASSUME NEW e \in Size..Len(log), Matches(Last(log, e)) >= Required
      PROVE  Served(raised, Last(log, e))
  BY <1>1, <1>2, <1>3 DEF NoMissedWindow
<1>4. CASE UNCHANGED <<raised, log>>
  BY <1>3, <1>4
<1>5. ASSUME NEW w \in Workers, Counts(w)
      PROVE  Served(raised', Last(log', i))
  <2> DEFINE next == Extended(read[w], job[w])
  <2>1. /\ log \in Seq(Messages) /\ job[w] \in Messages /\ log' = Append(log, job[w])
        /\ cut \in 0..Len(log) /\ Len(log) \in Nat /\ Size \in Nat /\ Size > 0
    BY <1>5, LenProperties, CountWindowAssumption DEF Structure, TypeOK, Counts
  <2>2. /\ log' \in Seq(Messages) /\ Len(log') = Len(log) + 1
        /\ \A k \in 1..Len(log) : log'[k] = log[k]
        /\ next = Reference!Recent(log', cut)
        /\ Has(next, job[w])
    BY <1>2, <1>5, <2>1, CountsRecent, AppendProperties
  <2>3. raised \subseteq raised'
    BY <1>5 DEF Counts
  <2> HIDE DEF next
  <2>4. CASE i \in Size..Len(log)
    <3>1. i - Size \in 0..Len(log) /\ i - Size \in 0..Len(log') /\ i - Size \in Int
          /\ i \in i - Size..Len(log) /\ i \in i - Size..Len(log') /\ i \in Int
      BY <2>1, <2>2, <2>4
    <3>2. /\ Last(log, i) \in Seq(Messages) /\ Last(log', i) \in Seq(Messages)
          /\ Len(Last(log, i)) = i - (i - Size) /\ Len(Last(log', i)) = i - (i - Size)
          /\ \A k \in 1..i - (i - Size) : /\ Last(log, i)[k] = log[k + (i - Size)]
                                          /\ Last(log', i)[k] = log'[k + (i - Size)]
      BY <2>1, <2>2, <3>1, PieceIs
    <3>3. \A k \in 1..i - (i - Size) : k + (i - Size) \in 1..Len(log)
      BY <2>1, <2>4, <3>1
    <3>4. \A k \in 1..Len(Last(log, i)) : Last(log, i)[k] = Last(log', i)[k]
      BY <2>2, <3>2, <3>3
    <3>5. Last(log', i) = Last(log, i)
      <4> HIDE DEF Last
      <4> QED
        BY <3>2, <3>4, SeqEqual
    <3> QED
      BY <1>3, <2>3, <2>4, <3>5
  <2>5. CASE i = Len(log') /\ Len(log') >= cut + Size
    <3>1. Len(log') - Size + 1 = Start(log', cut) + 1
      BY <2>1, <2>2, <2>5 DEF Start
    <3>2. cut \in 0..Len(log')
      BY <2>1, <2>2
    <3>3. Last(log', i) = next
      BY <2>2, <2>5, <3>1, <3>2, RecentIs
    <3>4. Len(next) = Len(log') - Start(log', cut)
      BY <2>2, <3>2, RecentIs
    <3>5. Len(next) >= Size
      <4>1. Start(log', cut) = Len(log') - Size
        BY <2>1, <2>2, <2>5 DEF Start
      <4> QED
        BY <2>1, <2>2, <3>4, <4>1
    <3>6. Triggered(next)
      BY <3>3, <3>5 DEF Triggered
    <3>7. next \in raised'
      BY <1>5, <3>6 DEF Counts, next
    <3> QED
      BY <2>2, <3>3, <3>7
  <2>6. CASE i = Len(log') /\ Len(log') < cut + Size
    <3>1. /\ i - Size \in 0..Len(log') /\ i - Size \in Int /\ i \in i - Size..Len(log')
          /\ i \in Int /\ cut - (i - Size) \in 1..i - (i - Size) /\ cut \in 1..Len(log)
          /\ cut - (i - Size) + (i - Size) = cut
      BY <2>1, <2>2, <2>6
    <3>2. /\ Last(log', i) \in Seq(Messages)
          /\ Len(Last(log', i)) = i - (i - Size)
          /\ Last(log', i)[cut - (i - Size)] = log'[cut]
      BY <2>2, <3>1, PieceIs
    <3>3. DOMAIN Last(log', i) = 1..i - (i - Size)
      <4> HIDE DEF Last
      <4> QED
        BY <3>2, LenProperties
    <3>4. Has(Last(log', i), log[cut])
      BY <2>2, <3>1, <3>2, <3>3 DEF Has
    <3>5. \E alert \in raised : Has(alert, log[cut])
      BY <1>2, <3>1 DEF CutHasAlert
    <3> QED
      BY <2>3, <3>4, <3>5
  <2>7. i \in Size..Len(log) \/ i = Len(log')
    BY <2>1, <2>2
  <2> QED
    BY <2>1, <2>2, <2>4, <2>5, <2>6, <2>7
<1> QED
  BY <1>2, <1>4, <1>5

\* As long as workers do not overlap and nothing is counted twice, no alert is
\* missed: of any Size consecutive measurements with the required matches, some
\* belong to an alert.
THEOREM NoWindowIsMissed == Spec => []NoMissedWindow
<1>1. Init => NoMissedWindow
  <2> SUFFICES ASSUME Init PROVE NoMissedWindow
    OBVIOUS
  <2>1. Len(log) = 0
    BY EmptySeq DEF Init
  <2>2. Size..Len(log) = {}
    BY <2>1, CountWindowAssumption
  <2> QED
    BY <2>2 DEF NoMissedWindow
<1>2. Init => Structure /\ WindowIsRecent /\ CutHasAlert
  BY StructureInit, WindowIsRecentInit
<1> QED
  BY <1>1, <1>2, StructureStep, WindowIsRecentStep, CutHasAlertStep, NoMissedWindowStep,
     PTL DEF Spec
-----------------------------------------------------------------------------
(* Alerts in order *)

\* In order, the log has a measurement once, and alerts have those up to the cut.
AlertsEndAtCut ==
  orderly =>
    /\ \A i, j \in 1..Len(log) : log[i] = log[j] => i = j
    /\ \A alert \in raised : \A x : Has(alert, x) => \E i \in 1..cut : log[i] = x

\* In order, no measurement is in two alerts.
AlertsShareNothing ==
  orderly =>
    \A alert, other \in raised :
      alert # other => ~\E x : Has(alert, x) /\ Has(other, x)

\* Every step that keeps the order takes the measurements of a new alert from the
\* log after the cut, and moves the cut behind them.
LEMMA AlertsShareNothingStep ==
  ASSUME Structure, WindowIsRecent, AlertsEndAtCut, AlertsShareNothing, [Next]_vars
  PROVE  AlertsEndAtCut' /\ AlertsShareNothing'
<1> SUFFICES ASSUME orderly' PROVE AlertsEndAtCut' /\ AlertsShareNothing'
  BY DEF AlertsEndAtCut, AlertsShareNothing
<1>1. /\ orderly
      /\ \/ UNCHANGED <<window, raised, log, cut>>
         \/ \E w \in Workers : Counts(w)
  BY OrderlyEffect
<1>2. /\ \A i, j \in 1..Len(log) : log[i] = log[j] => i = j
      /\ \A alert \in raised : \A x : Has(alert, x) => \E i \in 1..cut : log[i] = x
      /\ \A alert, other \in raised :
           alert # other => ~\E x : Has(alert, x) /\ Has(other, x)
  BY <1>1 DEF AlertsEndAtCut, AlertsShareNothing
<1>3. CASE UNCHANGED <<raised, log, cut>>
  BY <1>2, <1>3 DEF AlertsEndAtCut, AlertsShareNothing, Has
<1>4. ASSUME NEW w \in Workers, Counts(w)
      PROVE  AlertsEndAtCut' /\ AlertsShareNothing'
  <2> DEFINE l == Append(log, job[w])
             k == Len(log)
             next == Extended(read[w], job[w])
  <2>1. /\ log \in Seq(Messages) /\ job[w] \in Messages /\ log' = l
        /\ cut \in 0..k /\ k \in Nat
    BY <1>4, LenProperties DEF Structure, TypeOK, Counts
  <2>2. /\ l \in Seq(Messages) /\ Len(l) = k + 1 /\ l[k + 1] = job[w]
        /\ \A i \in 1..k : l[i] = log[i]
    BY <2>1, AppendProperties
  <2>3. next = Reference!Recent(l, cut) /\ ~Has(log, job[w])
    BY <1>1, <1>4, CountsRecent
  <2>4. \A i \in 1..k : log[i] # job[w]
    BY <2>1, <2>3, LenProperties DEF Has
  <2>5. IF Triggered(next)
        THEN raised' = raised \union {next} /\ cut' = k + 1
        ELSE raised' = raised /\ cut' = cut
    BY <1>4 DEF Counts
  <2>6. ASSUME NEW x, Has(next, x) PROVE \E i \in cut + 1..k + 1 : l[i] = x
    <3> DEFINE s == Start(l, cut)
               recent == Reference!Recent(l, cut)
    <3>1. cut \in 0..Len(l)
      BY <2>1, <2>2
    <3>2. /\ s \in 0..Len(l) /\ recent \in Seq(Messages) /\ Len(recent) = Len(l) - s
          /\ \A i \in 1..Len(l) - s : recent[i] = l[i + s]
      BY <2>2, <3>1, RecentIs
    <3>3. s >= cut
      BY <2>1, <2>2, CountWindowAssumption DEF Start
    <3> HIDE DEF s, recent, l, k
    <3>4. DOMAIN recent = 1..Len(l) - s
      BY <3>2, LenProperties
    <3>5. PICK i \in 1..Len(l) - s : recent[i] = x
      BY <2>3, <2>6, <3>4 DEF Has, recent
    <3>6. i + s \in cut + 1..k + 1
      BY <2>1, <2>2, <3>2, <3>3
    <3> QED
      BY <3>2, <3>5, <3>6
  <2> HIDE DEF l, k, next
  <2>7. \A i, j \in 1..k + 1 : l[i] = l[j] => i = j
    <3> SUFFICES ASSUME NEW i \in 1..k + 1, NEW j \in 1..k + 1, l[i] = l[j]
                 PROVE  i = j
      OBVIOUS
    <3>1. CASE i \in 1..k /\ j \in 1..k
      BY <1>2, <2>2, <3>1 DEF k
    <3>2. CASE i = k + 1 /\ j \in 1..k
      BY <2>2, <2>4, <3>2
    <3>3. CASE i \in 1..k /\ j = k + 1
      BY <2>2, <2>4, <3>3
    <3> QED
      BY <2>1, <3>1, <3>2, <3>3
  <2>8. ASSUME NEW alert \in raised, NEW x, Has(alert, x)
        PROVE  \E i \in 1..cut : i \in 1..k + 1 /\ l[i] = x
    <3>1. PICK i \in 1..cut : log[i] = x
      BY <1>2, <2>8
    <3>2. i \in 1..k /\ i \in 1..k + 1
      BY <2>1, <3>1
    <3> QED
      BY <2>2, <3>1, <3>2
  <2>9. ASSUME NEW alert \in raised, NEW x, Has(alert, x) PROVE ~Has(next, x)
    <3>1. SUFFICES ASSUME Has(next, x) PROVE FALSE
      OBVIOUS
    <3>2. PICK i \in 1..cut : i \in 1..k + 1 /\ l[i] = x
      BY <2>8, <2>9
    <3>3. PICK j \in cut + 1..k + 1 : l[j] = x
      BY <2>6, <3>1
    <3>4. i \in 1..k + 1 /\ j \in 1..k + 1 /\ i # j
      BY <2>1, <3>2, <3>3
    <3> QED
      BY <2>7, <3>2, <3>3, <3>4
  <2>10. ASSUME NEW alert \in raised', NEW x, Has(alert, x)
         PROVE  \E i \in 1..cut' : l[i] = x
    <3>1. CASE alert \in raised
      <4>1. PICK i \in 1..cut : i \in 1..k + 1 /\ l[i] = x
        BY <2>8, <2>10, <3>1
      <4>2. i \in 1..cut'
        BY <2>5, <4>1
      <4> QED
        BY <4>1, <4>2
    <3>2. CASE alert = next /\ Triggered(next)
      <4>1. PICK i \in cut + 1..k + 1 : l[i] = x
        BY <2>6, <2>10, <3>2
      <4>2. i \in 1..cut'
        BY <2>1, <2>5, <3>2, <4>1
      <4> QED
        BY <4>1, <4>2
    <3> QED
      BY <2>5, <3>1, <3>2
  <2>11. AlertsEndAtCut'
    BY <2>1, <2>2, <2>7, <2>10 DEF AlertsEndAtCut, Has
  <2>12. ASSUME NEW alert \in raised', NEW other \in raised', alert # other,
                NEW x, Has(alert, x), Has(other, x)
         PROVE  FALSE
    <3>1. CASE alert \in raised /\ other \in raised
      BY <1>2, <2>12, <3>1
    <3>2. CASE alert \in raised /\ other = next
      BY <2>9, <2>12, <3>2
    <3>3. CASE alert = next /\ other \in raised
      BY <2>9, <2>12, <3>3
    <3> QED
      BY <2>5, <2>12, <3>1, <3>2, <3>3
  <2>13. AlertsShareNothing'
    BY <2>12 DEF AlertsShareNothing, Has
  <2> QED
    BY <2>11, <2>13
<1> QED
  BY <1>1, <1>3, <1>4

\* Workers that do not overlap and count nothing twice raise alerts no two of which
\* share a measurement: the window is reset when it triggers.
THEOREM NoMeasurementInTwoAlerts == Spec => []AlertsShareNothing
<1>1. Init => AlertsEndAtCut /\ AlertsShareNothing
  <2> SUFFICES ASSUME Init PROVE AlertsEndAtCut /\ AlertsShareNothing
    OBVIOUS
  <2>1. Len(log) = 0 /\ raised = {}
    BY EmptySeq DEF Init
  <2>2. 1..Len(log) = {}
    BY <2>1
  <2> QED
    BY <2>1, <2>2 DEF AlertsEndAtCut, AlertsShareNothing
<1>2. Init => Structure /\ WindowIsRecent
  BY StructureInit, WindowIsRecentInit
<1> QED
  BY <1>1, <1>2, StructureStep, WindowIsRecentStep, AlertsShareNothingStep, PTL DEF Spec
=============================================================================
