------------------------ MODULE LivenessWorkerProofs ------------------------
(***************************************************************************)
(* Theorems about LivenessWorker, for any rules, devices, gaps, clocks and *)
(* failures.                                                               *)
(***************************************************************************)
EXTENDS LivenessWorker, SequenceTheorems, FiniteSetTheorems, TLAPS

Alert == [rule : Rules, device : Devices, ts : Nat]

\* The types, and what is at work at a step of a round.
Structure ==
  /\ clock \in 0..MaxClock /\ since \in 0..(Interval - 1) /\ tick \in BOOLEAN
  /\ process \in {"up", "stopping", "down"}
  /\ pc \in {"wait", "rules", "rule", "device", "check"}
  /\ rules \in Seq(Rules) /\ ids \in Seq(Devices)
  /\ read \in Nat \union {NoTime}
  /\ batch \in Seq(Alert)
  /\ lastSeen \in [Devices -> Nat \union {NoTime}]
  /\ alerts \subseteq [rule : Rules, device : Devices, ts : Nat, round : Nat]
  /\ heard \subseteq [device : Devices, ts : 0..MaxClock, saved : 0..MaxClock]
  /\ start \in 0..MaxClock /\ expected \subseteq Pairs
  /\ failures \in 0..MaxFailures
  /\ start <= clock
  /\ pc = "rules" => batch = <<>>
  /\ pc \in {"device", "check"} =>
       /\ rules # <<>> /\ Gap[Head(rules)] > 0
       /\ \A d \in Range(ids) : <<Head(rules), d>> \in Pairs
  /\ pc = "check" => ids # <<>>

\* The rules and devices that the round still has to look at.
Left ==
  {p \in Pairs :
     \/ pc = "rules"
     \/ pc = "rule" /\ p[1] \in Range(rules)
     \/ /\ pc \in {"device", "check"}
        /\ p[1] \in Range(Tail(rules)) \/ (p[1] = Head(rules) /\ p[2] \in Range(ids))}

\* An alert of the batch is about a device that was looked at, and the only one.
OneEach ==
  /\ IsInjective(rules) /\ IsInjective(ids)
  /\ \A i \in DOMAIN batch : <<batch[i].rule, batch[i].device>> \in Pairs \ Left
  /\ \A i, j \in DOMAIN batch :
       batch[i].rule = batch[j].rule /\ batch[i].device = batch[j].device => i = j

\* What justifies an alert of round t0.
Justified(r, d, ts, t0) ==
  /\ ts >= t0
  /\ Gap[r] > 0
  /\ \A h \in Reports(d) : h.saved < t0 => ts - h.ts > (Gap[r] - 1) * Second

\* The last-seen time is that of the last report, and the one that was read covers
\* the reports saved before the round.
Evidence ==
  /\ \A h \in heard : lastSeen[h.device] # NoTime /\ h.ts \div Second <= lastSeen[h.device]
  /\ pc = "check" /\ read # NoTime =>
       \A h \in Reports(Head(ids)) : h.saved < start => h.ts \div Second <= read
  /\ \A i \in DOMAIN batch : Justified(batch[i].rule, batch[i].device, batch[i].ts, start)
  /\ \A a \in alerts : a.round <= clock /\ Justified(a.rule, a.device, a.ts, a.round)

\* What is expected of a round is overdue, and is still to be looked at or in the batch.
Covered ==
  \A p \in expected :
    /\ Silent(p[1], p[2])
    /\ pc = "check" /\ p = <<Head(rules), Head(ids)>> => read = lastSeen[p[2]]
    /\ pc # "wait" =>
         p \in Left \/ \E i \in DOMAIN batch : batch[i].rule = p[1] /\ batch[i].device = p[2]
-----------------------------------------------------------------------------
(* Lemmas *)

\* A sequence that is not empty has its head and what is behind it.
LEMMA RangeHeadTail ==
  ASSUME NEW S, NEW s \in Seq(S), s # <<>>
  PROVE  /\ Range(s) = {Head(s)} \union Range(Tail(s))
         /\ Head(s) = s[1]
<1>1. /\ DOMAIN s = 1..Len(s)
      /\ Tail(s) \in Seq(S)
      /\ Len(Tail(s)) = Len(s) - 1
      /\ DOMAIN Tail(s) = 1..Len(s) - 1
      /\ \A i \in 1..Len(s) - 1 : Tail(s)[i] = s[i + 1]
      /\ Len(s) \in Nat \ {0}
  BY HeadTailProperties, LenProperties, EmptySeq
<1>2. Head(s) = s[1]
  OBVIOUS
<1>3. ASSUME NEW i \in 1..Len(s), i # 1 PROVE i - 1 \in 1..Len(s) - 1 /\ s[i] = Tail(s)[i - 1]
  BY <1>1, <1>3
<1>4. Range(s) \subseteq {Head(s)} \union Range(Tail(s))
  <2> SUFFICES ASSUME NEW i \in 1..Len(s)
               PROVE  s[i] \in {Head(s)} \union Range(Tail(s))
    BY <1>1 DEF Range
  <2>1. CASE i = 1
    BY <2>1, <1>2
  <2>2. CASE i # 1
    BY <2>2, <1>1, <1>3 DEF Range
  <2> QED
    BY <2>1, <2>2
<1>5. {Head(s)} \union Range(Tail(s)) \subseteq Range(s)
  BY <1>1, <1>2 DEF Range
<1> QED
  BY <1>2, <1>4, <1>5

\* Where nothing is twice, the head is not in the tail.
LEMMA TailOfInjective ==
  ASSUME NEW S, NEW s \in Seq(S), s # <<>>, IsInjective(s)
  PROVE  /\ Tail(s) \in Seq(S) /\ IsInjective(Tail(s))
         /\ Head(s) \in S
         /\ Range(s) = {Head(s)} \union Range(Tail(s))
         /\ Head(s) \notin Range(Tail(s))
<1>1. /\ DOMAIN s = 1..Len(s) /\ Len(s) \in Nat
      /\ Tail(s) \in Seq(S) /\ Head(s) \in S
      /\ DOMAIN Tail(s) = 1..Len(s) - 1
      /\ \A i \in 1..Len(s) - 1 : Tail(s)[i] = s[i + 1]
  BY HeadTailProperties, LenProperties
<1>2. Len(s) # 0
  BY EmptySeq
<1>3. Range(s) = {Head(s)} \union Range(Tail(s)) /\ Head(s) = s[1]
  BY RangeHeadTail
<1>4. \A i \in 1..Len(s) - 1 : i + 1 \in 1..Len(s) /\ i + 1 # 1
  BY <1>1
<1>5. 1 \in 1..Len(s)
  BY <1>1, <1>2
<1>6. IsInjective(Tail(s))
  <2> SUFFICES ASSUME NEW i \in 1..Len(s) - 1, NEW j \in 1..Len(s) - 1,
                      s[i + 1] = s[j + 1]
               PROVE  i = j
    BY <1>1 DEF IsInjective
  <2>1. i + 1 = j + 1
    BY <1>1, <1>4 DEF IsInjective
  <2> QED
    BY <2>1
<1>7. Head(s) \notin Range(Tail(s))
  BY <1>1, <1>3, <1>4, <1>5 DEF IsInjective, Range
<1> QED
  BY <1>1, <1>3, <1>6, <1>7

\* What a call that fails does to the count of failures.
LEMMA CallFailsEffect ==
  ASSUME Structure, NEW store, CallFails(store)
  PROVE  failures' \in 0..MaxFailures
  BY LivenessAssumption DEF CallFails, Structure

\* Second times fewer are less.
LEMMA DivSecond ==
  ASSUME NEW t \in Nat
  PROVE  /\ t \div Second \in Nat
         /\ (t \div Second) * Second <= t /\ t < (t \div Second) * Second + Second
         /\ \A u \in Nat : t <= u => t \div Second <= u \div Second
<1>1. Second \in Nat \ {0}
  BY LivenessAssumption
<1>2. t \div Second \in Nat
  BY <1>1
<1>3. (t \div Second) * Second <= t /\ t < (t \div Second) * Second + Second
  BY <1>1
<1>4. ASSUME NEW u \in Nat, t <= u PROVE t \div Second <= u \div Second
  BY <1>1, <1>4
<1> QED
  BY <1>2, <1>3, <1>4


-----------------------------------------------------------------------------
(* Types *)

\* The initial state has the structure.
LEMMA StructureInit == Init => Structure
<1> SUFFICES ASSUME Init PROVE Structure
  OBVIOUS
<1>1. since \in 0..(Interval - 1)
  BY LivenessAssumption DEF Init
<1>2. rules \in Seq(Rules) /\ ids \in Seq(Devices) /\ batch \in Seq(Alert)
  BY DEF Init
<1>3. lastSeen \in [Devices -> Nat \union {NoTime}]
  BY DEF Init
<1>4. clock \in 0..MaxClock /\ start \in 0..MaxClock /\ failures \in 0..MaxFailures
  BY LivenessAssumption DEF Init
<1>5. tick \in BOOLEAN
  BY DEF Init
<1>6. /\ process = "up" /\ pc = "wait" /\ read = NoTime
      /\ alerts = {} /\ heard = {} /\ expected = {} /\ start <= clock
  BY DEF Init
<1> QED
  BY <1>1, <1>2, <1>3, <1>4, <1>5, <1>6 DEF Structure

\* Every step keeps it.
LEMMA StructureStep == Structure /\ [Next]_vars => Structure'
<1> SUFFICES ASSUME Structure, [Next]_vars PROVE Structure'
  OBVIOUS
<1> USE LivenessAssumption DEF ticker, loop, round
<1>1. rules # <<>> =>
        /\ Head(rules) \in Rules /\ Tail(rules) \in Seq(Rules)
        /\ Found[Head(rules)] \in Seq(Devices) /\ Gap[Head(rules)] \in Int
  BY HeadTailProperties DEF Structure
<1>2. ids # <<>> =>
        /\ Head(ids) \in Devices /\ Tail(ids) \in Seq(Devices)
        /\ Range(ids) = {Head(ids)} \union Range(Tail(ids))
  BY HeadTailProperties, RangeHeadTail DEF Structure
<1>3. CASE Pass
  <2>1. (since + 1) % Interval \in 0..(Interval - 1)
    BY DEF Structure
  <2>2. clock' \in 0..MaxClock /\ start <= clock'
    BY <1>3 DEF Pass, Structure
  <2> QED
    BY <1>3, <2>1, <2>2 DEF Pass, Structure
<1>4. ASSUME NEW d \in Devices, SetLastSeen(d) PROVE Structure'
  <2>1. PICK t \in {clock - 1, clock} \intersect Nat :
          /\ lastSeen' = [lastSeen EXCEPT ![d] = t \div Second]
          /\ heard'    = heard \union {[device |-> d, ts |-> t, saved |-> clock]}
    BY <1>4 DEF SetLastSeen
  <2>2. t \div Second \in Nat
    BY DivSecond
  <2>3. t \in 0..MaxClock
    BY DEF Structure
  <2> QED
    BY <1>4, <2>1, <2>2, <2>3 DEF SetLastSeen, Structure
<1>5. CASE Begin
  <2>1. batch' = <<>> /\ batch' \in Seq(Alert) /\ expected' \subseteq Pairs /\ start' = clock
    BY <1>5 DEF Begin
  <2>2. tick' \in BOOLEAN
    BY <1>5 DEF Begin
  <2>3. pc' = "rules"
        /\ UNCHANGED <<clock, since, process, rules, ids, read, lastSeen, alerts, heard, failures>>
    BY <1>5 DEF Begin
  <2> QED
    BY <2>1, <2>2, <2>3 DEF Structure
<1>6. CASE FindInactivityRules
  BY <1>6 DEF FindInactivityRules, Structure
<1>7. CASE RulesFail
  BY <1>7, CallFailsEffect DEF RulesFail, Structure
<1>8. CASE SkipRule
  BY <1>1, <1>8 DEF SkipRule, Structure
<1>9. CASE FindIDsByScope
  <2>1. \A d \in Range(Found[Head(rules)]) : <<Head(rules), d>> \in Pairs
    <3> SUFFICES ASSUME NEW i \in DOMAIN Found[Head(rules)]
                 PROVE  <<Head(rules), Found[Head(rules)][i]>> \in Pairs
      BY DEF Range
    <3>1. rules # <<>>
      BY <1>9 DEF FindIDsByScope
    <3>2. Found[Head(rules)][i] \in Devices
      BY <1>1, <3>1, LenProperties, ElementOfSeq
    <3> QED
      BY <1>1, <3>1, <3>2 DEF Pairs, Range
  <2> QED
    BY <1>1, <1>9, <2>1 DEF FindIDsByScope, Structure
<1>10. CASE DevicesFail
  BY <1>1, <1>10, CallFailsEffect DEF DevicesFail, AfterRule, Structure
<1>11. CASE RuleDone
  BY <1>1, <1>11 DEF RuleDone, Structure
<1>12. CASE GetLastSeen
  BY <1>2, <1>12 DEF GetLastSeen, Structure
<1>13. CASE LastSeenFails
  BY <1>2, <1>13, CallFailsEffect DEF LastSeenFails, Structure
<1>14. CASE Check
  <2>1. batch' \in Seq(Alert)
    <3> DEFINE b == [rule |-> Head(rules), device |-> Head(ids), ts |-> clock]
    <3>1. b \in Alert
      BY <1>1, <1>2, <1>14 DEF Check, Structure, Alert
    <3>2. batch' = Append(batch, b) \/ batch' = batch
      BY <1>14 DEF Check
    <3> HIDE DEF b
    <3>3. batch \in Seq(Alert)
      BY DEF Structure
    <3>4. Append(batch, b) \in Seq(Alert)
      BY <3>1, <3>3, AppendProperties
    <3> QED
      BY <3>2, <3>3, <3>4
  <2> QED
    BY <1>2, <1>14, <2>1 DEF Check, Structure
<1>15. CASE NothingToInsert
  BY <1>15 DEF NothingToInsert, Structure
<1>16. ASSUME NEW n \in 0..Len(batch)
       PROVE  Stored(n) \subseteq [rule : Rules, device : Devices, ts : Nat, round : Nat]
  <2>1. \A i \in 1..n : batch[i] \in Alert
    BY LenProperties, ElementOfSeq DEF Structure
  <2>2. start \in Nat
    BY DEF Structure
  <2>3. ASSUME NEW i \in 1..n
        PROVE  [rule |-> batch[i].rule, device |-> batch[i].device, ts |-> batch[i].ts,
                round |-> start] \in [rule : Rules, device : Devices, ts : Nat, round : Nat]
    BY <2>1, <2>2 DEF Alert
  <2> QED
    BY <2>3 DEF Stored
<1>17. CASE InsertMany
  <2>1. Len(batch) \in 0..Len(batch)
    BY LenProperties DEF Structure
  <2> QED
    BY <1>16, <1>17, <2>1 DEF InsertMany, Structure
<1>18. CASE InsertFails
  BY <1>16, <1>18, CallFailsEffect DEF InsertFails, Structure
<1>19. ASSUME Die, failures' \in 0..MaxFailures PROVE Structure'
  <2>1. /\ rules' \in Seq(Rules) /\ ids' \in Seq(Devices) /\ batch' \in Seq(Alert)
        /\ start' \in 0..MaxClock /\ start' <= clock'
    BY <1>19 DEF Die, Structure
  <2> QED
    BY <1>19, <2>1 DEF Die, Structure
<1>24. CASE Crash
  <2>1. failures' \in 0..MaxFailures
    BY <1>24 DEF Crash, Structure
  <2> QED
    BY <1>19, <1>24, <2>1 DEF Crash
<1>20. CASE Stop
  BY <1>20 DEF Stop, Structure
<1>21. CASE Exit
  BY <1>19, <1>21 DEF Exit, Structure
<1>22. CASE Restart
  BY <1>22 DEF Restart, Structure
<1>23. CASE UNCHANGED vars
  BY <1>23 DEF vars, Structure
<1> QED
  BY <1>3, <1>4, <1>5, <1>6, <1>7, <1>8, <1>9, <1>10, <1>11, <1>12, <1>13, <1>14, <1>15,
     <1>17, <1>18, <1>20, <1>21, <1>22, <1>23, <1>24 DEF Next, Round

-----------------------------------------------------------------------------
(* Loops *)

\* What a step of a round takes from what is left to look at: a rule without a gap, the
\* devices of a rule when they cannot be found, or one device.
LEMMA LeftEffect ==
  ASSUME Structure, OneEach, Round
  PROVE  /\ IsInjective(rules') /\ IsInjective(ids')
         /\ pc = "wait" \/ Left' \subseteq Left
         /\ pc # "wait" /\ pc' # "wait" =>
              \A p \in Left \ Left' :
                \/ Gap[p[1]] <= 0
                \/ DevicesFail /\ p[1] = Head(rules)
                \/ (LastSeenFails \/ Check) /\ p = <<Head(rules), Head(ids)>>
         /\ Check => <<Head(rules), Head(ids)>> \in Pairs \ Left'
<1> USE LivenessAssumption DEF loop
<1>1. rules # <<>> =>
        /\ Tail(rules) \in Seq(Rules) /\ IsInjective(Tail(rules)) /\ Head(rules) \in Rules
        /\ Range(rules) = {Head(rules)} \union Range(Tail(rules))
        /\ Head(rules) \notin Range(Tail(rules))
  BY TailOfInjective DEF Structure, OneEach
<1>2. ids # <<>> =>
        /\ Tail(ids) \in Seq(Devices) /\ IsInjective(Tail(ids)) /\ Head(ids) \in Devices
        /\ Range(ids) = {Head(ids)} \union Range(Tail(ids))
        /\ Head(ids) \notin Range(Tail(ids))
  BY TailOfInjective DEF Structure, OneEach
<1>3. IsInjective(rules) /\ IsInjective(ids)
  BY DEF OneEach
<1>4. \A p \in Pairs : p = <<p[1], p[2]>> /\ p[1] \in Rules /\ p[2] \in Range(Found[p[1]])
  BY DEF Pairs
<1>5. CASE Begin
  BY <1>3, <1>5 DEF Begin, Check
<1>6. CASE FindInactivityRules
  <2>1. Left = Pairs
    BY <1>6 DEF FindInactivityRules, Left
  <2>2. Left' = Pairs
    BY <1>4, <1>6 DEF FindInactivityRules, Left, Rules
  <2> QED
    BY <1>3, <1>6, <2>1, <2>2 DEF FindInactivityRules, Check
<1>7. CASE /\ pc = "rule" /\ pc' = "rule" /\ rules # <<>>
           /\ rules' = Tail(rules) /\ ids' = ids
           /\ Gap[Head(rules)] <= 0 \/ DevicesFail
  <2>1. Left = {p \in Pairs : p[1] \in Range(rules)}
    BY <1>7 DEF Left
  <2>2. Left' = {p \in Pairs : p[1] \in Range(Tail(rules))}
    BY <1>7 DEF Left
  <2>3. Left' \subseteq Left /\ \A p \in Left \ Left' : p[1] = Head(rules)
    BY <1>1, <1>7, <2>1, <2>2
  <2>4. IsInjective(rules') /\ IsInjective(ids')
    BY <1>1, <1>3, <1>7
  <2>5. ~Check
    BY <1>7 DEF Check
  <2> QED
    BY <1>7, <2>3, <2>4, <2>5
<1>8. CASE FindIDsByScope
  <2>1. IsInjective(ids') /\ rules # <<>>
    BY <1>1, <1>8 DEF FindIDsByScope
  <2>2. Left = {p \in Pairs : p[1] \in Range(rules)}
    BY <1>8 DEF FindIDsByScope, Left
  <2>3. Left' = {p \in Pairs : \/ p[1] \in Range(Tail(rules))
                               \/ p[1] = Head(rules) /\ p[2] \in Range(Found[Head(rules)])}
    BY <1>8 DEF FindIDsByScope, Left
  <2>4. Left' = Left
    BY <1>1, <1>4, <2>1, <2>2, <2>3
  <2> QED
    BY <1>3, <1>8, <2>1, <2>4 DEF FindIDsByScope, Check
<1>9. CASE RuleDone
  <2>1. rules # <<>> /\ Range(ids) = {}
    BY <1>9 DEF RuleDone, Structure, Range
  <2>2. Left' = Left
    BY <1>9, <2>1 DEF RuleDone, Left
  <2> QED
    BY <1>1, <1>3, <1>9, <2>1, <2>2 DEF RuleDone, Check
<1>10. CASE GetLastSeen
  <2>1. Left' = Left
    BY <1>10 DEF GetLastSeen, Left
  <2> QED
    BY <1>3, <1>10, <2>1 DEF GetLastSeen, Check
<1>11. CASE /\ LastSeenFails \/ Check
            /\ pc \in {"device", "check"} /\ pc' = "device" /\ ids # <<>>
            /\ ids' = Tail(ids) /\ rules' = rules
  <2>1. Left = {p \in Pairs : \/ p[1] \in Range(Tail(rules))
                              \/ p[1] = Head(rules) /\ p[2] \in Range(ids)}
    BY <1>11 DEF Left
  <2>2. Left' = {p \in Pairs : \/ p[1] \in Range(Tail(rules))
                               \/ p[1] = Head(rules) /\ p[2] \in Range(Tail(ids))}
    BY <1>11 DEF Left
  <2>3. \A p \in Left \ Left' : p = <<Head(rules), Head(ids)>>
    BY <1>2, <1>4, <1>11, <2>1, <2>2
  <2>4. <<Head(rules), Head(ids)>> \in Pairs /\ rules # <<>>
    BY <1>2, <1>11 DEF Structure
  <2>5. <<Head(rules), Head(ids)>> \notin Left'
    BY <1>1, <1>2, <1>11, <2>2, <2>4
  <2> QED
    BY <1>2, <1>3, <1>11, <2>1, <2>2, <2>3, <2>4, <2>5
<1>12. CASE pc # "wait" /\ pc # "check" /\ pc' = "wait" /\ rules' = rules /\ ids' = ids
  BY <1>3, <1>12 DEF Left, Check
<1> QED
  BY <1>5, <1>6, <1>7, <1>8, <1>9, <1>10, <1>11, <1>12, <1>1
  DEF Round, RulesFail, SkipRule, DevicesFail, AfterRule, LastSeenFails, Check,
      NothingToInsert, InsertMany, InsertFails, Structure

\* What the other steps do to a round: nothing, or they end it with the process.
LEMMA AroundEffect ==
  ASSUME [Next]_vars, ~Round
  PROVE  \/ UNCHANGED <<pc, rules, ids, batch, read, alerts, start>>
         \/ /\ Die /\ process' = "down" /\ pc' = "wait"
            /\ rules' = <<>> /\ ids' = <<>> /\ batch' = <<>> /\ UNCHANGED alerts
  BY DEF Next, Pass, SetLastSeen, Crash, Stop, Exit, Restart, Die, vars, loop, round

\* What a step of a round does to the batch: a new round has an empty one, and one
\* step adds an alert to it.
LEMMA BatchEffect ==
  ASSUME Structure, Round
  PROVE  \/ Begin /\ batch' = <<>>
         \/ batch' = batch
         \/ /\ Check /\ Overdue(Head(rules), read, clock)
            /\ LET b == [rule |-> Head(rules), device |-> Head(ids), ts |-> clock]
               IN  /\ b \in Alert /\ batch' = Append(batch, b)
                   /\ DOMAIN batch = 1..Len(batch) /\ Len(batch) \in Nat
                   /\ DOMAIN batch' = 1..Len(batch) + 1
                   /\ \A i \in 1..Len(batch) : batch'[i] = batch[i]
                   /\ batch'[Len(batch) + 1] = b
<1>1. CASE Check /\ Overdue(Head(rules), read, clock)
  <2> DEFINE b == [rule |-> Head(rules), device |-> Head(ids), ts |-> clock]
  <2>1. b \in Alert
    <3>1. rules # <<>> /\ ids # <<>> /\ clock \in Nat
      BY <1>1, LivenessAssumption DEF Check, Structure
    <3>2. Head(rules) \in Rules /\ Head(ids) \in Devices
      BY <3>1, HeadTailProperties DEF Structure
    <3> QED
      BY <3>1, <3>2 DEF Alert
  <2>2. batch' = Append(batch, b)
    BY <1>1 DEF Check
  <2>3. batch \in Seq(Alert)
    BY DEF Structure
  <2> HIDE DEF b
  <2>4. /\ DOMAIN batch = 1..Len(batch) /\ Len(batch) \in Nat
        /\ DOMAIN batch' = 1..Len(batch) + 1
        /\ \A i \in 1..Len(batch) : batch'[i] = batch[i]
        /\ batch'[Len(batch) + 1] = b
    BY <2>1, <2>2, <2>3, AppendProperties, LenProperties
  <2> QED
    BY <1>1, <2>1, <2>2, <2>4 DEF b
<1>2. CASE Check /\ ~Overdue(Head(rules), read, clock)
  BY <1>2 DEF Check
<1>3. CASE ~Check
  BY <1>3
  DEF Round, Begin, FindInactivityRules, RulesFail, SkipRule, FindIDsByScope, DevicesFail,
      RuleDone, GetLastSeen, LastSeenFails, NothingToInsert, InsertMany, InsertFails, loop
<1> QED
  BY <1>1, <1>2, <1>3

\* A round looks at a device once for a rule.
LEMMA OneEachStep ==
  ASSUME Structure, OneEach, [Next]_vars
  PROVE  OneEach'
<1>1. CASE Round
  <2>1. /\ IsInjective(rules') /\ IsInjective(ids')
        /\ pc = "wait" \/ Left' \subseteq Left
        /\ Check => <<Head(rules), Head(ids)>> \in Pairs \ Left'
    BY <1>1, LeftEffect
  <2>2. CASE batch' = <<>>
    <3>1. DOMAIN batch' = {}
      BY <2>2
    <3> QED
      BY <2>1, <3>1 DEF OneEach
  <2>3. pc = "wait" => Begin
    BY <1>1 DEF Round, FindInactivityRules, RulesFail, SkipRule, FindIDsByScope,
       DevicesFail, RuleDone, GetLastSeen, LastSeenFails, Check, NothingToInsert,
       InsertMany, InsertFails
  <2>4. CASE batch' = batch /\ ~Begin
    BY <2>1, <2>3, <2>4 DEF OneEach
  <2>5. ASSUME Check, NEW b \in Alert, b.rule = Head(rules), b.device = Head(ids),
               DOMAIN batch = 1..Len(batch), Len(batch) \in Nat,
               DOMAIN batch' = 1..Len(batch) + 1,
               \A i \in 1..Len(batch) : batch'[i] = batch[i],
               batch'[Len(batch) + 1] = b
        PROVE  OneEach'
    <3>1. <<Head(rules), Head(ids)>> \in Left
      <4>1. pc = "check" /\ ids # <<>>
        BY <2>5 DEF Check, Structure
      <4>2. Head(ids) \in Range(ids)
        BY <4>1, RangeHeadTail DEF Structure
      <4> QED
        BY <4>1, <4>2 DEF Left, Structure
    <3>2. pc # "wait"
      BY <2>5 DEF Check
    <3>3. \A i \in DOMAIN batch' : <<batch'[i].rule, batch'[i].device>> \in Pairs \ Left'
      <4> SUFFICES ASSUME NEW i \in DOMAIN batch'
                   PROVE  <<batch'[i].rule, batch'[i].device>> \in Pairs \ Left'
        OBVIOUS
      <4>1. CASE i = Len(batch) + 1
        BY <2>1, <2>5, <4>1
      <4>2. CASE i \in 1..Len(batch)
        BY <2>1, <2>5, <3>2, <4>2 DEF OneEach
      <4> QED
        BY <2>5, <4>1, <4>2
    <3>4. \A i \in 1..Len(batch) : ~(batch[i].rule = b.rule /\ batch[i].device = b.device)
      BY <2>5, <3>1 DEF OneEach
    <3>5. \A i, j \in DOMAIN batch' :
            batch'[i].rule = batch'[j].rule /\ batch'[i].device = batch'[j].device => i = j
      BY <2>5, <3>4 DEF OneEach
    <3> QED
      BY <2>1, <3>3, <3>5 DEF OneEach
  <2> QED
    BY <1>1, <2>2, <2>4, <2>5, BatchEffect DEF Begin
<1>2. CASE ~Round /\ UNCHANGED <<pc, rules, ids, batch>>
  BY <1>2 DEF OneEach, Left
<1>3. CASE rules' = <<>> /\ ids' = <<>> /\ batch' = <<>>
  <2>1. DOMAIN rules' = {} /\ DOMAIN ids' = {} /\ DOMAIN batch' = {}
    BY <1>3
  <2> QED
    BY <2>1 DEF OneEach, IsInjective
<1> QED
  BY <1>1, <1>2, <1>3, AroundEffect

\* There are finitely many rules and devices to look at.
LEMMA PairsFinite == IsFiniteSet(Pairs)
<1> USE LivenessAssumption
<1>1. ASSUME NEW S, NEW s \in Seq(S) PROVE IsFiniteSet(Range(s))
  <2>1. IsFiniteSet(DOMAIN s)
    BY <1>1, LenProperties, FS_Interval
  <2>2. s \in Surjection(DOMAIN s, Range(s))
    <3>1. s \in [DOMAIN s -> Range(s)]
      BY <1>1, LenProperties DEF Range
    <3> QED
      BY <3>1 DEF Surjection, Range
  <2> QED
    BY <2>1, <2>2, FS_Surjection
<1>2. IsFiniteSet(Rules)
  BY <1>1 DEF Rules
<1> DEFINE Scopes == {Range(Found[r]) : r \in Rules}
           f == [r \in Rules |-> Range(Found[r])]
<1>3. IsFiniteSet(Scopes)
  <2>1. f \in Surjection(Rules, Scopes)
    BY DEF Surjection
  <2> QED
    BY <1>2, <2>1, FS_Surjection
<1>4. \A T \in Scopes : IsFiniteSet(T)
  BY <1>1
<1>5. IsFiniteSet(UNION Scopes)
  BY <1>3, <1>4, FS_UNION
<1>6. Pairs \in SUBSET (Rules \X UNION Scopes)
  BY DEF Pairs
<1> QED
  BY <1>2, <1>5, <1>6, FS_Product, FS_Subset

\* The type invariant holds: in particular a round raises one alert at most for a rule
\* and a device.
THEOREM TypeCorrect == Spec => []TypeOK
<1>1. Init => OneEach
  <2> SUFFICES ASSUME Init PROVE OneEach
    OBVIOUS
  <2>1. DOMAIN rules = {} /\ DOMAIN ids = {} /\ DOMAIN batch = {}
    BY DEF Init
  <2> QED
    BY <2>1 DEF OneEach, IsInjective
<1>2. Structure /\ OneEach => TypeOK
  <2> SUFFICES ASSUME Structure, OneEach PROVE TypeOK
    OBVIOUS
  <2>1. Len(batch) \in Nat /\ DOMAIN batch = 1..Len(batch)
    BY LenProperties DEF Structure
  <2> DEFINE f == [i \in 1..Len(batch) |-> <<batch[i].rule, batch[i].device>>]
  <2>2. f \in [1..Len(batch) -> Pairs]
    BY <2>1 DEF OneEach
  <2>3. \A i, j \in 1..Len(batch) : f[i] = f[j] => i = j
    BY <2>1 DEF OneEach
  <2>4. f \in Injection(1..Len(batch), Pairs)
    BY <2>2, <2>3 DEF Injection, IsInjective
  <2>5. Cardinality(1..Len(batch)) <= Cardinality(Pairs)
    BY <2>4, PairsFinite, FS_Injection
  <2>6. Cardinality(1..Len(batch)) = Len(batch)
    <3>1. Cardinality(1..Len(batch)) = IF 1 > Len(batch) THEN 0 ELSE Len(batch) - 1 + 1
      BY <2>1, FS_Interval
    <3> QED
      BY <2>1, <3>1
  <2> QED
    BY <2>5, <2>6 DEF Structure, TypeOK, Alert
<1> QED
  BY <1>1, <1>2, StructureInit, StructureStep, OneEachStep, PTL DEF Spec

-----------------------------------------------------------------------------
(* Alerts *)

\* Time goes on, and what is heard from now on was not heard before the round.
LEMMA HeardGrows ==
  ASSUME Structure, [Next]_vars
  PROVE  /\ \A h \in heard' : h \in heard \/ h.saved = clock
         /\ clock \in Nat /\ clock' \in Nat /\ clock <= clock'
         /\ start \in Nat /\ start <= clock
<1>1. clock \in Nat /\ start \in Nat /\ start <= clock
  BY LivenessAssumption DEF Structure
<1>2. CASE Pass
  <2>1. clock' \in Nat /\ clock <= clock' /\ heard' = heard
    BY <1>1, <1>2, LivenessAssumption DEF Pass
  <2> QED
    BY <1>1, <2>1
<1>3. ASSUME NEW d \in Devices, SetLastSeen(d)
      PROVE  clock' = clock /\ \A h \in heard' : h \in heard \/ h.saved = clock
  BY <1>3 DEF SetLastSeen, ticker
<1>4. CASE UNCHANGED <<clock, heard>>
  BY <1>1, <1>4
<1> QED
  BY <1>1, <1>2, <1>3, <1>4
  DEF Next, Round, Begin, FindInactivityRules, RulesFail, SkipRule, FindIDsByScope,
      DevicesFail, RuleDone, GetLastSeen, LastSeenFails, Check, NothingToInsert,
      InsertMany, InsertFails, Crash, Stop, Exit, Restart, Die, vars, ticker

\* A device that is overdue by its last-seen time has been silent for the gap, less
\* what the time was cut by.
LEMMA OverdueJustifies ==
  ASSUME Structure, NEW r \in Rules, Gap[r] > 0, NEW d, NEW seen \in Nat \union {NoTime},
         Overdue(r, seen, clock),
         \A h \in Reports(d) : h.saved < start => h.ts \div Second <= seen
  PROVE  Justified(r, d, clock, start)
<1>1. seen \in Nat /\ clock - seen * Second >= Gap[r] * Second
  BY DEF Overdue
<1>2. Second \in Nat \ {0} /\ Gap[r] \in Int /\ clock \in Nat /\ start \in Nat /\ start <= clock
  BY LivenessAssumption DEF Structure
<1>3. ASSUME NEW h \in Reports(d), h.saved < start
      PROVE  clock - h.ts > (Gap[r] - 1) * Second
  <2>1. h.ts \in Nat
    BY <1>3, LivenessAssumption DEF Structure, Reports
  <2> DEFINE q == h.ts \div Second
  <2>2. q \in Nat /\ h.ts < q * Second + Second
    BY <2>1, DivSecond
  <2>3. q <= seen
    BY <1>3
  <2> HIDE DEF q
  <2>4. q * Second <= seen * Second
    BY <1>1, <1>2, <2>2, <2>3
  <2>5. (Gap[r] - 1) * Second = Gap[r] * Second - Second
    BY <1>2
  <2>6. /\ q * Second \in Int /\ seen * Second \in Int /\ Gap[r] * Second \in Int
        /\ Second \in Int
    BY <1>1, <1>2, <2>2
  <2> QED
    BY <1>1, <1>2, <2>1, <2>2, <2>4, <2>5, <2>6
<1> QED
  BY <1>2, <1>3 DEF Justified

\* Every step keeps the evidence.
LEMMA EvidenceStep ==
  ASSUME Structure, Structure', Evidence, [Next]_vars
  PROVE  Evidence'
<1> USE LivenessAssumption DEF ticker, loop, round
<1>1. /\ \A h \in heard' : h \in heard \/ h.saved = clock
      /\ clock \in Nat /\ clock' \in Nat /\ clock <= clock'
      /\ start \in Nat /\ start <= clock
  BY HeardGrows
\* The last-seen times.
<1>3. \A h \in heard' : lastSeen'[h.device] # NoTime /\ h.ts \div Second <= lastSeen'[h.device]
  <2>1. CASE UNCHANGED <<lastSeen, heard>>
    BY <2>1 DEF Evidence
  <2>2. ASSUME NEW d \in Devices, SetLastSeen(d)
        PROVE  \A h \in heard' : /\ lastSeen'[h.device] # NoTime
                                 /\ h.ts \div Second <= lastSeen'[h.device]
    <3>1. PICK t \in Nat :
            /\ \A h \in Reports(d) : h.ts < t
            /\ lastSeen' = [lastSeen EXCEPT ![d] = t \div Second]
            /\ heard'    = heard \union {[device |-> d, ts |-> t, saved |-> clock]}
      BY <2>2 DEF SetLastSeen
    <3>2. t \div Second \in Nat /\ lastSeen'[d] = t \div Second
      BY <3>1, DivSecond DEF Structure
    <3>3. ASSUME NEW h \in Reports(d) PROVE h.ts \div Second <= t \div Second
      <4>1. h.ts \in Nat
        BY <3>3 DEF Structure, Reports
      <4>2. h.ts < t
        BY <3>1, <3>3
      <4>3. h.ts <= t
        BY <4>1, <4>2
      <4> QED
        BY <4>1, <4>3, DivSecond
    <3>4. NoTime \notin Nat
      OBVIOUS
    <3>5. ASSUME NEW h \in heard'
          PROVE  lastSeen'[h.device] # NoTime /\ h.ts \div Second <= lastSeen'[h.device]
      <4>1. CASE h = [device |-> d, ts |-> t, saved |-> clock]
        <5>1. h.device = d /\ h.ts = t
          BY <4>1
        <5> QED
          BY <3>2, <3>4, <5>1
      <4>2. CASE h \in heard /\ h.device = d
        <5>1. h.ts \div Second <= t \div Second
          BY <3>3, <4>2 DEF Reports
        <5> QED
          BY <3>2, <3>4, <4>2, <5>1
      <4>3. CASE h \in heard /\ h.device # d
        <5>1. lastSeen'[h.device] = lastSeen[h.device]
          BY <3>1, <4>3 DEF Structure
        <5> QED
          BY <4>3, <5>1 DEF Evidence
      <4> QED
        BY <3>1, <4>1, <4>2, <4>3
    <3> QED
      BY <3>5
  <2> QED
    BY <2>1, <2>2
    DEF Next, Round, Pass, Begin, FindInactivityRules, RulesFail, SkipRule, FindIDsByScope,
        DevicesFail, RuleDone, GetLastSeen, LastSeenFails, Check, NothingToInsert,
        InsertMany, InsertFails, Crash, Stop, Exit, Restart, Die, vars
\* The one that was read.
<1>4. pc' = "check" /\ read' # NoTime =>
        \A h \in Reports(Head(ids))' : h.saved < start' => h.ts \div Second <= read'
  <2>1. CASE GetLastSeen
    BY <2>1 DEF GetLastSeen, Evidence, Reports
  <2>2. CASE UNCHANGED <<pc, read, ids, start>>
    BY <1>1, <2>2 DEF Evidence, Reports
  <2>3. CASE pc' # "check"
    BY <2>3
  <2> QED
    BY <2>1, <2>2, <2>3
    DEF Next, Round, Pass, SetLastSeen, Begin, FindInactivityRules, RulesFail, SkipRule,
        FindIDsByScope, DevicesFail, RuleDone, LastSeenFails, Check, NothingToInsert,
        InsertMany, InsertFails, Crash, Stop, Exit, Restart, Die, vars
\* The batch.
<1>5. \A i \in DOMAIN batch' :
        Justified(batch[i].rule, batch[i].device, batch[i].ts, start)'
  <2>1. CASE batch' = <<>>
    BY <2>1
  <2>2. CASE UNCHANGED <<batch, start>>
    BY <1>1, <2>2 DEF Evidence, Justified, Reports
  <2>3. CASE Round /\ ~Begin
    <3>1. start' = start
      BY <2>3 DEF Round, FindInactivityRules, RulesFail, SkipRule, FindIDsByScope,
         DevicesFail, RuleDone, GetLastSeen, LastSeenFails, Check, NothingToInsert,
         InsertMany, InsertFails
    <3>2. CASE batch' = batch
      BY <2>2, <3>1, <3>2
    <3>3. CASE Check /\ Overdue(Head(rules), read, clock)
      <4>1. /\ pc = "check" /\ heard' = heard
            /\ rules # <<>> /\ Gap[Head(rules)] > 0 /\ read \in Nat \union {NoTime}
        BY <3>3 DEF Check, Structure
      <4>2. Head(rules) \in Rules
        BY <4>1, HeadTailProperties DEF Structure
      <4>3. Justified(Head(rules), Head(ids), clock, start)
        <5>1. read # NoTime
          BY <3>3 DEF Overdue
        <5> QED
          BY <3>3, <4>1, <4>2, <5>1, OverdueJustifies DEF Evidence
      <4>4. CASE batch' = batch
        BY <3>2, <4>4
      <4>5. ASSUME NEW b, b = [rule |-> Head(rules), device |-> Head(ids), ts |-> clock],
                   DOMAIN batch = 1..Len(batch), Len(batch) \in Nat,
                   DOMAIN batch' = 1..Len(batch) + 1,
                   \A i \in 1..Len(batch) : batch'[i] = batch[i],
                   batch'[Len(batch) + 1] = b,
                   NEW i \in DOMAIN batch'
            PROVE  Justified(batch[i].rule, batch[i].device, batch[i].ts, start)'
        <5>1. CASE i = Len(batch) + 1
          BY <3>1, <4>1, <4>3, <4>5, <5>1 DEF Justified, Reports
        <5>2. CASE i \in 1..Len(batch)
          BY <3>1, <4>1, <4>5, <5>2 DEF Evidence, Justified, Reports
        <5> QED
          BY <4>5, <5>1, <5>2
      <4> QED
        BY <2>3, <4>4, <4>5, BatchEffect
    <3> QED
      BY <2>3, <3>2, <3>3, BatchEffect
  <2> QED
    BY <2>1, <2>2, <2>3, AroundEffect DEF Begin
\* The alerts.
<1>6. \A a \in alerts' : a.round <= clock' /\ Justified(a.rule, a.device, a.ts, a.round)'
  <2>1. CASE UNCHANGED alerts
    <3> SUFFICES ASSUME NEW a \in alerts
                 PROVE  a.round <= clock' /\ Justified(a.rule, a.device, a.ts, a.round)'
      BY <2>1
    <3>1. a.round \in Nat /\ a.round <= clock
      BY DEF Evidence, Structure
    <3> QED
      BY <1>1, <3>1 DEF Evidence, Justified, Reports
  <2>2. ASSUME NEW n \in 0..Len(batch), alerts' = alerts \union Stored(n),
               UNCHANGED <<clock, heard>>
        PROVE  \A a \in alerts' : /\ a.round <= clock'
                                  /\ Justified(a.rule, a.device, a.ts, a.round)'
    <3>1. ASSUME NEW a \in Stored(n)
          PROVE  a.round <= clock /\ Justified(a.rule, a.device, a.ts, a.round)
      <4>1. PICK i \in 1..n :
              a = [rule |-> batch[i].rule, device |-> batch[i].device,
                   ts |-> batch[i].ts, round |-> start]
        BY <3>1 DEF Stored
      <4>2. i \in DOMAIN batch
        BY LenProperties DEF Structure
      <4>3. Justified(batch[i].rule, batch[i].device, batch[i].ts, start)
        BY <4>2 DEF Evidence
      <4> QED
        BY <1>1, <4>1, <4>3
    <3> QED
      BY <2>2, <3>1 DEF Evidence, Justified, Reports
  <2>3. CASE InsertMany
    <3>1. Len(batch) \in 0..Len(batch)
      BY LenProperties DEF Structure
    <3> QED
      BY <2>2, <2>3, <3>1 DEF InsertMany
  <2>4. CASE InsertFails
    BY <2>2, <2>4 DEF InsertFails
  <2> QED
    BY <2>1, <2>3, <2>4
    DEF Next, Round, Pass, SetLastSeen, Begin, FindInactivityRules, RulesFail, SkipRule,
        FindIDsByScope, DevicesFail, RuleDone, GetLastSeen, LastSeenFails, Check,
        NothingToInsert, Crash, Stop, Exit, Restart, Die, vars
<1> QED
  BY <1>3, <1>4, <1>5, <1>6 DEF Evidence, Justified, Reports

\* An alert is raised by the round that stores it, for a rule with a gap, and the
\* device was silent for more than the gap less one second before it, but for
\* reports that were saved when the round was already going on.
THEOREM AlertsAreJustified == Spec => []AlertJustified
<1>1. Init => Evidence
  <2> SUFFICES ASSUME Init PROVE Evidence
    OBVIOUS
  <2>1. DOMAIN batch = {} /\ heard = {} /\ alerts = {} /\ pc = "wait"
    BY DEF Init
  <2> QED
    BY <2>1 DEF Evidence
<1>2. Evidence => AlertJustified
  BY DEF Evidence, AlertJustified, Justified
<1> QED
  BY <1>1, <1>2, StructureInit, StructureStep, EvidenceStep, PTL DEF Spec

-----------------------------------------------------------------------------
(* Coverage *)

\* A silence that goes on is silence still.
LEMMA SilentStays ==
  ASSUME Structure, Structure', NEW p \in Pairs, Silent(p[1], p[2]),
         clock <= clock', lastSeen'[p[2]] = lastSeen[p[2]]
  PROVE  Silent(p[1], p[2])'
<1>1. /\ Gap[p[1]] > 0 /\ lastSeen[p[2]] # NoTime
      /\ clock - lastSeen[p[2]] * Second >= Gap[p[1]] * Second
  BY DEF Silent, Overdue
<1>2. clock \in Nat /\ clock' \in Nat /\ p[1] \in Rules /\ p[2] \in Devices
  BY LivenessAssumption DEF Structure, Pairs
<1>3. lastSeen[p[2]] \in Nat /\ Gap[p[1]] \in Int /\ Second \in Nat
  BY <1>1, <1>2, LivenessAssumption DEF Structure
<1>4. lastSeen[p[2]] * Second \in Int /\ Gap[p[1]] * Second \in Int
  BY <1>3
<1>5. clock' - lastSeen[p[2]] * Second >= Gap[p[1]] * Second
  BY <1>1, <1>2, <1>4
<1> QED
  BY <1>1, <1>5 DEF Silent, Overdue

\* Who reports is not expected any more, and only a new round expects more.
LEMMA ExpectedShrinks ==
  ASSUME Structure, [Next]_vars, ~Begin
  PROVE  /\ expected' \subseteq expected
         /\ \A p \in expected' : lastSeen'[p[2]] = lastSeen[p[2]]
<1>1. ASSUME NEW d \in Devices, SetLastSeen(d)
      PROVE  /\ expected' \subseteq expected
             /\ \A p \in expected' : lastSeen'[p[2]] = lastSeen[p[2]]
  <2>1. expected' = {p \in expected : p[2] # d} /\ \A p \in expected : p[2] \in Devices
    BY <1>1 DEF SetLastSeen, Structure, Pairs
  <2>2. \A e \in Devices : e # d => lastSeen'[e] = lastSeen[e]
    BY <1>1 DEF SetLastSeen, Structure
  <2> QED
    BY <2>1, <2>2
<1> QED
  BY <1>1
  DEF Next, Round, Pass, FindInactivityRules, RulesFail, SkipRule, FindIDsByScope,
      DevicesFail, RuleDone, GetLastSeen, LastSeenFails, Check, NothingToInsert,
      InsertMany, InsertFails, Crash, Stop, Exit, Restart, Die, vars, round

\* Every step keeps what is expected in sight.
LEMMA CoveredStep ==
  ASSUME Structure, Structure', OneEach, Covered, [Next]_vars
  PROVE  Covered'
<1>1. CASE Begin
  <2>1. /\ pc' = "rules" /\ UNCHANGED <<clock, lastSeen>>
        /\ \A p \in expected' : p \in Pairs /\ Silent(p[1], p[2])
    BY <1>1 DEF Begin, ticker
  <2>2. \A p \in expected' : Silent(p[1], p[2])'
    BY <2>1 DEF Silent
  <2> QED
    BY <2>1, <2>2 DEF Covered, Left
<1>2. CASE ~Begin
  <2> SUFFICES ASSUME NEW p \in expected'
               PROVE  /\ Silent(p[1], p[2])'
                      /\ pc' = "check" /\ p = <<Head(rules'), Head(ids')>> =>
                           read' = lastSeen'[p[2]]
                      /\ pc' # "wait" =>
                           \/ p \in Left'
                           \/ \E i \in DOMAIN batch' :
                                batch'[i].rule = p[1] /\ batch'[i].device = p[2]
    BY DEF Covered
  <2>1. p \in expected /\ p \in Pairs /\ lastSeen'[p[2]] = lastSeen[p[2]]
    BY <1>2, ExpectedShrinks DEF Structure
  <2>2. Silent(p[1], p[2]) /\ Gap[p[1]] > 0
    BY <2>1 DEF Covered, Silent
  <2>3. Silent(p[1], p[2])'
    BY <2>1, <2>2, HeardGrows, SilentStays
  <2>4. pc' = "check" /\ p = <<Head(rules'), Head(ids')>> => read' = lastSeen'[p[2]]
    <3>1. CASE GetLastSeen
      BY <2>1, <3>1 DEF GetLastSeen
    <3>2. CASE UNCHANGED <<pc, rules, ids, read>>
      BY <2>1, <3>2 DEF Covered
    <3>3. CASE Round /\ ~GetLastSeen /\ ~Begin
      BY <3>3
      DEF Round, FindInactivityRules, RulesFail, SkipRule, FindIDsByScope, DevicesFail,
          RuleDone, LastSeenFails, Check, NothingToInsert, InsertMany, InsertFails
    <3> QED
      BY <1>2, <3>1, <3>2, <3>3, AroundEffect
  <2>5. ASSUME pc' # "wait"
        PROVE  \/ p \in Left'
               \/ \E i \in DOMAIN batch' : batch'[i].rule = p[1] /\ batch'[i].device = p[2]
    <3>1. CASE ~Round
      BY <2>1, <2>5, <3>1, AroundEffect DEF Covered, Left
    <3>2. CASE Round
      <4>1. pc # "wait"
        BY <1>2, <3>2
        DEF Round, FindInactivityRules, RulesFail, SkipRule, FindIDsByScope, DevicesFail,
            RuleDone, GetLastSeen, LastSeenFails, Check, NothingToInsert, InsertMany,
            InsertFails
      <4>2. CASE \E i \in DOMAIN batch : batch[i].rule = p[1] /\ batch[i].device = p[2]
        <5>1. CASE batch' = batch
          BY <4>2, <5>1
        <5>2. ASSUME DOMAIN batch = 1..Len(batch), Len(batch) \in Nat,
                     DOMAIN batch' = 1..Len(batch) + 1,
                     \A i \in 1..Len(batch) : batch'[i] = batch[i]
              PROVE  \E i \in DOMAIN batch' : batch'[i].rule = p[1] /\ batch'[i].device = p[2]
          BY <4>2, <5>2
        <5> QED
          BY <1>2, <3>2, <5>1, <5>2, BatchEffect
      <4>3. CASE p \in Left \ Left'
        <5>1. \/ DevicesFail /\ p[1] = Head(rules)
              \/ (LastSeenFails \/ Check) /\ p = <<Head(rules), Head(ids)>>
          <6>1. Gap[p[1]] \in Int
            BY <2>1, LivenessAssumption DEF Pairs
          <6> QED
            BY <2>2, <2>5, <3>2, <4>1, <4>3, <6>1, LeftEffect
        <5>2. ~(DevicesFail /\ p[1] = Head(rules))
          BY DEF DevicesFail
        <5>3. ~(LastSeenFails /\ p = <<Head(rules), Head(ids)>>)
          BY DEF LastSeenFails
        <5>4. Check /\ p = <<Head(rules), Head(ids)>>
          BY <5>1, <5>2, <5>3
        <5>5. read = lastSeen[p[2]] /\ p[1] = Head(rules) /\ p[2] = Head(ids)
          BY <2>1, <5>4 DEF Check, Covered
        <5>6. Overdue(Head(rules), read, clock)
          BY <2>2, <5>5 DEF Silent
        <5>7. batch \in Seq(Alert) /\ batch' \in Seq(Alert)
          BY DEF Structure
        <5>8. batch' = Append(batch, [rule |-> Head(rules), device |-> Head(ids), ts |-> clock])
          BY <5>4, <5>6 DEF Check
        <5>9. /\ Len(batch) + 1 \in DOMAIN batch'
              /\ batch'[Len(batch) + 1]
                   = [rule |-> Head(rules), device |-> Head(ids), ts |-> clock]
          <6>1. batch' # batch
            <7>1. Len(batch') = Len(batch) + 1 /\ Len(batch) \in Nat
              BY <5>7, <5>8, LenProperties
            <7> QED
              BY <7>1
          <6> QED
            BY <1>2, <3>2, <6>1, BatchEffect
        <5> QED
          BY <5>5, <5>9
      <4> QED
        BY <2>1, <4>1, <4>2, <4>3 DEF Covered
    <3> QED
      BY <3>1, <3>2
  <2> QED
    BY <2>3, <2>4, <2>5
<1> QED
  BY <1>1, <1>2

\* One failed call costs its own rule or device at most: a round that ends without
\* dying stores an alert for every other rule and device that were overdue
\* when it began and have not reported since.
THEOREM RoundsCover == Spec => RoundCovers
<1> DEFINE Ends ==
      pc # "wait" /\ pc' = "wait" /\ process' # "down" =>
        \A p \in expected' :
          \E a \in alerts' : a.rule = p[1] /\ a.device = p[2] /\ a.round = start
<1>1. Init => OneEach /\ Covered
  <2> SUFFICES ASSUME Init PROVE OneEach /\ Covered
    OBVIOUS
  <2>1. DOMAIN rules = {} /\ DOMAIN ids = {} /\ DOMAIN batch = {} /\ expected = {}
    BY DEF Init
  <2> QED
    BY <2>1 DEF OneEach, IsInjective, Covered
<1>2. Structure /\ Covered /\ [Next]_vars => [Ends]_vars
  <2> SUFFICES ASSUME Structure, Covered, [Next]_vars, pc # "wait", pc' = "wait",
                      process' # "down", NEW p \in expected'
               PROVE  \E a \in alerts' :
                        a.rule = p[1] /\ a.device = p[2] /\ a.round = start
    OBVIOUS
  <2>1. Round
    BY AroundEffect
  <2>2. ~RulesFail /\ ~InsertFails
    BY DEF RulesFail, InsertFails
  <2>3. (NothingToInsert \/ InsertMany) /\ pc = "rule" /\ rules = <<>>
    BY <2>1, <2>2
    DEF Round, Begin, FindInactivityRules, SkipRule, FindIDsByScope, DevicesFail, RuleDone,
        GetLastSeen, LastSeenFails, Check, NothingToInsert, InsertMany
  <2>4. p \in expected
    BY <2>3 DEF NothingToInsert, InsertMany, round
  <2>5. Left = {}
    BY <2>3 DEF Left, Range
  <2>6. PICK i \in DOMAIN batch : batch[i].rule = p[1] /\ batch[i].device = p[2]
    BY <2>4, <2>5 DEF Covered
  <2>7. InsertMany /\ DOMAIN batch = 1..Len(batch)
    BY <2>3, <2>6, LenProperties DEF NothingToInsert, Structure
  <2> DEFINE a == [rule |-> batch[i].rule, device |-> batch[i].device,
                   ts |-> batch[i].ts, round |-> start]
  <2>8. a \in alerts'
    BY <2>7 DEF InsertMany, Stored
  <2> QED
    BY <2>6, <2>8
<1>3. [][Ends]_vars => RoundCovers
  BY DEF RoundCovers
<1>4. Structure /\ Structure' /\ OneEach /\ Covered /\ [Next]_vars => Covered'
  BY CoveredStep
<1> QED
  BY <1>1, <1>2, <1>3, <1>4, StructureInit, StructureStep, OneEachStep, PTL DEF Spec
=============================================================================
