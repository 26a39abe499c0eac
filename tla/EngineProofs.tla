---------------------------- MODULE EngineProofs ----------------------------
(***************************************************************************)
(* Theorems about Engine, for any messages, rules, stores that fail and    *)
(* number of attempts.                                                     *)
(***************************************************************************)
EXTENDS Engine, SequenceTheorems, FiniteSetTheorems, TLAPS

Measured == UNION {DOMAIN Value[m] : m \in Messages}

Alert == [rule : Rules, metric : Measured, msg : Messages, attempt : 0..MaxAttempts]

Counts == [msg : Messages, matched : BOOLEAN]

\* A message is in one place, what is left of the one being handled are measurements
\* of it and enabled rules for the measurement at hand, and the alerts in hand are of
\* this attempt.
Structure ==
  /\ TypeOK
  /\ queue \intersect handled = {} /\ queue \intersect dead = {}
  /\ handled \intersect dead = {}
  /\ alerts \in Seq(Alert)
  /\ raised \subseteq Alert /\ IsFiniteSet(raised)
  /\ job # NoMessage => metrics \subseteq DOMAIN Value[job]
  /\ \A r \in found :
       /\ metric \in DOMAIN Value[job] /\ metric \notin metrics
       /\ Rule[r].enabled /\ metric \in Rule[r].metrics
  /\ \A i \in DOMAIN alerts :
       alerts[i] \in raised /\ alerts[i].msg = job /\ alerts[i].attempt = attempt[job]
  /\ windows \in [Keys -> Seq(Counts)]

-----------------------------------------------------------------------------
(* Steps *)

\* The sequence with one more element.
LEMMA Appended ==
  ASSUME NEW S, NEW s \in Seq(S), NEW e \in S
  PROVE  /\ Append(s, e) \in Seq(S)
         /\ Len(s) \in Nat /\ DOMAIN s = 1..Len(s)
         /\ DOMAIN Append(s, e) = 1..Len(s) + 1
         /\ \A i \in 1..Len(s) : Append(s, e)[i] = s[i]
         /\ Append(s, e)[Len(s) + 1] = e
  BY AppendProperties, LenProperties

\* An alert that is raised is of the message, the rule and the attempt at hand.
LEMMA RaiseEffect ==
  ASSUME Structure, NEW r \in found, Raise(r)
  PROVE  /\ job \in Messages
         /\ buildAlert(r, metric, job) \in Alert
         /\ alerts' = Append(alerts, buildAlert(r, metric, job))
         /\ raised' = raised \union {buildAlert(r, metric, job)}
<1>1. job \in Messages
  BY DEF Structure, TypeOK
<1>2. r \in Rules /\ metric \in Measured /\ attempt[job] \in 0..MaxAttempts
  BY <1>1 DEF Structure, TypeOK, Measured
<1> QED
  BY <1>1, <1>2 DEF Raise, buildAlert, Alert

\* The window of a rule is cut at its front.
LEMMA ExtendedIs ==
  ASSUME NEW r \in Rules, NEW win \in Seq(Counts), NEW e \in Counts, Rule[r].size > 0
  PROVE  /\ Extended(r, win, e) \in Seq(Counts)
         /\ \E n \in Nat :
              /\ n <= Len(Append(win, e))
              /\ DOMAIN Extended(r, win, e) = 1..Len(Append(win, e)) - n
              /\ \A i \in DOMAIN Extended(r, win, e) :
                   Extended(r, win, e)[i] = Append(win, e)[i + n]
<1> DEFINE longer == Append(win, e)
           extra  == Len(longer) - Rule[r].size
<1>1. /\ longer \in Seq(Counts) /\ Len(longer) \in Nat /\ DOMAIN longer = 1..Len(longer)
      /\ \A i \in 1..Len(longer) : longer[i] \in Counts
  BY AppendProperties, LenProperties, ElementOfSeq
<1>2. Rule[r].size \in Int
  BY EngineAssumption
<1>3. Extended(r, win, e) = IF extra > 0 THEN SubSeq(longer, extra + 1, Len(longer))
                            ELSE longer
  BY DEF Extended
<1>6. extra \in Int /\ extra <= Len(longer)
  BY <1>1, <1>2
<1> HIDE DEF longer, extra
<1>4. CASE extra > 0
  <2> DEFINE cut == SubSeq(longer, extra + 1, Len(longer))
  <2>1. extra + 1 \in Int /\ extra \in Nat /\ extra <= Len(longer)
    BY <1>1, <1>4, <1>6
  <2>2. \A i \in extra + 1..Len(longer) : longer[i] \in Counts
    BY <1>1, <2>1
  <2>3. /\ cut \in Seq(Counts)
        /\ Len(cut) = IF extra + 1 <= Len(longer) THEN Len(longer) - (extra + 1) + 1 ELSE 0
        /\ \A i \in 1..Len(longer) - (extra + 1) + 1 : cut[i] = longer[extra + 1 + i - 1]
    <3>1. Len(longer) \in Int
      BY <1>1
    <3> QED
      BY <2>1, <2>2, <3>1, SubSeqProperties
  <2> HIDE DEF cut
  <2>4. DOMAIN cut = 1..Len(longer) - extra
    <3>1. DOMAIN cut = 1..Len(cut)
      BY <2>3, LenProperties
    <3>2. Len(longer) \in Nat
      BY <1>1
    <3>3. Len(cut) = IF extra + 1 <= Len(longer) THEN Len(longer) - (extra + 1) + 1 ELSE 0
      BY <2>3
    <3>4. Len(cut) = Len(longer) - extra
      BY <2>1, <3>2, <3>3
    <3> QED
      BY <3>1, <3>4
  <2>5. \A i \in DOMAIN cut : cut[i] = longer[i + extra]
    <3> SUFFICES ASSUME NEW i \in DOMAIN cut PROVE cut[i] = longer[i + extra]
      OBVIOUS
    <3>1. i \in 1..Len(longer) - (extra + 1) + 1 /\ extra + 1 + i - 1 = i + extra
      BY <1>1, <2>1, <2>4
    <3> QED
      BY <2>3, <3>1
  <2>6. Extended(r, win, e) = cut
    BY <1>3, <1>4 DEF cut
  <2> QED
    BY <2>1, <2>3, <2>4, <2>5, <2>6 DEF longer
<1>5. CASE ~(extra > 0)
  <2>1. Extended(r, win, e) = longer
    BY <1>3, <1>5
  <2>2. /\ 0 \in Nat /\ 0 <= Len(longer) /\ DOMAIN longer = 1..Len(longer) - 0
        /\ \A i \in DOMAIN longer : longer[i] = longer[i + 0]
    BY <1>1
  <2> QED
    BY <1>1, <2>1, <2>2 DEF longer
<1> QED
  BY <1>4, <1>5

\* The rule at hand is valid and counts measurements.
Counting(r) ==
  Rule[r].type = "continuous" /\ Rule[r].kind = "count" /\ ~Invalid(r, metric)

\* Counting a measurement changes one window.
LEMMA SetRuleStateEffect ==
  ASSUME Structure, NEW r \in found, Counting(r), SetRuleState(r)
  PROVE  LET k == Key(r, metric, job)
             c == [msg |-> job, matched |-> evaluateCondition(r, metric, job)]
         IN  /\ k \in Keys /\ c \in Counts /\ Rule[r].size > 0
             /\ Extended(r, windows[k], c) \in Seq(Counts)
             /\ \/ windows' = [windows EXCEPT ![k] = <<>>]
                \/ windows' = [windows EXCEPT ![k] = Extended(r, windows[k], c)]
             /\ windows' \in [Keys -> Seq(Counts)]
<1> DEFINE k == Key(r, metric, job)
           c == [msg |-> job, matched |-> evaluateCondition(r, metric, job)]
<1>1. job \in Messages /\ r \in Rules /\ metric \in Measured
  BY DEF Structure, TypeOK, Measured
<1>2. Rule[r].type = "continuous" /\ Rule[r].kind = "count"
  BY DEF Counting
<1>3. k \in Keys
  BY <1>1, <1>2 DEF Keys, Measured
<1>4. c \in Counts
  BY <1>1 DEF Counts, evaluateCondition, Holds, Elsewhere
<1>5. Rule[r].size > 0
  BY <1>1, <1>2, EngineAssumption DEF Counting, Invalid
<1>6. windows[k] \in Seq(Counts) /\ windows \in [Keys -> Seq(Counts)]
  BY <1>3 DEF Structure
<1>7. Extended(r, windows[k], c) \in Seq(Counts)
  BY <1>1, <1>4, <1>5, <1>6, ExtendedIs
<1>8. Counted(r) = Extended(r, windows[k], c)
  BY DEF Counted
<1>9. \/ windows' = [windows EXCEPT ![k] = <<>>]
      \/ windows' = [windows EXCEPT ![k] = Extended(r, windows[k], c)]
  BY <1>8 DEF SetRuleState
<1> HIDE DEF k, c
<1>10. windows' \in [Keys -> Seq(Counts)]
  <2>1. <<>> \in Seq(Counts)
    OBVIOUS
  <2> QED
    BY <1>6, <1>7, <1>9, <2>1
<1> QED
  BY <1>3, <1>4, <1>5, <1>7, <1>9, <1>10 DEF k, c

\* What evaluating a rule does: nothing, or an alert, and perhaps a window.
LEMMA EvaluateEffect ==
  ASSUME Structure, EvaluateRule
  PROVE  \E r \in found :
           /\ found' = found \ {r}
           /\ Raise(r) \/ UNCHANGED <<alerts, raised>>
           /\ UNCHANGED windows \/ (Counting(r) /\ SetRuleState(r))
           /\ Rule[r].type = "instant" => Skip(r) \/ (ruleApplies(r, job) /\ Instant(r))
<1>1. PICK r \in found :
        /\ found' = found \ {r}
        /\ \/ Skip(r)
           \/ /\ ruleApplies(r, job) /\ ~Invalid(r, metric)
              /\ Instant(r) \/ CountWindow(r) \/ TimeWindow(r)
  BY DEF EvaluateRule
<1>2. CASE Skip(r)
  BY <1>1, <1>2 DEF Skip
<1>3. CASE ruleApplies(r, job) /\ ~Invalid(r, metric) /\ Instant(r)
  BY <1>1, <1>3 DEF Instant
<1>4. CASE ~Invalid(r, metric) /\ CountWindow(r)
  BY <1>1, <1>4 DEF CountWindow, Counting
<1>5. CASE TimeWindow(r)
  BY <1>1, <1>5 DEF TimeWindow
<1> QED
  BY <1>1, <1>2, <1>3, <1>4, <1>5

\* The end of an attempt.
LEMMA EndEffect ==
  ASSUME Structure, NEW ok \in BOOLEAN, job \in Messages, End(ok)
  PROVE  /\ attempt' \in [Messages -> 0..MaxAttempts]
         /\ job' = NoMessage /\ metrics' = {} /\ found' = {} /\ alerts' = <<>>
         /\ \/ /\ ok /\ handled' = handled \union {job}
               /\ UNCHANGED <<queue, dead, attempt>>
            \/ /\ ~ok /\ dead' = dead \union {job}
               /\ UNCHANGED <<queue, handled, attempt>>
            \/ /\ ~ok /\ queue' = queue \union {job}
               /\ attempt' = [attempt EXCEPT ![job] = @ + 1]
               /\ UNCHANGED <<handled, dead>>
  BY EngineAssumption DEF Structure, TypeOK, End, Exhausted

\* An insert stores alerts of this attempt.
LEMMA InsertEffect ==
  ASSUME Structure, NEW n \in Int, n <= Insertable, Insert(n)
  PROVE  /\ Insertable \in 0..Len(alerts) /\ Len(alerts) \in Nat
         /\ DOMAIN alerts = 1..Len(alerts)
         /\ \A i \in 1..n : i \in DOMAIN alerts
         /\ stored \subseteq stored' /\ stored' \subseteq raised
         /\ stored' = stored \union {alerts[i] : i \in 1..n}
<1>1. Len(alerts) \in Nat /\ DOMAIN alerts = 1..Len(alerts)
  BY LenProperties DEF Structure
<1>2. alerts # <<>> => Len(alerts) >= 1
  BY EmptySeq DEF Structure
<1>3. Insertable \in 0..Len(alerts)
  BY <1>1, <1>2 DEF Insertable
<1>4. \A i \in 1..n : i \in DOMAIN alerts
  BY <1>1, <1>3
<1> QED
  BY <1>1, <1>3, <1>4 DEF Insert, Structure, TypeOK

\* A call on a window that fails leaves the windows, or counts the measurement, whose
\* alert is dropped with the attempt.
LEMMA WindowFailsEffect ==
  ASSUME Structure, WindowFails
  PROVE  /\ job \in Messages
         /\ UNCHANGED windows \/ \E r \in found : Counting(r) /\ SetRuleState(r)
         /\ windows' \in [Keys -> Seq(Counts)]
         /\ raised \subseteq raised' /\ raised' \subseteq Alert /\ IsFiniteSet(raised')
         /\ \A a \in raised' \ raised :
              /\ a.msg = job /\ a.attempt = attempt[job]
              /\ Rule[a.rule].type = "continuous"
<1>1. PICK r \in found :
        /\ Rule[r].type = "continuous" /\ ~Invalid(r, metric)
        /\ \/ UNCHANGED <<windows, raised>>
           \/ /\ Rule[r].kind = "count" /\ SetRuleState(r)
              /\ raised' = IF Triggered(r, Counted(r))
                           THEN raised \union {buildAlert(r, metric, job)} ELSE raised
  BY DEF WindowFails
<1>2. /\ job \in Messages /\ r \in Rules /\ metric \in Measured
      /\ attempt[job] \in 0..MaxAttempts
  BY DEF Structure, TypeOK, Measured
<1>3. CASE UNCHANGED <<windows, raised>>
  BY <1>2, <1>3 DEF Structure
<1>4. CASE /\ Rule[r].kind = "count" /\ SetRuleState(r)
           /\ raised' \in {raised, raised \union {buildAlert(r, metric, job)}}
  <2>1. Counting(r)
    BY <1>1, <1>4 DEF Counting
  <2>2. windows' \in [Keys -> Seq(Counts)]
    BY <1>4, <2>1, SetRuleStateEffect
  <2> DEFINE b == buildAlert(r, metric, job)
  <2>3. b \in Alert /\ b.msg = job /\ b.attempt = attempt[job] /\ b.rule = r
    BY <1>2 DEF buildAlert, Alert
  <2> HIDE DEF b
  <2>4. raised \subseteq Alert /\ IsFiniteSet(raised) /\ IsFiniteSet(raised \union {b})
    BY FS_AddElement DEF Structure
  <2>5. raised' = raised \/ raised' = raised \union {b}
    BY <1>4 DEF b
  <2>6. /\ raised \subseteq raised' /\ raised' \subseteq Alert /\ IsFiniteSet(raised')
        /\ \A a \in raised' \ raised :
             /\ a.msg = job /\ a.attempt = attempt[job]
             /\ Rule[a.rule].type = "continuous"
    BY <1>1, <2>3, <2>4, <2>5
  <2> QED
    BY <1>2, <1>4, <2>1, <2>2, <2>6
<1> QED
  BY <1>1, <1>3, <1>4
-----------------------------------------------------------------------------
(* Types *)

\* The initial states have the structure.
LEMMA StructureInit == Init => Structure
<1> SUFFICES ASSUME Init PROVE Structure
  OBVIOUS
<1>1. IsFiniteSet(raised)
  BY FS_EmptySet DEF Init
<1>2. alerts \in Seq(Alert) /\ DOMAIN alerts = {}
  BY DEF Init
<1>3. windows \in [Keys -> Seq(Counts)] /\ \A k \in Keys : DOMAIN windows[k] = {}
  BY DEF Init
<1> QED
  BY <1>1, <1>2, <1>3, EngineAssumption DEF Init, Structure, TypeOK

\* Windows count messages.
LEMMA CountsOfMessages ==
  ASSUME NEW f \in [Keys -> Seq(Counts)]
  PROVE  \A k \in Keys : \A i \in DOMAIN f[k] : f[k][i].msg \in Messages
<1> SUFFICES ASSUME NEW k \in Keys, NEW i \in DOMAIN f[k] PROVE f[k][i].msg \in Messages
  OBVIOUS
<1>1. f[k][i] \in Counts
  BY LenProperties, ElementOfSeq
<1> QED
  BY <1>1 DEF Counts

\* Every step keeps it.
LEMMA StructureStep == Structure /\ [Next]_vars => Structure'
<1> SUFFICES ASSUME Structure, [Next]_vars PROVE Structure'
  OBVIOUS
<1> USE EngineAssumption DEF Structure, TypeOK
<1>1. ASSUME NEW m \in Messages, FlattenEnvelope(m) PROVE Structure'
  BY <1>1 DEF FlattenEnvelope
<1>2. CASE FindEnabledByMetric
  BY <1>2 DEF FindEnabledByMetric
<1>3. CASE EvaluateRule
  <2>1. PICK r \in found :
          /\ found' = found \ {r}
          /\ Raise(r) \/ UNCHANGED <<alerts, raised>>
          /\ UNCHANGED windows \/ (Counting(r) /\ SetRuleState(r))
    BY <1>3, EvaluateEffect
  <2>2. UNCHANGED <<queue, attempt, job, metrics, metric, stored, handled, dead, faulted>>
    BY <1>3 DEF EvaluateRule
  <2>3. windows' \in [Keys -> Seq(Counts)]
    BY <2>1, SetRuleStateEffect
  <2>4. \A k \in Keys : \A i \in DOMAIN windows'[k] : windows'[k][i].msg \in Messages
    BY <2>3, CountsOfMessages
  <2>5. /\ alerts' \in Seq(Alert) /\ raised' \subseteq Alert /\ IsFiniteSet(raised')
        /\ raised \subseteq raised'
        /\ \A i \in DOMAIN alerts' :
             /\ alerts'[i] \in raised' /\ alerts'[i].msg = job
             /\ alerts'[i].attempt = attempt[job]
    <3>1. CASE UNCHANGED <<alerts, raised>>
      BY <3>1
    <3>2. CASE Raise(r)
      <4> DEFINE b == buildAlert(r, metric, job)
      <4>1. /\ b \in Alert /\ alerts' = Append(alerts, b) /\ raised' = raised \union {b}
            /\ b.msg = job /\ b.attempt = attempt[job]
        BY <3>2, RaiseEffect DEF buildAlert
      <4> HIDE DEF b
      <4>2. IsFiniteSet(raised')
        BY <4>1, FS_AddElement
      <4>3. /\ alerts' \in Seq(Alert)
            /\ Len(alerts) \in Nat /\ DOMAIN alerts = 1..Len(alerts)
            /\ DOMAIN alerts' = 1..Len(alerts) + 1
            /\ \A i \in 1..Len(alerts) : alerts'[i] = alerts[i]
            /\ alerts'[Len(alerts) + 1] = b
        BY <4>1, Appended
      <4> QED
        BY <4>1, <4>2, <4>3
    <3> QED
      BY <2>1, <3>1, <3>2
  <2> QED
    BY <2>1, <2>2, <2>3, <2>4, <2>5
<1>4. ASSUME NEW ok \in BOOLEAN, job \in Messages, End(ok),
             windows' \in [Keys -> Seq(Counts)], raised \subseteq raised',
             raised' \subseteq Alert, IsFiniteSet(raised'),
             stored' \subseteq raised, faulted' \subseteq Messages
      PROVE  Structure'
  <2>1. \/ /\ handled' = handled \union {job} /\ UNCHANGED <<queue, dead, attempt>>
        \/ /\ dead' = dead \union {job} /\ UNCHANGED <<queue, handled, attempt>>
        \/ /\ queue' = queue \union {job} /\ UNCHANGED <<handled, dead>>
    BY <1>4, EndEffect
  <2>2. /\ attempt' \in [Messages -> 0..MaxAttempts]
        /\ job' = NoMessage /\ metrics' = {} /\ found' = {} /\ alerts' = <<>>
    BY <1>4, EndEffect
  <2>3. /\ queue' \union handled' \union dead' = Messages \ {job'}
        /\ queue' \intersect handled' = {} /\ queue' \intersect dead' = {}
        /\ handled' \intersect dead' = {}
    BY <1>4, <2>1, <2>2
  <2>4. alerts' \in Seq(Alert) /\ DOMAIN alerts' = {}
    BY <2>2
  <2>5. \A k \in Keys : \A i \in DOMAIN windows'[k] : windows'[k][i].msg \in Messages
    BY <1>4, CountsOfMessages
  <2> QED
    BY <1>4, <2>2, <2>3, <2>4, <2>5
<1>5. CASE EvaluateRuleFails
  BY <1>4, <1>5 DEF EvaluateRuleFails
<1>6. CASE FindFails
  BY <1>4, <1>6 DEF FindFails
<1>10. CASE WindowFails
  <2>1. /\ job \in Messages /\ End(FALSE) /\ UNCHANGED stored
        /\ faulted' = faulted \union {job}
    BY <1>10 DEF WindowFails
  <2>2. /\ windows' \in [Keys -> Seq(Counts)] /\ raised \subseteq raised'
        /\ raised' \subseteq Alert /\ IsFiniteSet(raised')
    BY <1>10, WindowFailsEffect
  <2> QED
    BY <1>4, <2>1, <2>2
<1>7. CASE SaveAlerts
  <2>1. Insertable \in Int
    BY LenProperties DEF Insertable
  <2>2. stored' \subseteq raised
    BY <1>7, <2>1, InsertEffect DEF SaveAlerts
  <2>3. (Insertable = Len(alerts)) \in BOOLEAN
    OBVIOUS
  <2> QED
    BY <1>4, <1>7, <2>2, <2>3 DEF SaveAlerts
<1>8. CASE SaveAlertsFails
  <2>1. Insertable \in Int
    BY LenProperties DEF Insertable
  <2>2. stored' \subseteq raised
    BY <1>8, <2>1, InsertEffect DEF SaveAlertsFails
  <2> QED
    BY <1>4, <1>8, <2>2 DEF SaveAlertsFails
<1>9. CASE UNCHANGED vars
  BY <1>9 DEF vars
<1> QED
  BY <1>1, <1>2, <1>3, <1>5, <1>6, <1>7, <1>8, <1>9, <1>10 DEF Next

\* The type invariant holds: in particular a message is in one place, and what is
\* stored was raised.
THEOREM TypeCorrect == Spec => []TypeOK
<1>1. Structure => TypeOK
  BY DEF Structure
<1> QED
  BY <1>1, StructureInit, StructureStep, PTL DEF Spec
-----------------------------------------------------------------------------
(* Alerts *)

\* A rule is evaluated once for a measurement, so that no alert is raised twice.
NoneTwice ==
  /\ \A i \in DOMAIN alerts :
       /\ alerts[i].metric \notin metrics
       /\ alerts[i].metric = metric => alerts[i].rule \notin found
  /\ \A i, j \in DOMAIN alerts : alerts[i] = alerts[j] => i = j

\* Every step evaluates a rule once for a measurement.
LEMMA NoneTwiceStep ==
  ASSUME Structure, Structure', NoneTwice, [Next]_vars
  PROVE  NoneTwice'
<1> USE DEF NoneTwice
<1>1. ASSUME NEW m \in Messages, FlattenEnvelope(m) PROVE NoneTwice'
  BY <1>1 DEF FlattenEnvelope, Structure, TypeOK
<1>2. CASE FindEnabledByMetric
  BY <1>2 DEF FindEnabledByMetric
<1>3. CASE EvaluateRule
  <2>1. PICK r \in found :
          found' = found \ {r} /\ (Raise(r) \/ UNCHANGED <<alerts, raised>>)
    BY <1>3, EvaluateEffect
  <2>2. UNCHANGED <<metrics, metric>> /\ metric \notin metrics
    BY <1>3 DEF EvaluateRule, Structure
  <2>3. CASE UNCHANGED <<alerts, raised>>
    BY <2>1, <2>2, <2>3
  <2>4. CASE Raise(r)
    <3> DEFINE b == buildAlert(r, metric, job)
    <3>1. /\ b \in Alert /\ alerts' = Append(alerts, b)
          /\ b.rule = r /\ b.metric = metric
      BY <2>4, RaiseEffect DEF buildAlert
    <3> HIDE DEF b
    <3>2. /\ Len(alerts) \in Nat /\ DOMAIN alerts = 1..Len(alerts)
          /\ DOMAIN alerts' = 1..Len(alerts) + 1
          /\ \A i \in 1..Len(alerts) : alerts'[i] = alerts[i]
          /\ alerts'[Len(alerts) + 1] = b
      BY <3>1, Appended DEF Structure
    <3>3. \A i \in DOMAIN alerts : alerts[i] # b
      BY <3>1
    <3>4. \A i, j \in DOMAIN alerts' : alerts'[i] = alerts'[j] => i = j
      BY <3>2, <3>3
    <3>5. \A i \in DOMAIN alerts' :
            /\ alerts'[i].metric \notin metrics
            /\ alerts'[i].metric = metric => alerts'[i].rule \notin found'
      <4> SUFFICES ASSUME NEW i \in DOMAIN alerts'
                   PROVE  /\ alerts'[i].metric \notin metrics
                          /\ alerts'[i].metric = metric => alerts'[i].rule \notin found'
        OBVIOUS
      <4>1. CASE i = Len(alerts) + 1
        BY <2>1, <2>2, <3>1, <3>2, <4>1
      <4>2. CASE i \in 1..Len(alerts)
        <5>1. i \in DOMAIN alerts /\ alerts'[i] = alerts[i]
          BY <3>2, <4>2
        <5> QED
          BY <2>1, <5>1
      <4> QED
        BY <3>2, <4>1, <4>2
    <3> QED
      BY <2>2, <3>4, <3>5
  <2> QED
    BY <2>1, <2>3, <2>4
<1>4. CASE alerts' = <<>>
  BY <1>4
<1>5. CASE UNCHANGED vars
  BY <1>5 DEF vars
<1> QED
  BY <1>1, <1>2, <1>3, <1>4, <1>5
  DEF Next, EvaluateRuleFails, FindFails, WindowFails, SaveAlerts, SaveAlertsFails, End

\* What becomes of an alert once its attempt has ended.
AlertsKept ==
  \A a \in raised :
    /\ a.attempt <= attempt[a.msg]
    /\ a.msg \in queue => a.attempt < attempt[a.msg]
    /\ a.msg = job /\ a.attempt = attempt[job] =>
         a \notin stored /\ \E i \in DOMAIN alerts : alerts[i] = a
    /\ a.msg \in handled /\ a.attempt = attempt[a.msg] => a \in stored

\* How attempts end: well, with their alerts stored, or not.
LEMMA EndsOfAttempts ==
  ASSUME Structure, Structure', [Next]_vars, job # NoMessage, job' # job
  PROVE  \E ok \in BOOLEAN :
           /\ End(ok)
           /\ \/ UNCHANGED windows
              \/ ~ok /\ \E r \in found : Counting(r) /\ SetRuleState(r)
           /\ raised \subseteq raised'
           /\ \A a \in raised' \ raised :
                /\ ~ok /\ a.msg = job /\ a.attempt = attempt[job]
                /\ Rule[a.rule].type = "continuous"
           /\ stored \subseteq stored' /\ stored' \subseteq raised
           /\ \A a \in stored' \ stored : \E i \in DOMAIN alerts : alerts[i] = a
           /\ ok => /\ SaveAlerts /\ Insertable = Len(alerts)
                    /\ metrics = {} /\ found = {}
                    /\ \A i \in DOMAIN alerts : alerts[i] \in stored'
           /\ ~ok => \/ EvaluateRuleFails \/ FindFails \/ WindowFails \/ SaveAlertsFails
                     \/ SaveAlerts /\ Insertable # Len(alerts)
<1>1. CASE EvaluateRuleFails \/ FindFails
  BY <1>1 DEF EvaluateRuleFails, FindFails, Structure, TypeOK
<1>6. CASE WindowFails
  <2>1. End(FALSE) /\ UNCHANGED stored
    BY <1>6 DEF WindowFails
  <2>2. stored \subseteq raised
    BY DEF Structure, TypeOK
  <2> QED
    BY <1>6, <2>1, <2>2, WindowFailsEffect
<1>2. Insertable \in Int
  BY LenProperties DEF Insertable, Structure
<1>3. CASE SaveAlertsFails
  <2>1. PICK n \in 0..Insertable : Insert(n)
    BY <1>3 DEF SaveAlertsFails
  <2>2. /\ stored \subseteq stored' /\ stored' \subseteq raised
        /\ \A a \in stored' \ stored : \E i \in DOMAIN alerts : alerts[i] = a
    BY <1>2, <2>1, InsertEffect
  <2> QED
    BY <1>3, <2>2 DEF SaveAlertsFails
<1>4. CASE SaveAlerts
  <2>1. /\ stored \subseteq stored' /\ stored' \subseteq raised
        /\ DOMAIN alerts = 1..Len(alerts)
        /\ \A i \in 1..Insertable : i \in DOMAIN alerts
        /\ stored' = stored \union {alerts[i] : i \in 1..Insertable}
    BY <1>2, <1>4, InsertEffect DEF SaveAlerts
  <2>2. \A a \in stored' \ stored : \E i \in DOMAIN alerts : alerts[i] = a
    BY <2>1
  <2>3. Insertable = Len(alerts) => \A i \in DOMAIN alerts : alerts[i] \in stored'
    BY <2>1
  <2> QED
    BY <1>4, <2>1, <2>2, <2>3 DEF SaveAlerts
<1>5. CASE \/ \E m \in Messages : FlattenEnvelope(m)
           \/ FindEnabledByMetric \/ EvaluateRule \/ UNCHANGED vars
  BY <1>5 DEF FlattenEnvelope, FindEnabledByMetric, EvaluateRule, vars
<1> QED
  BY <1>1, <1>3, <1>4, <1>5, <1>6 DEF Next

\* Every step keeps track of the alerts.
LEMMA AlertsKeptStep ==
  ASSUME Structure, Structure', AlertsKept, [Next]_vars
  PROVE  AlertsKept'
<1> USE DEF AlertsKept
<1>1. \A a \in raised : a.msg \in Messages /\ a.attempt \in Int
  BY EngineAssumption DEF Structure, Alert
<1>2. \A m \in Messages : attempt[m] \in Int
  BY EngineAssumption DEF Structure, TypeOK
<1>3. ASSUME NEW m \in Messages, FlattenEnvelope(m) PROVE AlertsKept'
  BY <1>1, <1>2, <1>3 DEF FlattenEnvelope
<1>4. CASE FindEnabledByMetric
  BY <1>4 DEF FindEnabledByMetric
<1>5. CASE EvaluateRule
  <2>1. PICK r \in found : Raise(r) \/ UNCHANGED <<alerts, raised>>
    BY <1>5, EvaluateEffect
  <2>2. UNCHANGED <<queue, attempt, job, stored, handled>>
    BY <1>5 DEF EvaluateRule
  <2>3. CASE UNCHANGED <<alerts, raised>>
    BY <2>2, <2>3
  <2>4. CASE Raise(r)
    <3> DEFINE b == buildAlert(r, metric, job)
    <3>1. /\ b \in Alert /\ alerts' = Append(alerts, b) /\ raised' = raised \union {b}
          /\ b.msg = job /\ b.attempt = attempt[job] /\ job \in Messages
      BY <2>4, RaiseEffect DEF buildAlert
    <3> HIDE DEF b
    <3>2. /\ DOMAIN alerts = 1..Len(alerts) /\ Len(alerts) \in Nat
          /\ DOMAIN alerts' = 1..Len(alerts) + 1
          /\ \A i \in 1..Len(alerts) : alerts'[i] = alerts[i]
          /\ alerts'[Len(alerts) + 1] = b
      BY <3>1, Appended DEF Structure
    <3>3. b \notin raised => b \notin stored
      BY DEF Structure, TypeOK
    <3>4. b \in raised => b \notin stored
      BY <3>1
    <3>5. job \notin queue /\ job \notin handled
      BY DEF Structure, TypeOK
    <3>6. \E i \in DOMAIN alerts' : alerts'[i] = b
      BY <3>2
    <3>7. \A a \in raised : (\E i \in DOMAIN alerts : alerts[i] = a) =>
                             \E i \in DOMAIN alerts' : alerts'[i] = a
      BY <3>2
    <3> QED
      BY <1>2, <2>2, <3>1, <3>3, <3>4, <3>5, <3>6, <3>7
  <2> QED
    BY <2>1, <2>3, <2>4
<1>6. CASE job # NoMessage /\ job' # job
  <2>1. PICK ok \in BOOLEAN :
          /\ End(ok)
          /\ \A a \in raised' \ raised : ~ok /\ a.msg = job /\ a.attempt = attempt[job]
          /\ stored \subseteq stored'
          /\ \A a \in stored' \ stored : \E i \in DOMAIN alerts : alerts[i] = a
          /\ ok => \A i \in DOMAIN alerts : alerts[i] \in stored'
    BY <1>6, EndsOfAttempts
  <2>2. job \in Messages /\ job \notin queue /\ job \notin handled
    BY <1>6 DEF Structure, TypeOK
  <2>3. /\ job' = NoMessage
        /\ \/ /\ ok /\ handled' = handled \union {job}
              /\ UNCHANGED <<queue, dead, attempt>>
           \/ /\ ~ok /\ dead' = dead \union {job}
              /\ UNCHANGED <<queue, handled, attempt>>
           \/ /\ ~ok /\ queue' = queue \union {job}
              /\ attempt' = [attempt EXCEPT ![job] = @ + 1]
              /\ UNCHANGED <<handled, dead>>
    BY <2>1, <2>2, EndEffect
  <2>4. NoMessage \notin Messages
    BY EngineAssumption
  <2>5. CASE ok
    <3>1. raised' \subseteq raised
      BY <2>1, <2>5
    <3> QED
      BY <1>1, <1>2, <2>1, <2>2, <2>3, <2>4, <2>5, <3>1
  <2>6. CASE ~ok /\ UNCHANGED <<queue, handled, attempt>>
    BY <1>1, <1>2, <2>1, <2>2, <2>3, <2>4, <2>6
  <2>7. CASE /\ ~ok /\ queue' = queue \union {job} /\ UNCHANGED handled
             /\ attempt' = [attempt EXCEPT ![job] = @ + 1]
    <3>1. /\ attempt'[job] = attempt[job] + 1
          /\ \A m \in Messages \ {job} : attempt'[m] = attempt[m]
      BY <2>2, <2>7 DEF Structure, TypeOK
    <3> QED
      BY <1>1, <1>2, <2>1, <2>2, <2>3, <2>4, <2>7, <3>1
  <2> QED
    BY <2>3, <2>5, <2>6, <2>7
<1>7. CASE UNCHANGED vars
  BY <1>7 DEF vars
<1> QED
  BY <1>3, <1>4, <1>5, <1>6, <1>7, EngineAssumption
  DEF Next, EvaluateRuleFails, FindFails, WindowFails, SaveAlerts, SaveAlertsFails, End,
      Structure, TypeOK

\* An alert for which a window was emptied is stored or in hand, or lost with the
\* attempt that raised it.
THEOREM RaisedAlertsAreStored == Spec => []RaisedStored
<1>1. Init => AlertsKept
  BY DEF Init, AlertsKept
<1>2. Structure /\ AlertsKept => RaisedStored
  <2> SUFFICES ASSUME Structure, AlertsKept, NEW a \in raised
               PROVE  \/ a \in stored
                      \/ \E i \in DOMAIN alerts : alerts[i] = a
                      \/ a.attempt < attempt[a.msg] \/ a.msg \in dead
    BY DEF RaisedStored
  <2>1. /\ a.msg \in queue \union handled \union dead \union {job}
        /\ a.attempt \in Int /\ attempt[a.msg] \in Int
    BY EngineAssumption DEF Structure, TypeOK, Alert
  <2> QED
    BY <2>1 DEF AlertsKept
<1> QED
  BY <1>1, <1>2, StructureInit, StructureStep, AlertsKeptStep, PTL DEF Spec

\* The unique index: one alert is stored for a message at most.
OneEach == \A a, b \in stored : a.msg = b.msg /\ a.msg \in WithIndex => a = b

\* An insert is refused from the second alert of a message on.
LEMMA OneEachInsert ==
  ASSUME Structure, OneEach, NEW n \in Int, n <= Insertable, Insert(n)
  PROVE  OneEach'
<1> USE DEF OneEach
<1>1. /\ DOMAIN alerts = 1..Len(alerts)
      /\ \A i \in 1..n : i \in DOMAIN alerts
      /\ stored' = stored \union {alerts[i] : i \in 1..n}
  BY InsertEffect
<1>2. \A i \in 1..n : alerts[i].msg = job
  BY <1>1 DEF Structure
<1>3. CASE job \notin WithIndex
  BY <1>1, <1>2, <1>3
<1>4. CASE job \in WithIndex /\ Insertable = 0
  <2>1. stored' = stored
    BY <1>1, <1>4
  <2> QED
    BY <2>1
<1>5. CASE job \in WithIndex /\ Insertable # 0
  <2>1. (\A a \in stored : a.msg # job) /\ Insertable = 1
    BY <1>5 DEF Insertable
  <2>2. \A i \in 1..n : i = 1
    BY <2>1
  <2>3. \A a \in stored' : a \in stored \/ (a.msg = job /\ a = alerts[1])
    BY <1>1, <1>2, <2>2
  <2> QED
    BY <2>1, <2>3
<1> QED
  BY <1>3, <1>4, <1>5

\* Every step keeps the index.
LEMMA OneEachStep ==
  ASSUME Structure, OneEach, [Next]_vars
  PROVE  OneEach'
<1>1. Insertable \in Int
  BY LenProperties DEF Insertable, Structure
<1>2. CASE UNCHANGED stored
  BY <1>2 DEF OneEach
<1>3. CASE SaveAlerts
  BY <1>1, <1>3, OneEachInsert DEF SaveAlerts
<1>4. CASE SaveAlertsFails
  <2>1. PICK n \in 0..Insertable : Insert(n)
    BY <1>4 DEF SaveAlertsFails
  <2> QED
    BY <1>1, <2>1, OneEachInsert
<1> QED
  BY <1>2, <1>3, <1>4
  DEF Next, FlattenEnvelope, FindEnabledByMetric, EvaluateRule, EvaluateRuleFails,
      FindFails, WindowFails, vars

\* Where alerts are unique by message, a message that was handled has one alert at
\* most, and it is the one its last attempt raised, if that raised any.
THEOREM HandledHasOneAlert == Spec => []HandledOnce
<1>1. Init => AlertsKept /\ OneEach
  BY DEF Init, AlertsKept, OneEach
<1>2. Structure /\ AlertsKept /\ OneEach => HandledOnce
  <2> SUFFICES ASSUME Structure, AlertsKept, OneEach, NEW m \in handled \intersect WithIndex
               PROVE  LET mine == {a \in stored : a.msg = m}
                      IN  /\ Cardinality(mine) <= 1
                          /\ {a \in raised : a.msg = m /\ a.attempt = attempt[m]}
                               \subseteq mine
    BY DEF HandledOnce
  <2> DEFINE mine == {a \in stored : a.msg = m}
  <2>1. Cardinality(mine) <= 1
    <3>1. CASE mine = {}
      BY <3>1, FS_EmptySet
    <3>2. CASE mine # {}
      <4>1. PICK a \in mine : TRUE
        BY <3>2
      <4>2. mine = {a}
        BY <4>1 DEF OneEach
      <4>3. Cardinality({a}) = 1
        BY FS_Singleton
      <4> QED
        BY <4>2, <4>3
    <3> QED
      BY <3>1, <3>2
  <2>2. {a \in raised : a.msg = m /\ a.attempt = attempt[m]} \subseteq mine
    BY DEF AlertsKept
  <2> QED
    BY <2>1, <2>2
<1> QED
  BY <1>1, <1>2, StructureInit, StructureStep, AlertsKeptStep, OneEachStep, PTL DEF Spec

-----------------------------------------------------------------------------
(* The dead-letter queue *)

\* Two of them are more than one.
LEMMA TwoAreMore ==
  ASSUME NEW S, IsFiniteSet(S), NEW a \in S, NEW b \in S, a # b
  PROVE  Cardinality(S) > 1
<1>0. IsFiniteSet({a}) /\ Cardinality({a}) = 1
  BY FS_Singleton
<1>1. Cardinality({a} \union {b}) = 2 /\ {a} \union {b} \in SUBSET S
  <2>1. b \notin {a}
    OBVIOUS
  <2>2. Cardinality({a} \union {b}) = IF b \in {a} THEN Cardinality({a}) ELSE Cardinality({a}) + 1
    BY <1>0, FS_AddElement
  <2> QED
    BY <1>0, <2>1, <2>2
<1>2. Cardinality({a} \union {b}) <= Cardinality(S) /\ Cardinality(S) \in Nat
  BY <1>1, FS_Subset, FS_CardinalityType
<1> QED
  BY <1>1, <1>2

\* The alerts of a message.
RaisedFor(m) == {a \in raised : a.msg = m}

\* When an insert is refused, there were two alerts for the message: of this attempt,
\* or one that an earlier attempt stored.
LEMMA RefusedInsert ==
  ASSUME Structure, NoneTwice, AlertsKept, job # NoMessage, Insertable # Len(alerts)
  PROVE  job \in WithIndex /\ Cardinality(RaisedFor(job)) > 1
<1> DEFINE S == RaisedFor(job)
<1>1. /\ Len(alerts) \in Nat /\ DOMAIN alerts = 1..Len(alerts)
      /\ alerts = <<>> => Len(alerts) = 0
  BY LenProperties, EmptySeq DEF Structure
<1>2. /\ job \in WithIndex /\ alerts # <<>>
      /\ (\E a \in stored : a.msg = job) \/ Len(alerts) # 1
  BY <1>1 DEF Insertable
<1>3. Len(alerts) # 0
  BY <1>2, EmptySeq DEF Structure
<1>4. IsFiniteSet(S)
  BY FS_Subset DEF Structure, RaisedFor
<1>5. \A i \in DOMAIN alerts : alerts[i] \in S /\ alerts[i] \notin stored
  BY DEF Structure, AlertsKept, RaisedFor
<1>6. 1 \in DOMAIN alerts
  BY <1>1, <1>3
<1>7. CASE \E a \in stored : a.msg = job
  <2>1. PICK a \in stored : a.msg = job
    BY <1>7
  <2>2. a \in S /\ a # alerts[1]
    BY <1>5, <1>6, <2>1 DEF Structure, TypeOK, RaisedFor
  <2> QED
    BY <1>2, <1>4, <1>5, <1>6, <2>2, TwoAreMore
<1>8. CASE Len(alerts) # 1
  <2>1. 2 \in DOMAIN alerts
    BY <1>1, <1>3, <1>8
  <2>2. alerts[1] # alerts[2]
    BY <1>6, <2>1 DEF NoneTwice
  <2> QED
    BY <1>2, <1>4, <1>5, <1>6, <2>1, <2>2, TwoAreMore
<1> QED
  BY <1>2, <1>7, <1>8

\* What is raised or has failed is not forgotten.
LEMMA HistoryGrows ==
  ASSUME Structure, [Next]_vars
  PROVE  raised \subseteq raised' /\ faulted \subseteq faulted'
<1>1. CASE EvaluateRule
  <2>1. PICK r \in found : Raise(r) \/ UNCHANGED <<alerts, raised>>
    BY <1>1, EvaluateEffect
  <2> QED
    BY <1>1, <2>1 DEF EvaluateRule, Raise
<1>2. CASE WindowFails
  BY <1>2, WindowFailsEffect DEF WindowFails
<1> QED
  BY <1>1, <1>2
  DEF Next, FlattenEnvelope, FindEnabledByMetric, EvaluateRuleFails, FindFails,
      SaveAlerts, SaveAlertsFails, vars

\* Every message given up on has a reason, and keeps it.
LEMMA DeadExplainedStep ==
  ASSUME Structure, Structure', NoneTwice, AlertsKept, DeadExplained, [Next]_vars
  PROVE  DeadExplained'
<1> SUFFICES ASSUME NEW m \in dead'
             PROVE  \/ m \in faulted'
                    \/ \E p \in Meets(m) : Invalid(p[1], p[2])
                    \/ m \in WithIndex /\ Cardinality(RaisedFor(m)') > 1
  BY DEF DeadExplained, RaisedFor
<1>1. raised \subseteq raised' /\ faulted \subseteq faulted'
  BY HistoryGrows
<1>2. Cardinality(RaisedFor(m)) > 1 => Cardinality(RaisedFor(m)') > 1
  <2>1. IsFiniteSet(RaisedFor(m)') /\ IsFiniteSet(RaisedFor(m))
    BY FS_Subset DEF RaisedFor, Structure
  <2>2. RaisedFor(m) \in SUBSET (RaisedFor(m)')
    BY <1>1 DEF RaisedFor
  <2>3. /\ Cardinality(RaisedFor(m)) <= Cardinality(RaisedFor(m)')
        /\ Cardinality(RaisedFor(m)) \in Nat /\ Cardinality(RaisedFor(m)') \in Nat
    BY <2>1, <2>2, FS_Subset, FS_CardinalityType
  <2> QED
    BY <2>3
<1>3. CASE m \in dead
  BY <1>1, <1>2, <1>3 DEF DeadExplained, RaisedFor
<1>4. CASE m \notin dead
  <2>1. job # NoMessage /\ job' # job
    BY <1>4
    DEF Next, FlattenEnvelope, FindEnabledByMetric, EvaluateRule, EvaluateRuleFails,
        FindFails, WindowFails, SaveAlerts, SaveAlertsFails, End, Structure, TypeOK, vars
  <2>2. PICK ok \in BOOLEAN :
          /\ End(ok)
          /\ ~ok => \/ EvaluateRuleFails \/ FindFails \/ WindowFails \/ SaveAlertsFails
                    \/ SaveAlerts /\ Insertable # Len(alerts)
    BY <2>1, EndsOfAttempts
  <2>3. m = job /\ ~ok
    <3>1. job \in Messages
      BY <2>1 DEF Structure, TypeOK
    <3> QED
      BY <1>4, <2>2, <3>1, EndEffect
  <2>4. CASE EvaluateRuleFails
    <3>1. PICK r \in found : ruleApplies(r, job) /\ Invalid(r, metric)
      BY <2>4 DEF EvaluateRuleFails
    <3>2. <<r, metric>> \in Meets(job)
      BY <2>1, <3>1 DEF Meets, ruleApplies, Structure, TypeOK
    <3>3. Invalid(<<r, metric>>[1], <<r, metric>>[2])
      BY <3>1
    <3> QED
      BY <2>3, <3>2, <3>3
  <2>5. CASE FindFails \/ WindowFails \/ SaveAlertsFails
    BY <2>3, <2>5 DEF FindFails, WindowFails, SaveAlertsFails
  <2>6. CASE Insertable # Len(alerts)
    BY <1>2, <2>1, <2>3, <2>6, RefusedInsert
  <2> QED
    BY <2>2, <2>3, <2>4, <2>5, <2>6
<1> QED
  BY <1>3, <1>4

\* No message is given up on without a reason: a store that failed, a rule that
\* cannot be evaluated, or more alerts than the index allows.
THEOREM GivenUpForAReason == Spec => []DeadExplained
<1>1. Init => NoneTwice /\ AlertsKept /\ DeadExplained
  BY DEF Init, NoneTwice, AlertsKept, DeadExplained
<1> QED
  BY <1>1, StructureInit, StructureStep, NoneTwiceStep, AlertsKeptStep,
     DeadExplainedStep, PTL DEF Spec

-----------------------------------------------------------------------------
(* Instant rules *)

\* The instant rules that fire on m, by metric.
Fires(m) ==
  {p \in Meets(m) :
     LET r == Rule[p[1]]
     IN  /\ r.type = "instant" /\ r.on \in {AnyMetric, p[2]}
         /\ Holds(r.op, Value[m][p[2]], r.threshold)}

\* No alert is raised for an instant rule that does not fire, and one that does is
\* still to be evaluated, or its alert is in hand, or stored once all are.
InstantKept ==
  /\ \A a \in raised :
       Rule[a.rule].type = "instant" => <<a.rule, a.metric>> \in Fires(a.msg)
  /\ job # NoMessage =>
       \A p \in Fires(job) :
         \/ p[2] \in metrics
         \/ p[2] = metric /\ p[1] \in found
         \/ \E i \in DOMAIN alerts : alerts[i].rule = p[1] /\ alerts[i].metric = p[2]
  /\ \A m \in handled : \A p \in Fires(m) :
       \E a \in stored : a.msg = m /\ a.rule = p[1] /\ a.metric = p[2]

\* What evaluating a rule does about the instant rules: it is skipped only when it
\* does not fire.
LEMMA InstantEvaluated ==
  ASSUME Structure, NEW r \in found, Rule[r].type = "instant",
         Skip(r) \/ (ruleApplies(r, job) /\ Instant(r))
  PROVE  IF <<r, metric>> \in Fires(job) THEN Raise(r) ELSE UNCHANGED <<alerts, raised>>
<1>1. /\ r \in Rules /\ job \in Messages /\ metric \in DOMAIN Value[job]
      /\ Rule[r].enabled /\ metric \in Rule[r].metrics
  BY DEF Structure, TypeOK
<1>2. <<r, metric>>[1] = r /\ <<r, metric>>[2] = metric
  OBVIOUS
<1>3. <<r, metric>> \in Fires(job) <=>
        ruleApplies(r, job) /\ evaluateCondition(r, metric, job)
  BY <1>1, <1>2 DEF Fires, Meets, ruleApplies, evaluateCondition, Elsewhere
<1>4. CASE Skip(r)
  BY <1>3, <1>4 DEF Skip
<1>5. CASE ruleApplies(r, job) /\ Instant(r)
  BY <1>3, <1>5 DEF Instant
<1> QED
  BY <1>4, <1>5

\* Every step keeps account of the instant rules.
LEMMA InstantKeptStep ==
  ASSUME Structure, Structure', InstantKept, [Next]_vars
  PROVE  InstantKept'
<1> USE DEF InstantKept
<1>1. ASSUME NEW m \in Messages, FlattenEnvelope(m) PROVE InstantKept'
  <2>1. \A p \in Fires(m) : p[2] \in DOMAIN Value[m]
    BY DEF Fires, Meets
  <2> QED
    BY <1>1, <2>1 DEF FlattenEnvelope
<1>2. CASE FindEnabledByMetric
  <2>1. PICK x \in metrics :
          /\ metric' = x /\ metrics' = metrics \ {x} /\ found = {}
          /\ found' = {r \in Rules : Rule[r].enabled /\ x \in Rule[r].metrics}
    BY <1>2 DEF FindEnabledByMetric
  <2>2. \A p \in Fires(job) : p[1] \in Rules /\ Rule[p[1]].enabled /\ p[2] \in Rule[p[1]].metrics
    BY DEF Fires, Meets
  <2>3. \A p \in Fires(job) : p[2] = x => p[1] \in found'
    BY <2>1, <2>2
  <2> QED
    BY <1>2, <2>1, <2>3 DEF FindEnabledByMetric
<1>3. CASE EvaluateRule
  <2>1. PICK r \in found :
          /\ found' = found \ {r}
          /\ Raise(r) \/ UNCHANGED <<alerts, raised>>
          /\ Rule[r].type = "instant" => Skip(r) \/ (ruleApplies(r, job) /\ Instant(r))
    BY <1>3, EvaluateEffect
  <2>2. UNCHANGED <<job, metrics, metric, handled, stored>>
    BY <1>3 DEF EvaluateRule
  <2>3. Rule[r].type = "instant" =>
          IF <<r, metric>> \in Fires(job) THEN Raise(r) ELSE UNCHANGED <<alerts, raised>>
    BY <2>1, InstantEvaluated
  <2>4. \A p \in Fires(job) :
          /\ p = <<p[1], p[2]>> /\ Rule[p[1]].type = "instant"
    BY DEF Fires, Meets
  <2>5. \A p \in Fires(job) : p[1] = r /\ p[2] = metric => Raise(r)
    BY <2>3, <2>4
  <2>6. CASE UNCHANGED <<alerts, raised>> /\ ~Raise(r)
    BY <2>1, <2>2, <2>5, <2>6
  <2>7. CASE Raise(r)
    <3> DEFINE b == buildAlert(r, metric, job)
    <3>1. /\ b \in Alert /\ alerts' = Append(alerts, b) /\ raised' = raised \union {b}
          /\ b.rule = r /\ b.metric = metric /\ b.msg = job
      BY <2>7, RaiseEffect DEF buildAlert
    <3> HIDE DEF b
    <3>2. /\ DOMAIN alerts = 1..Len(alerts) /\ Len(alerts) \in Nat
          /\ DOMAIN alerts' = 1..Len(alerts) + 1
          /\ \A i \in 1..Len(alerts) : alerts'[i] = alerts[i]
          /\ alerts'[Len(alerts) + 1] = b
      BY <3>1, Appended DEF Structure
    <3>3. Rule[r].type = "instant" => <<r, metric>> \in Fires(job)
      <4>1. SUFFICES ASSUME Rule[r].type = "instant", UNCHANGED <<alerts, raised>>
                     PROVE  FALSE
        BY <2>3
      <4>2. Len(alerts') = Len(alerts) + 1
        BY <3>1, AppendProperties DEF Structure
      <4> QED
        BY <3>2, <4>1, <4>2
    <3>4. \A a \in raised' :
            Rule[a.rule].type = "instant" => <<a.rule, a.metric>> \in Fires(a.msg)
      BY <3>1, <3>3
    <3>5. \A p \in Fires(job) :
            \/ p[2] \in metrics
            \/ p[2] = metric /\ p[1] \in found'
            \/ \E i \in DOMAIN alerts' : alerts'[i].rule = p[1] /\ alerts'[i].metric = p[2]
      <4> SUFFICES ASSUME NEW p \in Fires(job), p[2] \notin metrics,
                          ~(p[2] = metric /\ p[1] \in found')
                   PROVE  \E i \in DOMAIN alerts' :
                            alerts'[i].rule = p[1] /\ alerts'[i].metric = p[2]
        OBVIOUS
      <4>0. job # NoMessage
        BY <1>3 DEF EvaluateRule, Structure, TypeOK
      <4>1. CASE p[1] = r /\ p[2] = metric
        BY <3>1, <3>2, <4>1
      <4>2. CASE \E i \in DOMAIN alerts : alerts[i].rule = p[1] /\ alerts[i].metric = p[2]
        BY <3>2, <4>2
      <4> QED
        BY <2>1, <4>0, <4>1, <4>2
    <3> QED
      BY <2>2, <3>4, <3>5
  <2> QED
    BY <2>1, <2>6, <2>7
<1>4. CASE job # NoMessage /\ job' # job
  <2>1. PICK ok \in BOOLEAN :
          /\ End(ok)
          /\ \A a \in raised' \ raised : Rule[a.rule].type = "continuous"
          /\ stored \subseteq stored'
          /\ ok => /\ metrics = {} /\ found = {}
                   /\ \A i \in DOMAIN alerts : alerts[i] \in stored'
    BY <1>4, EndsOfAttempts
  <2>2. job \in Messages
    BY <1>4 DEF Structure, TypeOK
  <2>3. job' = NoMessage /\ handled' \subseteq (IF ok THEN handled \union {job} ELSE handled)
    BY <2>1, <2>2, EndEffect
  <2>4. \A m \in handled : \A p \in Fires(m) :
          \E a \in stored' : a.msg = m /\ a.rule = p[1] /\ a.metric = p[2]
    BY <2>1
  <2>5. ok => \A p \in Fires(job) :
          \E a \in stored' : a.msg = job /\ a.rule = p[1] /\ a.metric = p[2]
    BY <1>4, <2>1 DEF Structure
  <2>6. \A m \in handled' : \A p \in Fires(m) :
          \E a \in stored' : a.msg = m /\ a.rule = p[1] /\ a.metric = p[2]
    BY <2>3, <2>4, <2>5
  <2> QED
    BY <2>1, <2>3, <2>6
<1>5. CASE UNCHANGED vars
  BY <1>5 DEF vars
<1> QED
  BY <1>1, <1>2, <1>3, <1>4, <1>5, EngineAssumption
  DEF Next, EvaluateRuleFails, FindFails, WindowFails, SaveAlerts, SaveAlertsFails, End,
      Structure, TypeOK

\* Whatever the order of its metrics and rules, and whatever failed before, a message
\* that was handled has alerts in Mongo for the instant rules that fire, and no other.
THEOREM HandledHasInstantAlerts == Spec => []InstantStored
<1>1. Init => InstantKept
  BY DEF Init, InstantKept
<1>2. Structure /\ InstantKept => InstantStored
  <2> SUFFICES ASSUME Structure, InstantKept, NEW m \in handled
               PROVE  {<<a.rule, a.metric>> :
                         a \in {b \in stored : b.msg = m /\ Rule[b.rule].type = "instant"}}
                        = Fires(m)
    BY DEF InstantStored, Fires
  <2> DEFINE S == {<<a.rule, a.metric>> :
                     a \in {b \in stored : b.msg = m /\ Rule[b.rule].type = "instant"}}
  <2>1. ASSUME NEW p \in S PROVE p \in Fires(m)
    <3>1. PICK a \in stored : /\ a.msg = m /\ Rule[a.rule].type = "instant"
                              /\ p = <<a.rule, a.metric>>
      BY <2>1
    <3> QED
      BY <3>1 DEF InstantKept, Structure, TypeOK
  <2>2. ASSUME NEW p \in Fires(m) PROVE p \in S
    <3>1. PICK a \in stored : a.msg = m /\ a.rule = p[1] /\ a.metric = p[2]
      BY DEF InstantKept
    <3>2. p = <<p[1], p[2]>> /\ Rule[p[1]].type = "instant"
      BY DEF Fires, Meets
    <3> QED
      BY <3>1, <3>2
  <2> QED
    BY <2>1, <2>2
<1> QED
  BY <1>1, <1>2, StructureInit, StructureStep, InstantKeptStep, PTL DEF Spec

-----------------------------------------------------------------------------
(* Windows *)

\* Where a message stands in a window.
Places(win, m) == {j \in DOMAIN win : win[j].msg = m}
At(k, m) == Places(windows[k], m)

\* Whether this attempt at m may still count it in window k.
ToCount(k, m) ==
  \/ m \in queue
  \/ m = job /\ (k[2] \in metrics \/ (k[2] = metric /\ k[1] \in found))

CountedOnce ==
  \A k \in Keys : \A m \in Messages :
    /\ At(k, m) # {} => Device[m] = k[3]
    /\ Cardinality(At(k, m)) <= IF ToCount(k, m) THEN attempt[m] ELSE attempt[m] + 1

\* A new count adds one place at most, and only for its own message.
LEMMA ExtendedAt ==
  ASSUME NEW r \in Rules, Rule[r].size > 0, NEW win \in Seq(Counts), NEW e \in Counts,
         NEW m \in Messages
  PROVE  LET S == Places(win, m)
             T == Places(Extended(r, win, e), m)
         IN  /\ IsFiniteSet(S) /\ Cardinality(S) \in Nat
             /\ IsFiniteSet(T) /\ Cardinality(T) \in Nat
             /\ Cardinality(T) <= Cardinality(S) + 1
             /\ e.msg # m => Cardinality(T) <= Cardinality(S) /\ (T # {} => S # {})
<1> DEFINE next == Extended(r, win, e)
           S == Places(win, m)
           T == Places(next, m)
           U == IF e.msg = m THEN S \union {Len(win) + 1} ELSE S
<1> HIDE DEF next
<1> USE DEF Places
<1>1. /\ Len(win) \in Nat /\ DOMAIN win = 1..Len(win)
      /\ DOMAIN Append(win, e) = 1..Len(win) + 1
      /\ \A i \in 1..Len(win) : Append(win, e)[i] = win[i]
      /\ Append(win, e)[Len(win) + 1] = e
      /\ Len(Append(win, e)) = Len(win) + 1
  BY Appended, AppendProperties
<1>2. PICK n \in Nat :
        /\ n <= Len(win) + 1
        /\ DOMAIN next = 1..Len(win) + 1 - n
        /\ \A i \in DOMAIN next : next[i] = Append(win, e)[i + n]
  <2>1. \E n \in Nat :
          /\ n <= Len(Append(win, e))
          /\ DOMAIN Extended(r, win, e) = 1..Len(Append(win, e)) - n
          /\ \A i \in DOMAIN Extended(r, win, e) :
               Extended(r, win, e)[i] = Append(win, e)[i + n]
    BY ExtendedIs
  <2> QED
    <3>1. Len(Append(win, e)) = Len(win) + 1
      BY <1>1
    <3> QED
      BY <2>1, <3>1 DEF next
<1>3. IsFiniteSet(S) /\ Cardinality(S) \in Nat
  <2>1. IsFiniteSet(1..Len(win)) /\ S \in SUBSET (1..Len(win))
    BY <1>1, FS_Interval
  <2> QED
    BY <2>1, FS_Subset, FS_CardinalityType
<1>4. \A j \in T : j \in Int /\ j + n \in U
  <2> SUFFICES ASSUME NEW j \in T PROVE j \in Int /\ j + n \in U
    OBVIOUS
  <2>1. j \in 1..Len(win) + 1 - n /\ Append(win, e)[j + n].msg = m
    BY <1>2
  <2>2. j + n \in 1..Len(win) + 1
    BY <1>1, <1>2, <2>1
  <2>3. CASE j + n = Len(win) + 1
    BY <1>1, <2>1, <2>3
  <2>4. CASE j + n \in 1..Len(win)
    BY <1>1, <2>1, <2>4
  <2> QED
    BY <1>1, <2>1, <2>2, <2>3, <2>4
<1>5. /\ IsFiniteSet(U) /\ Cardinality(U) \in Nat
      /\ Cardinality(U) <= Cardinality(S) + 1
      /\ e.msg # m => Cardinality(U) = Cardinality(S)
  <2>1. /\ IsFiniteSet(S \union {Len(win) + 1})
        /\ Cardinality(S \union {Len(win) + 1}) =
             IF Len(win) + 1 \in S THEN Cardinality(S) ELSE Cardinality(S) + 1
    BY <1>3, FS_AddElement
  <2> HIDE DEF S
  <2> QED
    BY <1>3, <2>1
<1>6. IsFiniteSet(T) /\ Cardinality(T) <= Cardinality(U)
  <2> DEFINE f == [j \in T |-> j + n]
  <2> HIDE DEF T, U
  <2>1. f \in [T -> U] /\ \A i, j \in T : f[i] = f[j] => i = j
    BY <1>2, <1>4
  <2>2. f \in Injection(T, U)
    BY <2>1 DEF Injection, IsInjective
  <2> QED
    BY <1>5, <2>2, FS_Injection
<1>7. Cardinality(T) \in Nat
  BY <1>6, FS_CardinalityType
<1>8. e.msg # m /\ T # {} => S # {}
  BY <1>4
<1> HIDE DEF Places, S, T, U
<1>9. /\ Cardinality(T) <= Cardinality(S) + 1
      /\ e.msg # m => Cardinality(T) <= Cardinality(S)
  BY <1>3, <1>5, <1>6, <1>7
<1> QED
  BY <1>3, <1>6, <1>7, <1>8, <1>9 DEF S, T, next

\* A window is finite.
LEMMA AtFinite ==
  ASSUME Structure, NEW k \in Keys, NEW m
  PROVE  IsFiniteSet(At(k, m)) /\ Cardinality(At(k, m)) \in Nat
<1>1. windows[k] \in Seq(Counts)
  BY DEF Structure
<1>2. IsFiniteSet(1..Len(windows[k])) /\ DOMAIN windows[k] = 1..Len(windows[k])
  BY <1>1, LenProperties, FS_Interval
<1>3. At(k, m) \in SUBSET (1..Len(windows[k]))
  BY <1>2 DEF At, Places
<1> QED
  BY <1>2, <1>3, FS_Subset, FS_CardinalityType

\* What a window counts changes with its own rule, metric and device only, and by one
\* place of the message at hand.
LEMMA AtEffect ==
  ASSUME Structure, Structure', NEW r \in found, Counting(r), SetRuleState(r),
         NEW k \in Keys, NEW m \in Messages
  PROVE  /\ IsFiniteSet(At(k, m)) /\ Cardinality(At(k, m)) \in Nat
         /\ Cardinality(At(k, m)') \in Nat
         /\ \/ At(k, m)' = At(k, m)
            \/ At(k, m)' = {}
            \/ Cardinality(At(k, m)') <= Cardinality(At(k, m)) /\ At(k, m) # {}
            \/ /\ m = job /\ k = Key(r, metric, job)
               /\ Cardinality(At(k, m)') <= Cardinality(At(k, m)) + 1
<1> DEFINE q == Key(r, metric, job)
           c == [msg |-> job, matched |-> evaluateCondition(r, metric, job)]
<1>1. /\ q \in Keys /\ c \in Counts /\ c.msg = job /\ Rule[r].size > 0 /\ r \in Rules
      /\ \/ windows' = [windows EXCEPT ![q] = <<>>]
         \/ windows' = [windows EXCEPT ![q] = Extended(r, windows[q], c)]
  BY SetRuleStateEffect DEF Structure, TypeOK
<1> HIDE DEF q, c
<1>2. windows \in [Keys -> Seq(Counts)] /\ windows' \in [Keys -> Seq(Counts)]
  BY DEF Structure
<1>3. /\ IsFiniteSet(At(k, m)) /\ Cardinality(At(k, m)) \in Nat
      /\ IsFiniteSet(At(k, m)') /\ Cardinality(At(k, m)') \in Nat
  <2>1. ASSUME NEW w \in Seq(Counts)
        PROVE  LET S == {j \in DOMAIN w : w[j].msg = m}
               IN  IsFiniteSet(S) /\ Cardinality(S) \in Nat
    <3>1. IsFiniteSet(1..Len(w)) /\ DOMAIN w = 1..Len(w)
      BY LenProperties, FS_Interval
    <3>2. {j \in DOMAIN w : w[j].msg = m} \in SUBSET (1..Len(w))
      BY <3>1
    <3> QED
      BY <3>1, <3>2, FS_Subset, FS_CardinalityType
  <2>2. windows[k] \in Seq(Counts) /\ windows'[k] \in Seq(Counts)
    BY <1>2
  <2> QED
    BY <2>1, <2>2 DEF At, Places
<1>4. CASE k # q
  BY <1>1, <1>2, <1>3, <1>4 DEF At, Places
<1>5. CASE windows' = [windows EXCEPT ![q] = <<>>] /\ k = q
  BY <1>2, <1>3, <1>5 DEF At, Places
<1>6. CASE windows' = [windows EXCEPT ![q] = Extended(r, windows[q], c)] /\ k = q
  <2>1. windows'[k] = Extended(r, windows[k], c) /\ windows[k] \in Seq(Counts)
    BY <1>2, <1>6
  <2>2. /\ Cardinality(At(k, m)') <= Cardinality(At(k, m)) + 1
        /\ job # m => /\ Cardinality(At(k, m)') <= Cardinality(At(k, m))
                      /\ At(k, m)' # {} => At(k, m) # {}
    <3>1. /\ r \in Rules /\ Rule[r].size > 0 /\ windows[k] \in Seq(Counts)
          /\ c \in Counts /\ c.msg = job
      BY <1>1, <2>1
    <3> QED
      BY <2>1, <3>1, ExtendedAt DEF At
  <2> QED
    BY <1>3, <1>6, <2>2 DEF q
<1> QED
  BY <1>1, <1>3, <1>4, <1>5, <1>6

\* Every step counts a measurement once for an attempt.
LEMMA CountedOnceStep ==
  ASSUME Structure, Structure', CountedOnce, [Next]_vars
  PROVE  CountedOnce'
<1> SUFFICES ASSUME NEW k \in Keys, NEW m \in Messages
             PROVE  /\ At(k, m)' # {} => Device[m] = k[3]
                    /\ Cardinality(At(k, m)') <=
                         IF ToCount(k, m)' THEN attempt'[m] ELSE attempt'[m] + 1
  BY DEF CountedOnce
<1>1. /\ At(k, m) # {} => Device[m] = k[3]
      /\ Cardinality(At(k, m)) <= IF ToCount(k, m) THEN attempt[m] ELSE attempt[m] + 1
  BY DEF CountedOnce
<1>2. attempt[m] \in Nat /\ attempt'[m] \in Nat
  BY EngineAssumption DEF Structure, TypeOK
<1>3. Cardinality({}) = 0
  BY FS_EmptySet
<1>0. IsFiniteSet(At(k, m)) /\ Cardinality(At(k, m)) \in Nat
  BY AtFinite
<1>4. ASSUME UNCHANGED <<windows, attempt>>, ToCount(k, m)' => ToCount(k, m)
      PROVE  /\ At(k, m)' # {} => Device[m] = k[3]
             /\ Cardinality(At(k, m)') <=
                  IF ToCount(k, m)' THEN attempt'[m] ELSE attempt'[m] + 1
  <2>1. At(k, m)' = At(k, m) /\ attempt'[m] = attempt[m]
    BY <1>4 DEF At, Places
  <2> QED
    BY <1>0, <1>1, <1>2, <1>4, <2>1
<1>5. ASSUME NEW n \in Messages, FlattenEnvelope(n)
      PROVE  UNCHANGED <<windows, attempt>> /\ (ToCount(k, m)' => ToCount(k, m))
  BY <1>5 DEF FlattenEnvelope, ToCount, Structure, TypeOK
<1>6. CASE FindEnabledByMetric
  BY <1>4, <1>6 DEF FindEnabledByMetric, ToCount
<1>7. CASE EvaluateRule
  <2>1. PICK r \in found :
          /\ found' = found \ {r}
          /\ UNCHANGED windows \/ (Counting(r) /\ SetRuleState(r))
    BY <1>7, EvaluateEffect
  <2>2. UNCHANGED <<queue, attempt, job, metrics, metric>>
    BY <1>7 DEF EvaluateRule
  <2>3. ToCount(k, m)' => ToCount(k, m)
    BY <2>1, <2>2 DEF ToCount
  <2>4. CASE UNCHANGED windows
    BY <1>4, <2>2, <2>3, <2>4
  <2>5. CASE Counting(r) /\ SetRuleState(r)
    <3>1. /\ Cardinality(At(k, m)') \in Nat
          /\ \/ At(k, m)' = At(k, m)
             \/ At(k, m)' = {}
             \/ Cardinality(At(k, m)') <= Cardinality(At(k, m)) /\ At(k, m) # {}
             \/ /\ m = job /\ k = Key(r, metric, job)
                /\ Cardinality(At(k, m)') <= Cardinality(At(k, m)) + 1
      BY <2>5, AtEffect
    <3>2. CASE m = job /\ k = Key(r, metric, job)
               /\ Cardinality(At(k, m)') <= Cardinality(At(k, m)) + 1
      <4>1. k[1] = r /\ k[2] = metric /\ k[3] = Device[m]
        BY <3>2 DEF Key
      <4>2. ToCount(k, m)
        BY <3>2, <4>1 DEF ToCount
      <4>3. ~ToCount(k, m)'
        <5>1. job \notin queue /\ metric \notin metrics
          BY <3>2 DEF Structure, TypeOK
        <5> QED
          BY <2>1, <2>2, <3>2, <4>1, <5>1 DEF ToCount
      <4> QED
        BY <1>0, <1>1, <1>2, <2>2, <3>1, <3>2, <4>1, <4>2, <4>3
    <3>3. CASE At(k, m)' = {}
      BY <1>2, <1>3, <3>3
    <3>4. CASE At(k, m)' = At(k, m)
      BY <1>0, <1>1, <1>2, <2>2, <2>3, <3>4
    <3>5. CASE Cardinality(At(k, m)') <= Cardinality(At(k, m)) /\ At(k, m) # {}
      BY <1>0, <1>1, <1>2, <2>2, <2>3, <3>1, <3>5
    <3> QED
      BY <3>1, <3>2, <3>3, <3>4, <3>5
  <2> QED
    BY <2>1, <2>4, <2>5
<1>8. CASE job # NoMessage /\ job' # job
  <2>1. PICK ok \in BOOLEAN :
          /\ End(ok)
          /\ UNCHANGED windows \/ \E r \in found : Counting(r) /\ SetRuleState(r)
    BY <1>8, EndsOfAttempts
  <2>2. job \in Messages
    BY <1>8 DEF Structure, TypeOK
  <2>3. /\ job' = NoMessage /\ NoMessage \notin Messages
        /\ \/ UNCHANGED <<queue, attempt>>
           \/ /\ queue' = queue \union {job}
              /\ attempt' = [attempt EXCEPT ![job] = @ + 1]
    BY <2>1, <2>2, EndEffect, EngineAssumption
  <2>4. /\ Cardinality(At(k, m)') \in Nat
        /\ \/ At(k, m)' = At(k, m)
           \/ At(k, m)' = {}
           \/ Cardinality(At(k, m)') <= Cardinality(At(k, m)) /\ At(k, m) # {}
           \/ /\ m = job /\ k[3] = Device[m] /\ ToCount(k, m)
              /\ Cardinality(At(k, m)') <= Cardinality(At(k, m)) + 1
    <3>1. CASE UNCHANGED windows
      BY <1>0, <3>1 DEF At, Places
    <3>2. ASSUME NEW r \in found, Counting(r), SetRuleState(r)
          PROVE  /\ Cardinality(At(k, m)') \in Nat
                 /\ \/ At(k, m)' = At(k, m)
                    \/ At(k, m)' = {}
                    \/ Cardinality(At(k, m)') <= Cardinality(At(k, m)) /\ At(k, m) # {}
                    \/ /\ m = job /\ k[3] = Device[m] /\ ToCount(k, m)
                       /\ Cardinality(At(k, m)') <= Cardinality(At(k, m)) + 1
      <4>1. m = job /\ k = Key(r, metric, job) => k[3] = Device[m] /\ ToCount(k, m)
        BY DEF Key, ToCount
      <4> QED
        BY <3>2, <4>1, AtEffect
    <3> QED
      BY <2>1, <3>1, <3>2
  <2>5. CASE UNCHANGED <<queue, attempt>>
    <3>1. ToCount(k, m)' => ToCount(k, m) /\ m # job
      BY <2>3, <2>5 DEF ToCount, Structure, TypeOK
    <3> QED
      BY <1>0, <1>1, <1>2, <1>3, <2>4, <2>5, <3>1
  <2>6. CASE /\ queue' = queue \union {job}
             /\ attempt' = [attempt EXCEPT ![job] = @ + 1]
    <3>1. CASE m = job
      <4>1. attempt'[m] = attempt[m] + 1
        BY <2>6, <3>1 DEF Structure, TypeOK
      <4> QED
        BY <1>0, <1>1, <1>2, <1>3, <2>4, <4>1
    <3>2. CASE m # job
      <4>1. attempt'[m] = attempt[m] /\ (ToCount(k, m)' => ToCount(k, m))
        BY <2>3, <2>6, <3>2 DEF ToCount, Structure, TypeOK
      <4>2. /\ At(k, m)' # {} => At(k, m) # {}
            /\ Cardinality(At(k, m)') <= Cardinality(At(k, m))
        BY <1>0, <1>3, <2>4, <3>2
      <4> QED
        BY <1>0, <1>1, <1>2, <2>4, <4>1, <4>2
    <3> QED
      BY <3>1, <3>2
  <2> QED
    BY <2>3, <2>5, <2>6
<1>9. CASE UNCHANGED vars
  BY <1>4, <1>9 DEF vars, ToCount
<1> QED
  BY <1>4, <1>5, <1>6, <1>7, <1>8, <1>9, EngineAssumption
  DEF Next, EvaluateRuleFails, FindFails, WindowFails, SaveAlerts, SaveAlertsFails, End,
      Structure, TypeOK

\* A window counts measurements of one device, each once for every attempt.
THEOREM CountedOncePerAttempt == Spec => []CountedPerAttempt
<1>1. Init => CountedOnce
  <2> SUFFICES ASSUME Init, NEW k \in Keys, NEW m \in Messages
               PROVE  At(k, m) = {} /\ Cardinality({}) = 0 /\ attempt[m] = 0
    BY DEF CountedOnce
  <2>1. DOMAIN windows[k] = {}
    BY DEF Init
  <2> QED
    BY <2>1, FS_EmptySet DEF Init, At, Places
<1>2. Structure /\ CountedOnce => CountedPerAttempt
  <2> SUFFICES ASSUME Structure, CountedOnce, NEW k \in Keys, NEW i \in DOMAIN windows[k],
                      NEW m, m = windows[k][i].msg
               PROVE  /\ Device[m] = k[3]
                      /\ Cardinality({j \in DOMAIN windows[k] : windows[k][j].msg = m})
                           <= attempt[m] + 1
    BY DEF CountedPerAttempt, Structure
  <2>1. m \in Messages
    BY DEF Structure, TypeOK
  <2>2. At(k, m) # {} /\ At(k, m) = {j \in DOMAIN windows[k] : windows[k][j].msg = m}
    BY DEF At, Places
  <2>3. IsFiniteSet(At(k, m)) /\ Cardinality(At(k, m)) \in Nat
    BY AtFinite
  <2>4. attempt[m] \in Nat
    BY <2>1, EngineAssumption DEF Structure, TypeOK
  <2> QED
    <3>1. /\ Device[m] = k[3]
          /\ Cardinality(At(k, m)) <= IF ToCount(k, m) THEN attempt[m] ELSE attempt[m] + 1
      BY <2>1, <2>2 DEF CountedOnce
    <3>2. Cardinality(At(k, m)) <= attempt[m] + 1
      BY <2>3, <2>4, <3>1
    <3> QED
      BY <2>2, <3>1, <3>2
<1> QED
  BY <1>1, <1>2, StructureInit, StructureStep, CountedOnceStep, PTL DEF Spec
=============================================================================
