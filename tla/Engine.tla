------------------------------- MODULE Engine -------------------------------
(***************************************************************************)
(* ProcessEnvelope and SaveAlerts of rule_engine: a message is flattened   *)
(* into its measurements, the enabled rules of each are read from Mongo and *)
(* evaluated, and the alerts are stored together at the end.  An error on  *)
(* the way fails the whole message, which is handled again from the start; *)
(* the windows keep what was counted before.                               *)
(*                                                                         *)
(* One message is handled at a time, and deduplication is left to Delivery: *)
(* a failed attempt has given its mark back.  Time windows are left to     *)
(* TimeWindow: here one that is added to triggers or does not.             *)
(***************************************************************************)
EXTENDS Integers, Sequences, FiniteSets

CONSTANTS
  Messages,    \* the messages
  Device,      \* Device[m]: the device of m
  Tags,        \* Tags[d]: the tags of device d
  Value,       \* Value[m]: the values of m by metric
  Rules,       \* identifiers of rules
  Rule,        \* Rule[r]: the document of rule r
  AnyMetric,   \* the metric of a condition that names none
  WithIndex,   \* messages with an id, when alerts.message_id is unique
  NoMessage,   \* the job of an engine that has none
  Faults,      \* the stores that may fail: "mongo", "redis"
  MaxAttempts  \* RABBIT_RETRY_MAX_ATTEMPTS

Types == {"instant", "continuous", "inactivity"}
Ops   == {">", ">=", "<", "<=", "==", "!="}

ASSUME EngineAssumption ==
  /\ WithIndex \subseteq Messages
  /\ NoMessage \notin Messages
  /\ Faults \subseteq {"mongo", "redis"}
  /\ MaxAttempts \in Nat
  /\ \A r \in Rules : Rule[r].size \in Int /\ Rule[r].required \in Int

VARIABLES
  queue,    \* messages to be handled
  attempt,  \* attempt[m]: the x-retry-count of m
  job,      \* the message being handled
  metrics,  \* its measurements that were not looked at
  metric,   \* the one that is
  found,    \* the rules still to be evaluated for it
  alerts,   \* the alerts of this attempt
  windows,  \* the count windows in Redis, by rule, metric and device
  stored,   \* alerts in Mongo
  raised,   \* history: alerts of rules that triggered, stored or not
  handled,  \* history: messages handled without an error
  dead,     \* messages in the dead-letter queue
  faulted   \* history: messages for which a store failed

vars == <<queue, attempt, job, metrics, metric, found, alerts, windows, stored,
          raised, handled, dead, faulted>>
-----------------------------------------------------------------------------
(* Evaluation of rule r for metric x of message m *)

\* MUTANT of Key: the devices share a window.
KeyShared(r, x, m) == <<r, x, CHOOSE d \in {Device[n] : n \in Messages} : TRUE>>

\* The key of a window.
Key(r, x, m) == <<r, x, Device[m]>>

Keys == {Key(r, x, m) : r \in {q \in Rules : Rule[q].type = "continuous"},
                        x \in UNION {DOMAIN Value[n] : n \in Messages},
                        m \in Messages}

ruleApplies(r, m) == Rule[r].tags \subseteq Tags[Device[m]]

Holds(op, v, threshold) ==
  \/ op = ">"  /\ v > threshold
  \/ op = ">=" /\ v >= threshold
  \/ op = "<"  /\ v < threshold
  \/ op = "<=" /\ v <= threshold
  \/ op = "==" /\ v = threshold
  \/ op = "!=" /\ v # threshold

\* A condition on another metric is false before its operator is looked at.
Elsewhere(r, x) == Rule[r].on \notin {AnyMetric, x}

evaluateCondition(r, x, m) ==
  ~Elsewhere(r, x) /\ Holds(Rule[r].op, Value[m][x], Rule[r].threshold)

\* Whether evaluating the rule is an error, whatever the value.  An inactivity rule
\* without a condition has no operator either.
Invalid(r, x) ==
  \/ ~Elsewhere(r, x) /\ Rule[r].op \notin Ops
  \/ Rule[r].type \notin Types
  \/ /\ Rule[r].type = "continuous"
     /\ \/ Rule[r].kind \notin {"count", "time"}
        \/ Rule[r].size <= 0
        \/ Rule[r].required <= 0

\* The window of r with one more measurement, cut to its size.
Extended(r, win, new) ==
  LET longer == Append(win, new)
      extra  == Len(longer) - Rule[r].size
  IN  IF extra > 0 THEN SubSeq(longer, extra + 1, Len(longer)) ELSE longer

Triggered(r, win) ==
  /\ Len(win) >= Rule[r].size
  /\ Cardinality({i \in DOMAIN win : win[i].matched}) >= Rule[r].required

buildAlert(r, x, m) == [rule |-> r, metric |-> x, msg |-> m, attempt |-> attempt[m]]
-----------------------------------------------------------------------------
Init ==
  /\ queue   = Messages
  /\ attempt = [m \in Messages |-> 0]
  /\ job     = NoMessage
  /\ metrics = {}
  /\ metric  = AnyMetric
  /\ found   = {}
  /\ alerts  = <<>>
  /\ windows = [k \in Keys |-> <<>>]
  /\ stored  = {}
  /\ raised  = {}
  /\ handled = {}
  /\ dead    = {}
  /\ faulted = {}

\* A delivery is taken and flattened; the order of a map is random.
FlattenEnvelope(m) ==
  /\ job = NoMessage
  /\ m \in queue
  /\ job'     = m
  /\ queue'   = queue \ {m}
  /\ metrics' = DOMAIN Value[m]
  /\ UNCHANGED <<attempt, metric, found, alerts, windows, stored, raised, handled,
                 dead, faulted>>

\* The rules for the next measurement.  One that names no metric is not found.
FindEnabledByMetric ==
  /\ job # NoMessage /\ found = {}
  /\ \E x \in metrics :
       /\ metric'  = x
       /\ metrics' = metrics \ {x}
       /\ found'   = {r \in Rules : Rule[r].enabled /\ x \in Rule[r].metrics}
  /\ UNCHANGED <<queue, attempt, job, alerts, windows, stored, raised, handled,
                 dead, faulted>>

Raise(r) ==
  /\ alerts' = Append(alerts, buildAlert(r, metric, job))
  /\ raised' = raised \union {buildAlert(r, metric, job)}

\* A rule that asks for nothing: out of scope, false, or left to the liveness worker.
Skip(r) ==
  /\ \/ ~ruleApplies(r, job)
     \/ /\ ~Invalid(r, metric)
        /\ \/ Rule[r].type = "inactivity"
           \/ /\ ~evaluateCondition(r, metric, job)
              /\ Rule[r].type = "instant" \/ Rule[r].kind = "time"
  /\ UNCHANGED <<alerts, raised, windows>>

Instant(r) ==
  /\ Rule[r].type = "instant"
  /\ evaluateCondition(r, metric, job)
  /\ Raise(r)
  /\ UNCHANGED windows

\* The window of r with the measurement at hand.
Counted(r) ==
  Extended(r, windows[Key(r, metric, job)],
           [msg |-> job, matched |-> evaluateCondition(r, metric, job)])

\* It is written to Redis; one that triggers is emptied.
SetRuleState(r) ==
  windows' = [windows EXCEPT ![Key(r, metric, job)] =
                IF Triggered(r, Counted(r)) THEN <<>> ELSE Counted(r)]

CountWindow(r) ==
  /\ Rule[r].type = "continuous" /\ Rule[r].kind = "count"
  /\ SetRuleState(r)
  /\ IF Triggered(r, Counted(r)) THEN Raise(r) ELSE UNCHANGED <<alerts, raised>>

TimeWindow(r) ==
  /\ Rule[r].type = "continuous" /\ Rule[r].kind = "time"
  /\ evaluateCondition(r, metric, job)
  /\ Raise(r) \/ UNCHANGED <<alerts, raised>>
  /\ UNCHANGED windows

\* MUTANT of EvaluateRule: a rule that does not apply ends the loop.
EvaluateRuleBreaks ==
  /\ \E r \in found :
       /\ found' = IF ruleApplies(r, job) THEN found \ {r} ELSE {}
       /\ \/ Skip(r)
          \/ /\ ruleApplies(r, job) /\ ~Invalid(r, metric)
             /\ Instant(r) \/ CountWindow(r) \/ TimeWindow(r)
  /\ UNCHANGED <<queue, attempt, job, metrics, metric, stored, handled, dead, faulted>>

EvaluateRule ==
  /\ \E r \in found :
       /\ found' = found \ {r}
       /\ \/ Skip(r)
          \/ /\ ruleApplies(r, job) /\ ~Invalid(r, metric)
             /\ Instant(r) \/ CountWindow(r) \/ TimeWindow(r)
  /\ UNCHANGED <<queue, attempt, job, metrics, metric, stored, handled, dead, faulted>>

\* Whether retryOrDlq gives up.
Exhausted == attempt[job] + 1 > MaxAttempts

\* The attempt ends; the message is retried, or given up on, or handled.
End(ok) ==
  LET again == ~ok /\ ~Exhausted
  IN
  /\ handled' = IF ok THEN handled \union {job} ELSE handled
  /\ dead'    = IF ok \/ again THEN dead ELSE dead \union {job}
  /\ queue'   = IF again THEN queue \union {job} ELSE queue
  /\ attempt' = IF again THEN [attempt EXCEPT ![job] = @ + 1] ELSE attempt
  /\ job'     = NoMessage
  /\ metrics' = {}
  /\ metric'  = AnyMetric
  /\ found'   = {}
  /\ alerts'  = <<>>

\* MUTANT of EvaluateRuleFails: a rule is evaluated before its scope is looked at.
EvaluateRuleFailsFirst ==
  /\ \E r \in found : Invalid(r, metric)
  /\ End(FALSE)
  /\ UNCHANGED <<windows, stored, raised, faulted>>

\* Some rule found cannot be evaluated: the alerts before it are dropped.
EvaluateRuleFails ==
  /\ \E r \in found : ruleApplies(r, job) /\ Invalid(r, metric)
  /\ End(FALSE)
  /\ UNCHANGED <<windows, stored, raised, faulted>>

\* The rules cannot be read.
FindFails ==
  /\ "mongo" \in Faults
  /\ metrics # {} /\ found = {}
  /\ faulted' = faulted \union {job}
  /\ End(FALSE)
  /\ UNCHANGED <<windows, stored, raised>>

\* A call on the window of a rule fails, without effect or with one that was not
\* confirmed: the measurement is counted then, and will be again, or the window is
\* emptied and its alert dropped.  A time window is called for a match only.
WindowFails ==
  /\ "redis" \in Faults
  /\ \E r \in found :
       /\ ruleApplies(r, job) /\ ~Invalid(r, metric) /\ Rule[r].type = "continuous"
       /\ \/ /\ Rule[r].kind = "count" \/ evaluateCondition(r, metric, job)
             /\ UNCHANGED <<windows, raised>>
          \/ /\ Rule[r].kind = "count"
             /\ SetRuleState(r)
             /\ raised' = IF Triggered(r, Counted(r))
                          THEN raised \union {buildAlert(r, metric, job)} ELSE raised
  /\ faulted' = faulted \union {job}
  /\ End(FALSE)
  /\ UNCHANGED stored

\* MUTANT of Insertable: there is no index.
InsertableAll == Len(alerts)

\* How many of the alerts an ordered insert stores before one is refused.
Insertable ==
  IF job \notin WithIndex THEN Len(alerts)
  ELSE IF alerts = <<>> \/ \E a \in stored : a.msg = job THEN 0 ELSE 1

Insert(n) == stored' = stored \union {alerts[i] : i \in 1..n}

\* MUTANT of SaveAlerts: what the insert did not store is not an error.
SaveAlertsLoose ==
  /\ job # NoMessage /\ metrics = {} /\ found = {}
  /\ Insert(Insertable)
  /\ End(TRUE)
  /\ UNCHANGED <<windows, raised, faulted>>

\* Every measurement was looked at.
SaveAlerts ==
  /\ job # NoMessage /\ metrics = {} /\ found = {}
  /\ Insert(Insertable)
  /\ End(Insertable = Len(alerts))
  /\ UNCHANGED <<windows, raised, faulted>>

SaveAlertsFails ==
  /\ "mongo" \in Faults
  /\ metrics = {} /\ found = {} /\ alerts # <<>>
  /\ \E n \in 0..Insertable : Insert(n)
  /\ faulted' = faulted \union {job}
  /\ End(FALSE)
  /\ UNCHANGED <<windows, raised>>

Next ==
  \/ \E m \in Messages : FlattenEnvelope(m)
  \/ FindEnabledByMetric \/ EvaluateRule \/ EvaluateRuleFails
  \/ FindFails \/ WindowFails \/ SaveAlerts \/ SaveAlertsFails

Spec == Init /\ [][Next]_vars
-----------------------------------------------------------------------------
(* Properties *)

\* The type invariant.
TypeOK ==
  /\ attempt \in [Messages -> 0..MaxAttempts]
  /\ job \in Messages \union {NoMessage}
  /\ job = NoMessage => metrics = {} /\ found = {} /\ alerts = <<>>
  /\ queue \union handled \union dead = Messages \ {job}
  /\ found \subseteq Rules
  /\ \A k \in Keys : \A i \in DOMAIN windows[k] : windows[k][i].msg \in Messages
  /\ stored \subseteq raised
  /\ faulted \subseteq Messages

\* The rules a message meets: enabled, for one of its metrics and its device.
Meets(m) ==
  {p \in Rules \X DOMAIN Value[m] :
     LET r == Rule[p[1]]
     IN  r.enabled /\ p[2] \in r.metrics /\ r.tags \subseteq Tags[Device[m]]}

\* Whatever the order of its metrics and rules, and whatever failed before, a message
\* that was handled has alerts in Mongo for the instant rules that fire, and no other.
InstantStored ==
  \A m \in handled :
    {<<a.rule, a.metric>> : a \in {b \in stored : b.msg = m /\ Rule[b.rule].type = "instant"}}
      = {p \in Meets(m) :
           LET r == Rule[p[1]]
           IN  /\ r.type = "instant" /\ r.on \in {AnyMetric, p[2]}
               /\ Holds(r.op, Value[m][p[2]], r.threshold)}

\* An alert for which a window was emptied is in Mongo or in hand, or the attempt
\* that raised it failed: what was counted for it is lost then.
RaisedStored ==
  \A a \in raised :
    \/ a \in stored
    \/ \E i \in DOMAIN alerts : alerts[i] = a
    \/ a.attempt < attempt[a.msg] \/ a.msg \in dead

\* Where alerts are unique by message, a message that was handled has one alert at
\* most, and it is the one its last attempt raised, if that raised any.
HandledOnce ==
  \A m \in handled \intersect WithIndex :
    LET mine == {a \in stored : a.msg = m}
    IN  /\ Cardinality(mine) <= 1
        /\ {a \in raised : a.msg = m /\ a.attempt = attempt[m]} \subseteq mine

\* No message is given up on without a reason: a store that failed, a rule that
\* cannot be evaluated, or more alerts than the index allows.
DeadExplained ==
  \A m \in dead :
    \/ m \in faulted
    \/ \E p \in Meets(m) : Invalid(p[1], p[2])
    \/ m \in WithIndex /\ Cardinality({a \in raised : a.msg = m}) > 1

\* A window counts measurements of one device, each once for every attempt; checked
\* with the type invariant.
CountedPerAttempt ==
  /\ TypeOK
  /\ \A k \in Keys : \A i \in DOMAIN windows[k] :
       LET m == windows[k][i].msg
       IN  /\ Device[m] = k[3]
           /\ Cardinality({j \in DOMAIN windows[k] : windows[k][j].msg = m})
                <= attempt[m] + 1
=============================================================================
