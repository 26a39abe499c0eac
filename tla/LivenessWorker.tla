--------------------------- MODULE LivenessWorker ---------------------------
(***************************************************************************)
(* The liveness worker of rule_engine.  A ticker starts a round; a round   *)
(* asks Mongo for the inactivity rules and for the devices of each rule,   *)
(* and Redis for the time each device was last seen, which iot_controller  *)
(* writes meanwhile; what has been silent for too long goes into a batch   *)
(* of alerts that is inserted when the round ends.                         *)
(*                                                                         *)
(* Time is counted in parts of a second: the clocks are finer than the     *)
(* last-seen times, which are cut to seconds.                              *)
(***************************************************************************)
EXTENDS Integers, SequencesExt

CONSTANTS
  RuleList,     \* the enabled inactivity rules, each once, as Mongo returns them
  Gap,          \* Gap[r]: max_gap_sec, at most 0 where the rule has none
  Found,        \* Found[r]: the devices in the scope of r, each once
  Devices,      \* the devices that report
  Second,       \* parts of a second
  Interval,     \* LIVENESS_INTERVAL, in parts of a second
  NoTime,       \* the last-seen time of a device without one
  Faults,       \* what fails: "mongo", "redis" (calls), "crash", "stop" (SIGTERM)
  MaxFailures,  \* bound on failed calls, crashes and stops
  MaxReports,   \* bound on the reports of a device
  MaxClock      \* where the clock stays: no silence is longer

Rules == Range(RuleList)

ASSUME LivenessAssumption ==
  /\ RuleList \in Seq(Rules) /\ IsInjective(RuleList)
  /\ Gap \in [Rules -> Int]
  /\ Found \in [Rules -> Seq(Devices)] /\ \A r \in Rules : IsInjective(Found[r])
  /\ Second \in Nat \ {0} /\ Interval \in Nat \ {0}
  /\ NoTime \notin Nat
  /\ MaxFailures \in Nat /\ MaxReports \in Nat /\ MaxClock \in Nat

VARIABLES
  clock,      \* the time
  since,      \* the time since the ticker fired
  tick,       \* ticker.C, which holds one tick
  process,    \* "up", "stopping" (the context is cancelled), "down"
  pc,         \* the next step of the worker
  rules, ids, \* what is left of the two loops; the heads are at work
  read,       \* the last-seen time that was read
  batch,      \* alerts, of this round
  lastSeen,   \* Redis: the last-seen times, in seconds
  alerts,     \* Mongo: the alerts
  heard,      \* history: the reports in Redis, with their time and when they came
  start,      \* history: when the round began
  expected,   \* history: <<r, d>> overdue when the round began that no failed
              \* call and no report since excuses it from reporting
  failures    \* how many failed calls, crashes and stops there were

ticker == <<clock, since>>
loop   == <<rules, ids, read, batch>>
round  == <<start, expected>>

vars == <<ticker, tick, process, pc, loop, lastSeen, alerts, heard, round, failures>>
-----------------------------------------------------------------------------
(* Helpers *)

Pairs == {p \in Rules \X Devices : p[2] \in Range(Found[p[1]])}

Reports(d) == {h \in heard : h.device = d}

\* MUTANT of Overdue: the gap is not multiplied by time.Second.
OverdueUnscaled(r, seen, t) == seen # NoTime /\ t - seen * Second >= Gap[r]

\* A device of r last seen at seen has been silent for too long at time t.
Overdue(r, seen, t) == seen # NoTime /\ t - seen * Second >= Gap[r] * Second

\* r should report d.
Silent(r, d) == Gap[r] > 0 /\ Overdue(r, lastSeen[d], clock)

\* The calls of a round fail when their store does and when the context is
\* cancelled; only the first kind is counted.
CallFails(store) ==
  \/ process = "stopping" /\ UNCHANGED failures
  \/ /\ store \in Faults /\ failures < MaxFailures
     /\ failures' = failures + 1

Init ==
  /\ clock = 0 /\ since = 0 /\ tick = FALSE
  /\ process = "up" /\ pc = "wait"
  /\ rules = <<>> /\ ids = <<>> /\ read = NoTime /\ batch = <<>>
  /\ lastSeen = [d \in Devices |-> NoTime] /\ alerts = {}
  /\ heard = {} /\ start = 0 /\ expected = {} /\ failures = 0
-----------------------------------------------------------------------------
(* The surroundings *)

\* Time passes.  A tick that finds the last one unread is dropped.
Pass ==
  /\ clock' = IF clock < MaxClock THEN clock + 1 ELSE clock
  /\ since' = (since + 1) % Interval
  /\ tick'  = (tick \/ since' = 0)
  /\ UNCHANGED <<process, pc, loop, lastSeen, alerts, heard, round, failures>>

\* iot_controller saves the time of a report, read now or a moment ago.  Reports
\* that come over MQTT are saved in their order.
SetLastSeen(d) ==
  /\ Cardinality(Reports(d)) < MaxReports
  /\ \E t \in {clock - 1, clock} \intersect Nat :
       /\ \A h \in Reports(d) : h.ts < t
       /\ lastSeen' = [lastSeen EXCEPT ![d] = t \div Second]
       /\ heard'    = heard \union {[device |-> d, ts |-> t, saved |-> clock]}
  /\ expected' = {p \in expected : p[2] # d}
  /\ UNCHANGED <<ticker, tick, process, pc, loop, alerts, start, failures>>
-----------------------------------------------------------------------------
(* runOnce *)

\* MUTANT of Begin: the batch of the round before is kept.
BeginKeepsBatch ==
  /\ process # "down" /\ pc = "wait" /\ tick
  /\ tick' = FALSE /\ pc' = "rules"
  /\ start' = clock /\ expected' = {p \in Pairs : Silent(p[1], p[2])}
  /\ UNCHANGED <<ticker, process, loop, lastSeen, alerts, heard, failures>>

\* The ticker has fired; select may choose it when the context is cancelled too.
Begin ==
  /\ process # "down" /\ pc = "wait" /\ tick
  /\ tick' = FALSE /\ pc' = "rules"
  /\ batch' = <<>>
  /\ start' = clock /\ expected' = {p \in Pairs : Silent(p[1], p[2])}
  /\ UNCHANGED <<ticker, process, rules, ids, read, lastSeen, alerts, heard, failures>>

FindInactivityRules ==
  /\ process = "up" /\ pc = "rules"
  /\ rules' = RuleList
  /\ pc'    = "rule"
  /\ UNCHANGED <<ticker, tick, process, ids, read, batch, lastSeen, alerts, heard, round,
                 failures>>

\* MUTANT of RulesFail: Start returns on an error.
RulesFailEnds ==
  /\ process # "down" /\ pc = "rules" /\ CallFails("mongo")
  /\ pc' = "ended"
  /\ expected' = {}
  /\ UNCHANGED <<ticker, tick, process, loop, lastSeen, alerts, heard, start>>

RulesFail ==
  /\ process # "down" /\ pc = "rules" /\ CallFails("mongo")
  /\ pc' = "wait"
  /\ expected' = {}
  /\ UNCHANGED <<ticker, tick, process, loop, lastSeen, alerts, heard, start>>

SkipRule ==
  /\ process # "down" /\ pc = "rule"
  /\ rules # <<>> /\ Gap[Head(rules)] <= 0
  /\ rules' = Tail(rules)
  /\ UNCHANGED <<ticker, tick, process, pc, ids, read, batch, lastSeen, alerts, heard,
                 round, failures>>

FindIDsByScope ==
  /\ process = "up" /\ pc = "rule"
  /\ rules # <<>> /\ Gap[Head(rules)] > 0
  /\ ids' = Found[Head(rules)]
  /\ pc'  = "device"
  /\ UNCHANGED <<ticker, tick, process, rules, read, batch, lastSeen, alerts, heard,
                 round, failures>>

\* MUTANT of AfterRule: the round ends with the rule that failed.
AfterRuleEnds == <<>>

\* The rules that are left when the devices of one cannot be found.
AfterRule == Tail(rules)

DevicesFail ==
  /\ process # "down" /\ pc = "rule"
  /\ rules # <<>> /\ Gap[Head(rules)] > 0 /\ CallFails("mongo")
  /\ rules'  = AfterRule
  /\ expected' = {p \in expected : p[1] # Head(rules)}
  /\ UNCHANGED <<ticker, tick, process, pc, ids, read, batch, lastSeen, alerts, heard,
                 start>>

RuleDone ==
  /\ process # "down" /\ pc = "device" /\ ids = <<>>
  /\ rules' = Tail(rules)
  /\ pc'    = "rule"
  /\ UNCHANGED <<ticker, tick, process, ids, read, batch, lastSeen, alerts, heard, round,
                 failures>>

GetLastSeen ==
  /\ process = "up" /\ pc = "device" /\ ids # <<>>
  /\ read' = lastSeen[Head(ids)]
  /\ pc'   = "check"
  /\ UNCHANGED <<ticker, tick, process, rules, ids, batch, lastSeen, alerts, heard, round,
                 failures>>

LastSeenFails ==
  /\ process # "down" /\ pc = "device" /\ ids # <<>> /\ CallFails("redis")
  /\ ids'    = Tail(ids)
  /\ expected' = expected \ {<<Head(rules), Head(ids)>>}
  /\ UNCHANGED <<ticker, tick, process, pc, rules, read, batch, lastSeen, alerts, heard,
                 start>>

\* Time may have passed since the read.
Check ==
  /\ process # "down" /\ pc = "check"
  /\ batch' = IF Overdue(Head(rules), read, clock)
              THEN Append(batch, [rule |-> Head(rules), device |-> Head(ids), ts |-> clock])
              ELSE batch
  /\ ids'  = Tail(ids)
  /\ read' = NoTime
  /\ pc'   = "device"
  /\ UNCHANGED <<ticker, tick, process, rules, lastSeen, alerts, heard, round, failures>>

NothingToInsert ==
  /\ process # "down" /\ pc = "rule" /\ rules = <<>> /\ batch = <<>>
  /\ pc' = "wait"
  /\ UNCHANGED <<ticker, tick, process, loop, lastSeen, alerts, heard, round, failures>>

\* The first n alerts of the batch are stored; each is kept with the round that
\* stored it.
Stored(n) ==
  {[rule |-> batch[i].rule, device |-> batch[i].device, ts |-> batch[i].ts,
    round |-> start] : i \in 1..n}

InsertMany ==
  /\ process = "up" /\ pc = "rule" /\ rules = <<>> /\ batch # <<>>
  /\ alerts' = alerts \union Stored(Len(batch))
  /\ pc' = "wait"
  /\ UNCHANGED <<ticker, tick, process, loop, lastSeen, heard, round, failures>>

\* The insert is ordered: some first alerts may be stored, or all of them.
InsertFails ==
  /\ process # "down" /\ pc = "rule" /\ rules = <<>> /\ batch # <<>>
  /\ CallFails("mongo")
  /\ \E n \in 0..Len(batch) : alerts' = alerts \union Stored(n)
  /\ pc' = "wait"
  /\ expected' = {}
  /\ UNCHANGED <<ticker, tick, process, loop, lastSeen, heard, start>>
-----------------------------------------------------------------------------
(* The life of the process *)

Die ==
  /\ process' = "down" /\ pc' = "wait"
  /\ rules' = <<>> /\ ids' = <<>> /\ read' = NoTime /\ batch' = <<>>
  /\ tick' = FALSE /\ start' = 0 /\ expected' = {}
  /\ UNCHANGED <<ticker, lastSeen, alerts, heard>>

Crash ==
  /\ process # "down"
  /\ "crash" \in Faults /\ failures < MaxFailures
  /\ failures' = failures + 1
  /\ Die

Stop ==
  /\ process = "up"
  /\ "stop" \in Faults /\ failures < MaxFailures
  /\ failures' = failures + 1
  /\ process' = "stopping"
  /\ UNCHANGED <<ticker, tick, pc, loop, lastSeen, alerts, heard, round>>

\* main returns without waiting for the worker.
Exit ==
  /\ process = "stopping"
  /\ Die
  /\ UNCHANGED failures

\* A new process, and a new ticker.
Restart ==
  /\ process = "down"
  /\ process' = "up"
  /\ since' = 0
  /\ UNCHANGED <<clock, tick, pc, loop, lastSeen, alerts, heard, round, failures>>
-----------------------------------------------------------------------------
Round ==
  \/ Begin \/ FindInactivityRules \/ RulesFail
  \/ SkipRule \/ FindIDsByScope \/ DevicesFail \/ RuleDone
  \/ GetLastSeen \/ LastSeenFails \/ Check
  \/ NothingToInsert \/ InsertMany \/ InsertFails

Next ==
  \/ Pass \/ \E d \in Devices : SetLastSeen(d)
  \/ Round
  \/ Crash \/ Stop \/ Exit \/ Restart

Spec == Init /\ [][Next]_vars

\* Time passes, the worker runs, and the process is started again.
FairSpec ==
  Spec /\ WF_vars(Pass) /\ WF_vars(Round) /\ WF_vars(Exit) /\ WF_vars(Restart)
-----------------------------------------------------------------------------
(* Properties *)

\* The type invariant; a batch has no room for a device twice under one rule.
TypeOK ==
  /\ clock \in 0..MaxClock /\ since \in 0..(Interval - 1) /\ tick \in BOOLEAN
  /\ process \in {"up", "stopping", "down"}
  /\ pc \in {"wait", "rules", "rule", "device", "check"}
  /\ rules \in Seq(Rules) /\ ids \in Seq(Devices)
  /\ read \in Nat \union {NoTime}
  /\ batch \in Seq([rule : Rules, device : Devices, ts : Nat])
  /\ Len(batch) <= Cardinality(Pairs)
  /\ lastSeen \in [Devices -> Nat \union {NoTime}]
  /\ alerts \subseteq [rule : Rules, device : Devices, ts : Nat, round : Nat]
  /\ heard \subseteq [device : Devices, ts : 0..MaxClock, saved : 0..MaxClock]
  /\ start \in 0..MaxClock /\ expected \subseteq Pairs
  /\ failures \in 0..MaxFailures

\* An alert is raised by the round that stores it, for a rule with a gap, and the
\* device was silent for more than the gap less one second before it, but for
\* reports that were saved when the round was already going on.
AlertJustified ==
  \A a \in alerts :
    /\ a.ts >= a.round
    /\ Gap[a.rule] > 0
    /\ \A h \in Reports(a.device) :
         h.saved < a.round => a.ts - h.ts > (Gap[a.rule] - 1) * Second

\* One failed call costs its own rule or device at most: a round that ends without
\* dying stores an alert for every other rule and device that were overdue
\* when it began and have not reported since.
RoundCovers ==
  [][pc # "wait" /\ pc' = "wait" /\ process' # "down" =>
       \A p \in expected' :
         \E a \in alerts' : a.rule = p[1] /\ a.device = p[2] /\ a.round = start]_vars

\* A silent device is reported to each rule it is in the scope of, unless it
\* reports again, whatever calls failed and however often the process stopped.
SilenceReported ==
  \A p \in Pairs :
    Silent(p[1], p[2]) ~>
      \/ ~Silent(p[1], p[2])
      \/ \E a \in alerts : /\ a.rule = p[1] /\ a.device = p[2]
                           /\ Overdue(p[1], lastSeen[p[2]], a.ts)
=============================================================================
