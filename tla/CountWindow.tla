---------------------------- MODULE CountWindow ----------------------------
(***************************************************************************)
(* Continuous rules over a count window.  The workers of rule_engine       *)
(* handle messages concurrently; for one rule, metric and device they share *)
(* a state in Redis, which evalCountWindow reads, extends and writes back  *)
(* with two calls and nothing between them to keep the others out.         *)
(*                                                                         *)
(* The window in the code is a list of zeros and ones; here it is the list *)
(* of the messages they stand for.  ConsecutiveCount and LastTS are        *)
(* written and never read, and a missing key reads as the empty state.     *)
(***************************************************************************)
EXTENDS Naturals, Sequences, FiniteSets

CONSTANTS
  Messages,     \* messages for the device, with one measurement for the rule
  Matching,     \* those whose value meets the condition of the rule
  Size,         \* window.size
  Required,     \* window.required_matches
  Workers,      \* worker goroutines
  NoMessage,    \* the job of a worker that has none
  Faults,       \* "state": calls on the window state fail; "later": something
                \* fails once it was written, its reply, another rule or
                \* SaveAlerts; "expire": the hour of the key passes
  MaxAttempts   \* RABBIT_RETRY_MAX_ATTEMPTS

ASSUME CountWindowAssumption ==
  /\ Matching \subseteq Messages
  /\ Size \in Nat \ {0}      \* evaluateContinuous refuses other windows
  /\ Required \in Nat \ {0}
  /\ NoMessage \notin Messages
  /\ Faults \subseteq {"state", "later", "expire"}
  /\ MaxAttempts \in Nat

VARIABLES
  queue,    \* messages to be handled, now or after a delay
  attempt,  \* attempt[m]: the x-retry-count of m
  window,   \* WindowValues in Redis
  pc,       \* pc[w]: the next step of worker w
  job,      \* job[w]: the message w handles
  read,     \* read[w]: the window w has read
  raised,   \* history: the windows that triggered
  orderly,  \* history: workers never overlapped between reading and writing, no
            \* message was retried once counted, and the key never expired
  log,      \* history, while orderly: the messages counted, in that order
  cut       \* history, while orderly: the length of log at the last alert

vars == <<queue, attempt, window, pc, job, read, raised, orderly, log, cut>>
-----------------------------------------------------------------------------
(* evalCountWindow *)

\* MUTANT of Extended: the window keeps its oldest values.
ExtendedKeepsFirst(win, m) ==
  LET longer == Append(win, m)
  IN  IF Len(longer) > Size THEN SubSeq(longer, 1, Size) ELSE longer

\* The window with the value of m, cut to its last Size values.
Extended(win, m) ==
  LET longer == Append(win, m)
  IN  IF Len(longer) > Size
      THEN SubSeq(longer, Len(longer) - Size + 1, Len(longer))
      ELSE longer

\* sum(WindowValues)
Matches(win) == Cardinality({i \in DOMAIN win : win[i] \in Matching})

\* MUTANTS of Triggered: more than the required matches; one fewer.
TriggeredAbove(win) == Len(win) >= Size /\ Matches(win) > Required
TriggeredEarly(win) == Len(win) >= Size /\ Matches(win) + 1 >= Required

Triggered(win) == Len(win) >= Size /\ Matches(win) >= Required

\* Whether retryOrDlq gives up on m.
Exhausted(m) == attempt[m] + 1 > MaxAttempts

\* The log becomes l and its last cut c, if that step keeps the order.
Record(ok, l, c) ==
  /\ orderly' = (orderly /\ ok)
  /\ log' = IF orderly' THEN l ELSE <<>>
  /\ cut' = IF orderly' THEN c ELSE 0
-----------------------------------------------------------------------------
Init ==
  /\ queue   = Messages
  /\ attempt = [m \in Messages |-> 0]
  /\ window  = <<>>
  /\ pc      = [w \in Workers |-> "idle"]
  /\ job     = [w \in Workers |-> NoMessage]
  /\ read    = [w \in Workers |-> <<>>]
  /\ raised  = {}
  /\ orderly = TRUE
  /\ log     = <<>>
  /\ cut     = 0

Take(w) ==
  /\ pc[w] = "idle"
  /\ \E m \in queue :
       /\ job'   = [job EXCEPT ![w] = m]
       /\ queue' = queue \ {m}
  /\ pc' = [pc EXCEPT ![w] = "get"]
  /\ UNCHANGED <<attempt, window, read, raised, orderly, log, cut>>

GetRuleState(w) ==
  /\ pc[w] = "get"
  /\ read' = [read EXCEPT ![w] = window]
  /\ pc'   = [pc EXCEPT ![w] = "set"]
  /\ Record(\A v \in Workers : pc[v] # "set", log, cut)
  /\ UNCHANGED <<queue, attempt, window, job, raised>>

\* The state computed from what was read is written over whatever is there; a
\* window that triggers is reset.
SetRuleState(w) ==
  LET next == Extended(read[w], job[w])
  IN
  /\ pc[w] = "set"
  /\ window' = IF Triggered(next) THEN <<>> ELSE next
  /\ raised' = IF Triggered(next) THEN raised \union {next} ELSE raised
  /\ Record(TRUE, Append(log, job[w]),
            IF Triggered(next) THEN Len(log) + 1 ELSE cut)
  /\ read' = [read EXCEPT ![w] = <<>>]
  /\ pc'   = [pc EXCEPT ![w] = "finish"]
  /\ UNCHANGED <<queue, attempt, job>>

\* The other rules are evaluated, the alerts saved and the message acknowledged.
Finish(w) ==
  /\ pc[w] = "finish"
  /\ pc'  = [pc EXCEPT ![w] = "idle"]
  /\ job' = [job EXCEPT ![w] = NoMessage]
  /\ UNCHANGED <<queue, attempt, window, read, raised, orderly, log, cut>>

\* An error makes Handle publish the message to be retried, or give up on it.
\* What was written to Redis stays.
Fail(w) ==
  /\ \/ pc[w] \in {"get", "set"} /\ "state" \in Faults
     \/ pc[w] = "finish" /\ "later" \in Faults
  /\ IF Exhausted(job[w])
     THEN UNCHANGED <<queue, attempt>>
     ELSE /\ queue'   = queue \union {job[w]}
          /\ attempt' = [attempt EXCEPT ![job[w]] = @ + 1]
  /\ pc'   = [pc EXCEPT ![w] = "idle"]
  /\ job'  = [job EXCEPT ![w] = NoMessage]
  /\ read' = [read EXCEPT ![w] = <<>>]
  /\ Record(pc[w] # "finish", log, cut)
  /\ UNCHANGED <<window, raised>>

\* An hour without a write: the key is gone.
Expire ==
  /\ "expire" \in Faults
  /\ window # <<>>
  /\ window' = <<>>
  /\ Record(FALSE, log, cut)
  /\ UNCHANGED <<queue, attempt, pc, job, read, raised>>

Next ==
  \/ \E w \in Workers :
       Take(w) \/ GetRuleState(w) \/ SetRuleState(w) \/ Finish(w) \/ Fail(w)
  \/ Expire

Spec == Init /\ [][Next]_vars
-----------------------------------------------------------------------------
(* Properties *)

\* The type invariant.
TypeOK ==
  /\ queue   \subseteq Messages
  /\ attempt \in [Messages -> 0..MaxAttempts]
  /\ window  \in Seq(Messages)
  /\ pc      \in [Workers -> {"idle", "get", "set", "finish"}]
  /\ job     \in [Workers -> Messages \union {NoMessage}]
  /\ read    \in [Workers -> Seq(Messages)]
  /\ raised  \subseteq Seq(Messages)
  /\ orderly \in BOOLEAN
  /\ log     \in Seq(Messages)
  /\ cut     \in 0..Len(log)

\* An alert is backed by as many different matching measurements as the rule
\* requires, also when workers overwrite each other's windows, unless one of them
\* came twice because its message was retried; checked with the type invariant.
AlertBacked ==
  /\ TypeOK
  /\ \A alert \in raised :
       \/ Cardinality({alert[i] : i \in DOMAIN alert} \intersect Matching) >= Required
       \/ \E i \in DOMAIN alert : attempt[alert[i]] > 0

\* As long as workers do not overlap and nothing is counted twice, no alert is
\* missed: of any Size consecutive measurements with the required matches, some
\* belong to an alert.
NoMissedWindow ==
  orderly =>
    \A i \in Size..Len(log) :
      LET last == SubSeq(log, i - Size + 1, i)
      IN  Matches(last) >= Required =>
            \E alert \in raised :
              {alert[j] : j \in DOMAIN alert} \intersect
                {last[j] : j \in DOMAIN last} # {}

\* Workers that do not overlap between reading and writing keep exactly the window
\* that the log of measurements defines, and so raise exactly its alerts, of which
\* no two share a measurement.
Reference == INSTANCE WindowLog
  WITH log <- log, cut <- cut, raised <- raised
ImplementsWindowLog ==
  Reference!Init /\ [][orderly' => Reference!Next]_<<log, cut, raised>>
=============================================================================
