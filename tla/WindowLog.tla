----------------------------- MODULE WindowLog -----------------------------
(***************************************************************************)
(* What a continuous rule over a count window promises, told from the log  *)
(* of the measurements of one rule, metric and device: a measurement that  *)
(* completes Size measurements since the last alert, Required of which     *)
(* match, raises an alert for them.                                        *)
(***************************************************************************)
EXTENDS Naturals, Sequences, FiniteSets

CONSTANTS
  Messages,  \* the messages, each with one measurement for the rule
  Matching,  \* those whose value meets the condition of the rule
  Size,      \* window.size
  Required   \* window.required_matches

VARIABLES
  log,   \* the measurements, in the order in which they were counted
  cut,   \* how many of them the last alert ended
  raised \* the alerts: each the sequence of measurements it was raised for

\* The last Size measurements of l, none from before the first c.
Recent(l, c) ==
  SubSeq(l, (IF Len(l) > c + Size THEN Len(l) - Size ELSE c) + 1, Len(l))

Matches(window) == Cardinality({i \in DOMAIN window : window[i] \in Matching})

Init == log = <<>> /\ cut = 0 /\ raised = {}

Count(m) ==
  LET l == Append(log, m)
      window == Recent(l, cut)
  IN
  /\ log' = l
  /\ IF Len(window) = Size /\ Matches(window) >= Required
     THEN cut' = Len(l) /\ raised' = raised \union {window}
     ELSE UNCHANGED <<cut, raised>>

\* Each message is counted once.
Next ==
  \E m \in Messages : (\A i \in DOMAIN log : log[i] # m) /\ Count(m)

Spec == Init /\ [][Next]_<<log, cut, raised>>
=============================================================================
