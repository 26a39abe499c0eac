----------------------------- MODULE TimeWindow -----------------------------
(***************************************************************************)
(* Continuous rules over a time window.  For one rule, metric and device   *)
(* the measurements that match are members of a sorted set in Redis, scored *)
(* by their timestamp in seconds; evalTimeWindow adds its measurement,     *)
(* prunes what is older than the window, counts and, when the rule         *)
(* triggers, deletes the set: four calls, between which other workers may  *)
(* make theirs.                                                            *)
(*                                                                         *)
(* A measurement that does not match touches nothing and is left out.  A   *)
(* member is named after the device and the timestamp in nanoseconds, taken *)
(* to be different for different messages; a retry adds the same member.   *)
(***************************************************************************)
EXTENDS Integers, FiniteSets

CONSTANTS
  Messages,     \* messages for the device whose measurement matches
  Times,        \* the timestamps, in seconds, a message may have
  Span,         \* window.size, in seconds
  Required,     \* window.required_matches
  Workers,      \* worker goroutines
  NoMessage,    \* the job of a worker that has none
  Faults,       \* "state": calls on the set fail; "reply": one that took effect
                \* fails; "expire": the key is gone, two windows after an add
  MaxAttempts   \* RABBIT_RETRY_MAX_ATTEMPTS

ASSUME TimeWindowAssumption ==
  /\ Times \subseteq Nat
  /\ Span \in Nat \ {0}
  /\ Required \in Nat \ {0}
  /\ NoMessage \notin Messages
  /\ Faults \subseteq {"state", "reply", "expire"}
  /\ MaxAttempts \in Nat

VARIABLES
  ts,       \* ts[m]: the timestamp of m
  queue,    \* messages to be handled
  attempt,  \* attempt[m]: the x-retry-count of m
  members,  \* the sorted set in Redis
  pc,       \* pc[w]: the next call of worker w
  job,      \* job[w]: the message w handles
  counted,  \* counted[w]: the members w counted when it triggered
  handled,  \* history: the messages handled without an error
  silent,   \* history: no alert was raised and the set was never lost, expired
            \* or deleted by a call whose reply did not come
  orderly,  \* history: messages came in the order of their timestamps, one when
            \* the one before was handled, none twice, and the set was not lost
  alerts    \* history, while orderly: for each alert its message and the members
            \* counted

vars == <<ts, queue, attempt, members, pc, job, counted, handled, silent,
          orderly, alerts>>

\* The calls of evalTimeWindow.
Calls == {"add", "prune", "count", "delete"}
-----------------------------------------------------------------------------
(* evalTimeWindow *)

\* MUTANT of Pruned: the cut-off is the timestamp itself.
PrunedAll(m, S) == {n \in S : ts[n] <= ts[m]}

\* What ZRemRangeByScore removes for m: scores up to and with its timestamp
\* less the window.
Pruned(m, S) == {n \in S : ts[n] <= ts[m] - Span}

\* MUTANT of Enough: more than the required matches.
EnoughAbove(S) == Cardinality(S) > Required

Enough(S) == Cardinality(S) >= Required

Goto(w, step) == pc' = [pc EXCEPT ![w] = step]

\* Whether retryOrDlq gives up on m.
Exhausted(m) == attempt[m] + 1 > MaxAttempts

\* MUTANT of After: the members stay when the rule triggers.
AfterKept(w) ==
  CASE pc[w] = "add"   -> members \union {job[w]}
    [] pc[w] = "prune" -> members \ Pruned(job[w], members)
    [] OTHER           -> members

\* The set once the call of worker w took effect.  A delete takes all of it, with
\* what was added since it was counted.
After(w) ==
  CASE pc[w] = "add"    -> members \union {job[w]}
    [] pc[w] = "prune"  -> members \ Pruned(job[w], members)
    [] pc[w] = "count"  -> members
    [] pc[w] = "delete" -> {}

\* It is the turn of m: what was begun has ended and is not later than m.
Turn(m) ==
  /\ attempt[m] = 0
  /\ \A w \in Workers : pc[w] = "idle"
  /\ \A n \in Messages : n \notin queue \/ attempt[n] > 0 => ts[n] <= ts[m]

\* The alerts become A, if that step keeps the order.
Record(ok, A) ==
  /\ orderly' = (orderly /\ ok)
  /\ alerts'  = IF orderly' THEN A ELSE {}
-----------------------------------------------------------------------------
Init ==
  /\ ts     \in [Messages -> Times]
  /\ queue   = Messages
  /\ attempt = [m \in Messages |-> 0]
  /\ members = {}
  /\ pc      = [w \in Workers |-> "idle"]
  /\ job     = [w \in Workers |-> NoMessage]
  /\ counted = [w \in Workers |-> {}]
  /\ handled = {}
  /\ silent  = TRUE
  /\ orderly = TRUE
  /\ alerts  = {}

Take(w) ==
  /\ pc[w] = "idle"
  /\ \E m \in queue :
       /\ job'     = [job EXCEPT ![w] = m]
       /\ queue'   = queue \ {m}
       /\ Record(Turn(m), alerts)
  /\ Goto(w, "add")
  /\ UNCHANGED <<ts, attempt, members, counted, handled, silent>>

AddToTimeWindow(w) ==
  /\ pc[w] = "add"
  /\ members' = After(w)
  /\ Goto(w, "prune")
  /\ UNCHANGED <<ts, queue, attempt, job, counted, handled, silent, orderly,
                 alerts>>

PruneTimeWindow(w) ==
  /\ pc[w] = "prune"
  /\ members' = After(w)
  /\ Goto(w, "count")
  /\ UNCHANGED <<ts, queue, attempt, job, counted, handled, silent, orderly,
                 alerts>>

\* Worker w is done with its message.
Release(w) ==
  /\ Goto(w, "idle")
  /\ job'     = [job EXCEPT ![w] = NoMessage]
  /\ counted' = [counted EXCEPT ![w] = {}]

CountTimeWindow(w) ==
  /\ pc[w] = "count"
  /\ IF Enough(members)
     THEN /\ Goto(w, "delete")
          /\ counted' = [counted EXCEPT ![w] = members]
          /\ UNCHANGED <<job, handled>>
     ELSE /\ Release(w)
          /\ handled' = handled \union {job[w]}
  /\ UNCHANGED <<ts, queue, attempt, members, silent, orderly, alerts>>

DeleteTimeWindow(w) ==
  /\ pc[w] = "delete"
  /\ members' = After(w)
  /\ Record(TRUE, alerts \union {[by |-> job[w], of |-> counted[w]]})
  /\ silent'  = FALSE
  /\ handled' = handled \union {job[w]}
  /\ Release(w)
  /\ UNCHANGED <<ts, queue, attempt>>

\* A call fails, perhaps once it took effect: the message is retried, or given up
\* on.  What was done stays.
Fail(w) ==
  /\ pc[w] \in Calls
  /\ \/ "state" \in Faults /\ UNCHANGED <<members, silent, orderly, alerts>>
     \/ /\ "reply" \in Faults
        /\ members' = After(w)
        /\ silent' = (silent /\ pc[w] # "delete")
        /\ Record(pc[w] # "delete", alerts)
  /\ IF Exhausted(job[w])
     THEN UNCHANGED <<queue, attempt>>
     ELSE /\ queue'   = queue \union {job[w]}
          /\ attempt' = [attempt EXCEPT ![job[w]] = @ + 1]
  /\ Release(w)
  /\ UNCHANGED <<ts, handled>>

Expire ==
  /\ "expire" \in Faults
  /\ members # {}
  /\ members' = {}
  /\ silent' = FALSE
  /\ Record(FALSE, alerts)
  /\ UNCHANGED <<ts, queue, attempt, pc, job, counted, handled>>

Next ==
  \/ \E w \in Workers :
       \/ Take(w) \/ AddToTimeWindow(w) \/ PruneTimeWindow(w)
       \/ CountTimeWindow(w) \/ DeleteTimeWindow(w) \/ Fail(w)
  \/ Expire

Spec == Init /\ [][Next]_vars
-----------------------------------------------------------------------------
(* Properties *)

\* The type invariant.
TypeOK ==
  /\ ts      \in [Messages -> Times]
  /\ queue   \subseteq Messages
  /\ attempt \in [Messages -> 0..MaxAttempts]
  /\ members \subseteq Messages
  /\ pc      \in [Workers -> Calls \union {"idle"}]
  /\ job     \in [Workers -> Messages \union {NoMessage}]
  /\ counted \in [Workers -> SUBSET Messages]
  /\ handled \subseteq Messages
  /\ silent  \in BOOLEAN
  /\ orderly \in BOOLEAN
  /\ alerts  \subseteq [by : Messages, of : SUBSET Messages]

\* The measurements of the window that ends with m.
WindowOf(m) == {n \in Messages : ts[m] - Span < ts[n] /\ ts[n] <= ts[m]}

\* As long as messages are handled in order, an alert is raised for measurements
\* of one window only, the one that ends with the measurement that raised it, and
\* none of them serves for two alerts; checked with the type invariant.
AlertsSeparate ==
  /\ TypeOK
  /\ orderly =>
       /\ \A a \in alerts : a.of \subseteq WindowOf(a.by)
       /\ \A a, b \in alerts : a # b => a.of \intersect b.of = {}

\* Nor is an alert missed: when as many measurements of a window were handled as the
\* rule requires, some of them belong to an alert.
NoMissedWindow ==
  orderly =>
    \A m \in handled :
      Cardinality(WindowOf(m) \intersect handled) >= Required =>
        \E a \in alerts : a.of \intersect WindowOf(m) # {}

\* Whatever the workers' calls interleave to, and whatever is late, measurements
\* that all lie in one window have raised an alert once enough of them were handled,
\* unless the set expired or the reply of a delete was lost.
SomeAlert ==
  /\ \A m, n \in Messages : ts[m] < ts[n] + Span
  /\ Cardinality(handled) >= Required
  => ~silent
=============================================================================
