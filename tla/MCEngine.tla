------------------------------ MODULE MCEngine ------------------------------
(***************************************************************************)
(* Instances of Engine for TLC.                                            *)
(***************************************************************************)
EXTENDS Engine

CONSTANTS e1, e2, e3, d1, d2, t, h

\* Two messages of one device and one of another.  No instant rule fires on e2.
Devices == [m \in Messages |-> IF m = e3 THEN d2 ELSE d1]
Places  == [d \in {d1, d2} |-> IF d = d2 THEN {"indoor"} ELSE {"roof"}]
Values  == [m \in Messages |->
              IF m = e2 THEN [x \in {t} |-> 1]
              ELSE [x \in {t, h} |-> IF m = e1 /\ x = h THEN 1 ELSE 2]]

Any == [enabled |-> TRUE, metrics |-> {t, h}, tags |-> {}, on |-> AnyMetric,
        op |-> ">=", threshold |-> 2, type |-> "instant", kind |-> "count",
        size |-> 2, required |-> 1]

\* An instant rule, a count and a time window, and an inactivity rule that has no
\* condition and applies to one device.
Documents ==
  [r \in Rules |->
     CASE r = "hot"   -> [Any EXCEPT !.on = t]
       [] r = "often" -> [Any EXCEPT !.type = "continuous", !.metrics = {t}]
       [] r = "late"  -> [Any EXCEPT !.type = "continuous", !.kind = "time",
                                     !.tags = {"roof"}, !.metrics = {h}]
       [] r = "quiet" -> [Any EXCEPT !.type = "inactivity", !.op = "",
                                     !.tags = {"indoor"}]
       [] r = "off"   -> [Any EXCEPT !.enabled = FALSE, !.op = ""]]
=============================================================================
