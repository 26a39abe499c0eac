------------------------------ MODULE MCBroker ------------------------------
(***************************************************************************)
(* Instances of Broker for TLC.                                            *)
(***************************************************************************)
EXTENDS Broker

CONSTANTS m1, m2

\* No header, or one that is no number; a count that came as text; a negative one.
SomeHeaders == {[kind |-> "other",  value |-> 0],
                [kind |-> "text",   value |-> 1],
                [kind |-> "number", value |-> -1]}
=============================================================================
