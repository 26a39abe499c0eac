----------------------------- MODULE MCDelivery -----------------------------
(***************************************************************************)
(* Instances of Delivery for TLC.                                          *)
(***************************************************************************)
EXTENDS Delivery, TLC

CONSTANTS e1, e2, w1, w2, c1, c2, c3, c4, c5

\* e1 yields an alert or none; e2 always fails.
OneAlertOrInvalid == (e1 :> {0, 1}) @@ (e2 :> {})

\* One envelope on which no, one or two rules fire.
UpToTwoAlerts == (e1 :> {0, 1, 2})

\* e1 always raises an alert.
AlwaysOneAlert == (e1 :> {1})

Symmetry == Permutations(Copies) \union Permutations(Workers)
=============================================================================
