---------------------------- MODULE MCTimeWindow ----------------------------
(***************************************************************************)
(* Instances of TimeWindow for TLC.                                        *)
(***************************************************************************)
EXTENDS TimeWindow, TLC

CONSTANTS m1, m2, m3, m4, w1, w2

Symmetry == Permutations(Messages) \union Permutations(Workers)
=============================================================================
