--------------------------- MODULE MCCountWindow ---------------------------
(***************************************************************************)
(* Instances of CountWindow for TLC.                                       *)
(***************************************************************************)
EXTENDS CountWindow, TLC

CONSTANTS m1, m2, m3, m4, m5, w1, w2

\* Matching messages can be exchanged for each other, and so can the others.
Symmetry ==
  Permutations(Matching) \union Permutations(Messages \ Matching)
    \union Permutations(Workers)
=============================================================================
