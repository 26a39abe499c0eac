---------------------------- MODULE MCIngestion ----------------------------
(***************************************************************************)
(* Instances of Ingestion for TLC.                                         *)
(***************************************************************************)
EXTENDS Ingestion, TLC

CONSTANTS a, b, c, d1, d2, w, h

\* Two devices; d1 sends two events.
TwoDevices == (a :> d1) @@ (b :> d1) @@ (c :> d2)
=============================================================================
