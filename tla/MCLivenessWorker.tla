-------------------------- MODULE MCLivenessWorker --------------------------
(***************************************************************************)
(* Instances of LivenessWorker for TLC.                                    *)
(***************************************************************************)
EXTENDS LivenessWorker

CONSTANTS all, one, none, d1

\* A rule without a gap, one of one second and one of two, all for one device.
ThreeRules == <<none, all, one>>
ThreeGaps   == (none :> 0) @@ (all :> 1) @@ (one :> 2)
OneScopes   == (none :> <<d1>>) @@ (all :> <<d1>>) @@ (one :> <<d1>>)
=============================================================================
