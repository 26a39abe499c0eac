----------------------------- MODULE MCPipeline -----------------------------
(***************************************************************************)
(* Instances of Pipeline for TLC.                                          *)
(***************************************************************************)
EXTENDS Pipeline, TLC

CONSTANTS a, b, c, d1, d2, w, h, i

\* d1 sends over HTTP, d2 over MQTT.
TwoDevices == (a :> d1) @@ (b :> d1) @@ (c :> d2)
TwoScripts == (d1 :> <<a, b>>) @@ (d2 :> <<c>>)

\* The goroutines of requests are alike.
Alike == Permutations(Handlers)
=============================================================================
