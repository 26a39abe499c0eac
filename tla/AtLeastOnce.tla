---------------------------- MODULE AtLeastOnce ----------------------------
(***************************************************************************)
(* What a consumer with retries and a dead-letter queue promises: an       *)
(* envelope that was accepted stays pending until it was handled to the    *)
(* end at least once or is in the dead-letter queue.                       *)
(***************************************************************************)
CONSTANT Envelopes

VARIABLES
  pending,   \* envelopes some copy of which may still be handled
  done,      \* envelopes that were handled to the end
  dead       \* envelopes in the dead-letter queue

Init == pending = {} /\ done = {} /\ dead = {}

\* A producer hands the envelope over, perhaps again.
Accept(e) ==
  /\ pending' = pending \union {e}
  /\ UNCHANGED <<done, dead>>

\* An attempt to handle it succeeds.
Complete(e) ==
  /\ e \in pending
  /\ done' = done \union {e}
  /\ UNCHANGED <<pending, dead>>

\* It is given up on, visibly.
Bury(e) ==
  /\ e \in pending
  /\ dead' = dead \union {e}
  /\ UNCHANGED <<pending, done>>

\* The last copy goes away: allowed once the envelope is accounted for.
Leave(e) ==
  /\ e \in done \union dead
  /\ pending' = pending \ {e}
  /\ UNCHANGED <<done, dead>>

Next == \E e \in Envelopes : Accept(e) \/ Complete(e) \/ Bury(e) \/ Leave(e)

Spec == Init /\ [][Next]_<<pending, done, dead>>
=============================================================================
