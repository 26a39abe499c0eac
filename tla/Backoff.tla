------------------------------ MODULE Backoff ------------------------------
(***************************************************************************)
(* How long a message waits for its next attempt, and how many it had:     *)
(* NextRetryDelay and RetryCount of the RabbitMQ client.                   *)
(*                                                                         *)
(* Time is counted in a unit of which the delays are multiples, and the    *)
(* factor of the jitter in steps of 1/Grain: the operators return the set  *)
(* of the results the random number may give.                              *)
(***************************************************************************)
EXTENDS Integers

CONSTANTS
  BaseDelay,  \* RABBIT_RETRY_BASE_DELAY
  MaxDelay,   \* RABBIT_RETRY_MAX_DELAY
  Jitter,     \* RABBIT_RETRY_JITTER, in steps of 1/Grain
  Grain,
  MaxInt      \* the largest time.Duration

\* With a jitter of one the factor may be zero.
ASSUME BackoffAssumption ==
  /\ Grain \in Nat \ {0}
  /\ Jitter \in Int /\ Jitter < Grain
  /\ MaxInt \in Nat
  /\ BaseDelay \in 1..MaxInt
  /\ MaxDelay \in 1..MaxInt
  /\ \A d \in {BaseDelay, MaxDelay} : d * (Grain - Jitter) >= Grain

\* What a header holds: a number, a text that is one, or something else.
IsHeader(h) == h.kind \in {"number", "text", "other"} /\ h.value \in Int

\* MUTANT of RetryCount: a count that came as text is not read.
RetryCountTyped(h) == IF h.kind = "number" THEN h.value ELSE 0

RetryCount(h) == IF h.kind = "other" THEN 0 ELSE h.value

\* The bounds the code puts on the attempt and the jitter it is given.
Attempt(n) == IF n < 1 THEN 1 ELSE n
Spread     == IF Jitter < 0 THEN 0 ELSE Jitter

\* The product is a float64; what one past the range of a Duration becomes
\* depends on the machine: the largest value or the smallest.
Doubled(n) ==
  LET d == BaseDelay * 2^(Attempt(n) - 1)
  IN  IF d <= MaxInt THEN {d} ELSE {MaxInt, -MaxInt - 1}

\* MUTANT of Capped: the delay is not cut.
Uncapped(d) == d

Capped(d) == IF d > MaxDelay THEN MaxDelay ELSE d

Jittered(d) == {(d * f) \div Grain : f \in Grain - Spread..Grain + Spread}

\* MUTANT of NextRetryDelay: a product that wrapped around is not replaced.
NextRetryDelayWrapped(n) == UNION {Jittered(Capped(d)) : d \in Doubled(n)}

NextRetryDelay(n) ==
  UNION {IF Capped(d) <= 0 THEN {BaseDelay} ELSE Jittered(Capped(d)) :
           d \in Doubled(n)}

\* The longest delay there is.
Longest ==
  LET most == (MaxDelay * (Grain + Spread)) \div Grain
  IN  IF most > BaseDelay THEN most ELSE BaseDelay
=============================================================================
