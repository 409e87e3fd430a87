----------------------------- MODULE MCTimerDelay -----------------------------
(* Up to three tasks; words of 16 keep every deadline in one high word,     *)
(* words of 4 let deadlines cross it.                                       *)
EXTENDS TimerDelay, TLC

CONSTANTS a, b, c

ABC == {a, b, c}
AB == {a, b}
Nobody == {}
SamePrio == [t \in Tasks |-> 0]
Nested == (a :> 0) @@ (b :> 1)
TwoSteps == {3, 8}  \* two ticks, and five and a third
===============================================================================
