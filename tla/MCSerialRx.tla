------------------------------ MODULE MCSerialRx ------------------------------
(* A ring of four and a UART FIFO of two: a burst can fill the ring, wrap  *)
(* either index and be cut short.                                          *)
EXTENDS SerialRx, TLC

CONSTANTS r1, r2

OneReader == {r1}
TwoReaders == {r1, r2}
SamePrio == [r \in Readers |-> 0]
Nested == (r1 :> 0) @@ (r2 :> 1)
===============================================================================
