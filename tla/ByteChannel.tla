------------------------------ MODULE ByteChannel ------------------------------
(***************************************************************************)
(* What interrupt-driven reception promises: a FIFO of at most Capacity    *)
(* bytes.  The interrupt handler adds what has arrived, dropping bytes     *)
(* that do not fit, and each read takes the oldest byte.                   *)
(***************************************************************************)
EXTENDS Naturals, Sequences

CONSTANTS Bytes, Capacity, Burst

VARIABLES chan,   \* the bytes received and not read
          out     \* the last byte read

Take(s, n) == SubSeq(s, 1, IF n < Len(s) THEN n ELSE Len(s))

Init == chan = <<>> /\ out \in Bytes

(* One interrupt: a burst of bytes, as many of them as fit. *)
Receive ==
  \E n \in 1 .. Burst : \E burst \in [1 .. n -> Bytes] :
    /\ chan' = chan \o Take(burst, Capacity - Len(chan))
    /\ UNCHANGED out

Read ==
  /\ chan # <<>>
  /\ out' = Head(chan)
  /\ chan' = Tail(chan)

Next == Receive \/ Read

Spec == Init /\ [][Next]_<<chan, out>>
===============================================================================
