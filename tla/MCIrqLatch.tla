------------------------------ MODULE MCIrqLatch ------------------------------
(* Four sources on the two sides of both word boundaries, the middle two   *)
(* in one enable word.  One has a latch, registered as handler or not, the *)
(* others never have a handler.                                            *)
EXTENDS IrqLatch, TLC

FourIrqs == {31, 32, 63, 64}
OneLatch == {32}
===============================================================================
