-------------------------------- MODULE MCTrap --------------------------------
(***************************************************************************)
(* Trap with the smallest stack its bounds allow.                          *)
(***************************************************************************)
EXTENDS Trap
MCStackTop == (N + 2) * (35 + Locals)
===============================================================================
