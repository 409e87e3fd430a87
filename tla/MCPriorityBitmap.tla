--------------------------- MODULE MCPriorityBitmap ---------------------------
(* Priorities on both sides of every group boundary of a 3-group bitmap. *)
EXTENDS PriorityBitmap

MCPrios == {0, 1, 63, 64, 65, 127, 128, 191}
===============================================================================
