----------------------------- MODULE MCAsyncMutex -----------------------------
(* Up to four tasks, with room for all but the holder, in the roles a       *)
(* configuration gives them.                                               *)
EXTENDS AsyncMutex, TLC

CONSTANTS t1, t2, t3, t4

Four == {t1, t2, t3, t4}
Three == {t1, t2, t3}
Nobody == {}
===============================================================================
