------------------------------- MODULE ReadySet -------------------------------
(***************************************************************************)
(* What the scheduler needs from its ready bitmap: a set of priorities     *)
(* with add, remove, a query for the numerically smallest (most urgent)    *)
(* member, and membership and emptiness tests.  PriorityBitmap implements  *)
(* it (modules/executor/src/priority_bitmap.rs).                           *)
(***************************************************************************)
EXTENDS Integers, FiniteSetsExt

CONSTANT Prios     \* the priorities the callers use

VARIABLES ready,   \* the set of priorities marked ready
          out,     \* the priority the last Peek or TakeUrgent returned
          flag     \* the answer of the last Test or TestEmpty

vars == <<ready, out, flag>>

None == -1         \* "no priority is ready"

Init == ready = {} /\ out = None /\ flag = FALSE

Mark(p) == ready' = ready \cup {p} /\ UNCHANGED <<out, flag>>

Unmark(p) == ready' = ready \ {p} /\ UNCHANGED <<out, flag>>

(* The most urgent ready priority, if there is one. *)
Urgent == IF ready = {} THEN None ELSE Min(ready)

Peek == out' = Urgent /\ UNCHANGED <<ready, flag>>

TakeUrgent == out' = Urgent /\ ready' = ready \ {Urgent} /\ UNCHANGED flag

Test(p) == flag' = (p \in ready) /\ UNCHANGED <<ready, out>>

TestEmpty == flag' = (ready = {}) /\ UNCHANGED <<ready, out>>

Reset == ready' = {} /\ UNCHANGED <<out, flag>>

Next ==
  \/ \E p \in Prios : Mark(p) \/ Unmark(p) \/ Test(p)
  \/ Peek \/ TakeUrgent \/ TestEmpty \/ Reset

Spec == Init /\ [][Next]_vars
===============================================================================
