------------------------------- MODULE MCKernel -------------------------------
(* Three tasks at three priorities (or two), seen by the kernel as the     *)
(* applications named below.                                               *)
EXTENDS Kernel, TLC

CONSTANTS hi, mid, lo

MCTasks == {hi, mid, lo}
HiLo == {hi, lo}
OnlyHi == {hi}
OnlyLo == {lo}
HiMid == {hi, mid}
MidLo == {mid, lo}
None == {}

(* One fixed priority per task, as every application of apps/ spawns them. *)
Own == (hi :> {0}) @@ (mid :> {1}) @@ (lo :> {2})
TwoLevels == (hi :> {0}) @@ (mid :> {1}) @@ (lo :> {1})
OwnHiLo == (hi :> {0}) @@ (lo :> {1})
(* hi may be spawned at either of two. *)
AnyPrio == (hi :> {0, 1}) @@ (mid :> {0}) @@ (lo :> {1})

(* Wakes up and down, and of the task itself.  hi, which completes, is not *)
(* woken by a task it can preempt.                                         *)
WakesMost == {<<lo, mid>>, <<hi, mid>>, <<hi, lo>>, <<mid, lo>>, <<mid, mid>>}
(* mid wakes the task that awaits it, lo its equal. *)
WakesUp == {<<mid, hi>>, <<lo, mid>>}

(* The tasks that spawn hi are less urgent. *)
SpawnsUp == {<<lo, hi>>, <<mid, hi>>}
(* hi awaits mid, less urgent, and mid awaits lo, equally urgent. *)
SpawnsDown == {<<hi, mid>>, <<mid, lo>>}
(* hi awaits both others. *)
HiJoins == {<<hi, mid>>, <<hi, lo>>}
LoHi == {<<lo, hi>>}
HiLoPair == {<<hi, lo>>}
SpawnsLo == {<<hi, lo>>, <<mid, lo>>}
MidLoPair == {<<mid, lo>>}
===============================================================================
