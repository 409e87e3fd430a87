------------------------------- MODULE KernelInv -------------------------------
(* The inductive invariants behind the theorems of Kernel_proofs, one      *)
(* group per part: types and the priority stack, the pending interrupt,    *)
(* the run queues and the wakes they carry, the life of a task from spawn  *)
(* to completion, the handles of awaited tasks, and the wake of a joiner.  *)
EXTENDS Kernel

(* What a frame in the middle of a call holds. *)
FrameOK ==
  \A p \in Prio :
    /\ pc[p] \in InWake \cup InSpawn => arg[p] \in Tasks /\ to[p] \in Prio
    /\ pc[p] = "j_store" => arg[p] \in Tasks
    /\ pc[p] \notin {"off", "loop", "returned"} => polling[p] \in Tasks

(* The stack is strictly more urgent towards the top, holds the priorities *)
(* with a frame, and by counting down from N - 1 cannot outgrow N.         *)
StackOK ==
  /\ \A i, j \in 1 .. Len(prio_stack) : i < j => prio_stack[j] < prio_stack[i]
  /\ OnStack = {p \in Prio : pc[p] # "off"}
  /\ \A i \in 1 .. Len(prio_stack) : prio_stack[i] + i <= N

FrameInv == FrameType /\ FrameOK /\ StackOK
IInv == SlotType /\ QueueType /\ JoinType /\ PendingType /\ FrameInv

-------------------------------------------------------------------------------
(* The strengthening: a frame between the two halves of pend() relies on   *)
(* its marker only while no MachineSoft has consumed it, and a MachineSoft *)
(* that does consume it schedules whatever is ready.                       *)
PendOK ==
  ShouldPend =>
    \/ marker /\ msip
    \/ /\ prio_stack # <<>>
       /\ \/ pc[Top(prio_stack)] \in {"mark", "s_pend"}
          \/ pc[Top(prio_stack)] = "send" /\ marker

-------------------------------------------------------------------------------
(* Task t is a node of some run queue of rq. *)
LinkedIn(rq, t) == \E p \in Prio : \E i \in 1 .. Len(rq[p]) : rq[p][i] = t

(* No task is twice in the run queues of rq. *)
DistinctIn(rq) ==
  \A p, q \in Prio : \A i \in 1 .. Len(rq[p]), j \in 1 .. Len(rq[q]) :
    rq[p][i] = rq[q][j] => p = q /\ i = j

(* The frame of p won the fetch_or and has yet to push. *)
Pushing(p) == pc[p] \in {"wake_push", "s_push"}

(* RUN_QUEUED is the right to push: its one holder is the list, or the one *)
(* frame between fetch_or and push.                                        *)
LinkOK ==
  /\ DistinctIn(run_queue)
  /\ \A p, q \in Prio : Pushing(p) /\ Pushing(q) /\ arg[p] = arg[q] => p = q
  /\ \A p \in Prio : Pushing(p) => ~LinkedIn(run_queue, arg[p])
  /\ \A t \in Tasks :
       t \in run_queued <=> LinkedIn(run_queue, t) \/ \E p \in Prio : Pushing(p) /\ arg[p] = t

(* main() never spawns a task that has completed: nothing has run yet. *)
BootOK == ~started => run_queued \subseteq spawned

(* A wake survives as RUN_QUEUED, or as the poll that is about to begin. *)
OwedOK ==
  \A t \in owed : t \in run_queued \/ \E p \in Prio : pc[p] = "dequeued" /\ polling[p] = t

-------------------------------------------------------------------------------
(* The discipline under which respawning a completed task is safe: a task  *)
(* has one priority, and a task that may complete is woken by futures only *)
(* from priorities that it cannot preempt, and spawned by futures only     *)
(* from less urgent ones.  Interrupt handlers may wake any task.           *)
Disciplined ==
  /\ \A t \in Tasks : \A p, q \in SpawnPrios[t] : p = q
  /\ \A t, u \in Tasks : <<t, u>> \in Wakes /\ u \in Finite =>
       \A p \in SpawnPrios[t], q \in SpawnPrios[u] : p <= q
  /\ \A t, u \in Tasks : <<t, u>> \in Spawns /\ u \in Finite =>
       \A p \in SpawnPrios[t], q \in SpawnPrios[u] : q < p

(* Where a frame builds a task that others cannot reach yet, holds an      *)
(* executor pointer it loaded, tears a task down, and holds no task.       *)
Builds == {"s_result", "s_waker", "s_fn", "s_fut", "s_or", "s_push"}
Wakening == {"wake_or", "wake_push"}
Finishes == {"r_drop", "r_fn", "r_cs"}
Idle == {"off", "loop", "returned"}
Resting == {"off", "returned"}

(* Tasks are queued and addressed at priorities they are spawned at. *)
AppQueues ==
  /\ \A t \in Tasks : executor_ptr[t] \in {NULL} \cup SpawnPrios[t]
  /\ \A p \in Prio : \A i \in 1 .. Len(run_queue[p]) : p \in SpawnPrios[run_queue[p][i]]

(* They are polled there, and a call is one the application makes. *)
AppFrame(p) ==
  /\ pc[p] \notin Idle => p \in SpawnPrios[polling[p]]
  /\ pc[p] \in Builds \cup Wakening => to[p] \in SpawnPrios[arg[p]]
  /\ pc[p] \in Builds => <<polling[p], arg[p]>> \in Spawns
  /\ pc[p] \in Wakening => <<polling[p], arg[p]>> \in Wakes
  /\ pc[p] \in InReady => polling[p] \in Finite

AppFrames == \A p \in Prio : AppFrame(p)
AppOK == AppQueues /\ AppFrames

(* A completed task cannot be woken or polled; while it is still queued,   *)
(* the executor it is queued at has not finished.                          *)
UnspawnedOK ==
  \A t \in Tasks \ spawned :
    /\ executor_ptr[t] = NULL /\ poll_fn[t] # "poll"
    /\ t \in run_queued => t \in Finite /\ \A p \in SpawnPrios[t] : pc[p] \notin Resting

Wakeable(t) == executor_ptr[t] # NULL /\ fut[t] = "live" /\ poll_fn[t] = "poll"

(* A spawned task is being built, being torn down, or can be woken. *)
SpawnedOK ==
  \A t \in spawned :
    \/ \E p \in Prio : pc[p] \in Builds /\ arg[p] = t
    \/ \E p \in Prio : pc[p] \in Finishes /\ polling[p] = t
    \/ Wakeable(t)

(* A task being built belongs to the frame that builds it. *)
BuildOK ==
  \A p \in Prio : pc[p] \in Builds =>
    /\ arg[p] \in spawned /\ executor_ptr[arg[p]] = NULL
    /\ pc[p] # "s_push" => arg[p] \notin run_queued
    /\ pc[p] \in {"s_fut", "s_or", "s_push"} => poll_fn[arg[p]] = "poll"
    /\ pc[p] \in {"s_or", "s_push"} => fut[arg[p]] = "live"
    /\ \A q \in Prio :
         /\ pc[q] \in Builds /\ arg[q] = arg[p] => q = p
         /\ pc[q] \notin Idle => polling[q] # arg[p]

(* The executor pointer a future loaded is still valid. *)
WakingOK == \A p \in Prio : pc[p] \in Wakening => executor_ptr[arg[p]] # NULL

(* What TaskStorage::poll has done so far. *)
PollOK ==
  \A p \in Prio :
    /\ pc[p] \notin Idle \cup {"dequeued"} => polling[p] \in spawned
    /\ pc[p] \in Finishes => executor_ptr[polling[p]] = NULL
    /\ pc[p] = "r_drop" => fut[polling[p]] = "live"
    /\ pc[p] = "r_cs" => poll_fn[polling[p]] # "poll"
    /\ pc[p] = "dequeued" /\ polling[p] \notin spawned => polling[p] \in Finite

(* No frame exists before start(). *)
BootFrames == ~started => \A p \in Prio : pc[p] = "off"

LifeOK == UnspawnedOK /\ SpawnedOK /\ BuildOK /\ WakingOK /\ PollOK

-------------------------------------------------------------------------------
(* The discipline under which an awaited output is not discarded: a task   *)
(* has one priority, and a task that is awaited is spawned only by the     *)
(* task that awaits it.                                                    *)
OneJoiner ==
  /\ \A t \in Tasks : \A p, q \in SpawnPrios[t] : p = q
  /\ \A s, t, u \in Tasks : <<t, u>> \in Joins /\ <<s, u>> \in Spawns => s = t

(* A handle is held, and awaited, by a task that spawned the other; a task *)
(* in the middle of a spawn awaits nothing.                                *)
HandleOK ==
  /\ \A u \in Tasks : handle[u] # NULL => <<handle[u], u>> \in Spawns
  /\ \A t \in Tasks : awaiting[t] # NULL => <<t, awaiting[t]>> \in Joins \cap Spawns
  /\ ~started => \A t \in Tasks : awaiting[t] = NULL

CallerOK ==
  \A p \in Prio :
    /\ pc[p] \in InSpawn => /\ <<polling[p], arg[p]>> \in Spawns
                            /\ awaiting[polling[p]] = NULL
    /\ pc[p] = "j_store" => awaiting[polling[p]] = arg[p]

JoinOK == HandleOK /\ CallerOK

-------------------------------------------------------------------------------
(* The discipline under which a joiner is woken: it never completes, and   *)
(* the task it awaits cannot preempt it.                                   *)
JoinsDown ==
  /\ OneJoiner
  /\ \A t, u \in Tasks : <<t, u>> \in Joins =>
       /\ t \notin Finite
       /\ \A p \in SpawnPrios[t], q \in SpawnPrios[u] : p <= q

Joined(u) == \E t \in Tasks : <<t, u>> \in Joins

(* A frame inside TaskStorage::poll. *)
Inside(p) == pc[p] \notin Idle \cup {"dequeued"}

(* A task that is awaited: polled only while it is spawned, not while it   *)
(* is being spawned again, and with its output in place once it is ready.  *)
AwaitedOK(u) ==
  /\ u \notin spawned => poll_fn[u] # "poll"
  /\ \A p \in Prio :
       /\ Inside(p) /\ polling[p] = u => u \in spawned
       /\ pc[p] = "r_cs" /\ polling[p] = u => poll_fn[u] # "poll"
       /\ pc[p] \in InSpawn /\ arg[p] = u =>
            /\ u \in spawned
            /\ \A r \in Prio : Inside(r) => polling[r] # u
       /\ pc[p] \in InReady /\ polling[p] = u /\ <<handle[u], u>> \in Joins => result[u]
  /\ <<handle[u], u>> \in Joins => u \in spawned \/ result[u]

(* A task that never completes can be woken from its first push on. *)
EndlessOK(t) ==
  /\ poll_fn[t] # "exited"
  /\ \/ LinkedIn(run_queue, t)
     \/ \E p \in Prio : pc[p] \notin Idle /\ polling[p] = t
     \/ awaiting[t] # NULL
     => executor_ptr[t] # NULL

(* A task suspended on a JoinHandle still holds it; the task it awaits has *)
(* its waker, unless it is being polled or queued.                         *)
SuspendedOK(t) ==
  awaiting[t] # NULL =>
    /\ handle[awaiting[t]] = t
    /\ \/ \E p \in Prio : pc[p] \notin Idle /\ polling[p] = t
       \/ t \in run_queued
       \/ waker[awaiting[t]] = t /\ awaiting[t] \in spawned

StoringOK == \A p \in Prio : pc[p] = "j_store" => arg[p] \in spawned

AwaitOK ==
  /\ \A u \in Tasks : Joined(u) => AwaitedOK(u)
  /\ \A t \in Tasks \ Finite : EndlessOK(t)
  /\ \A t \in Tasks : SuspendedOK(t)
  /\ StoringOK
===============================================================================
