-------------------------------- MODULE Kernel --------------------------------
(***************************************************************************)
(* The scheduling core of RT-Async on one hart: Spawner, Executor,         *)
(* RunQueue, State, TaskStorage, JoinHandle and the task waker             *)
(* (modules/executor/src), the pend flag and IPI (modules/platform/src),   *)
(* and the __rust_main / MachineSoft code that #[executor::main] generates *)
(* (modules/executor-macro/src/lib.rs).                                    *)
(*                                                                         *)
(* All executors share one stack.  try_preempt only starts an executor     *)
(* that is more urgent than every one already on prio_stack, so there is   *)
(* one frame of Executor::run per priority, and the frame of the priority  *)
(* on top of prio_stack is the one that runs; with an empty prio_stack the *)
(* hart is in main() or in its idle loop.                                  *)
(*                                                                         *)
(* Code that runs with mstatus.MIE = 0 (a critical section, an interrupt   *)
(* handler, the scheduling part of MachineSoft, main()) is one action.     *)
(* Everywhere else MachineSoft and a device interrupt can come between any *)
(* two accesses to shared memory, and each such access is an action.       *)
(***************************************************************************)
EXTENDS Integers, Sequences, FiniteSetsExt

CONSTANTS
  N,           \* Spawner<N>: the number of priorities, 0 the most urgent
  Tasks,       \* the statically allocated TaskStorages
  NULL,        \* a null pointer, Option::None, "no task"
  (* The application, as far as the kernel sees it. *)
  SpawnPrios,  \* SpawnPrios[t]: the priorities t is spawned at
  BootTasks,   \* the tasks main() may spawn
  Finite,      \* the tasks whose future may return Ready
  Wakes,       \* <<t, u>>: the future of t holds a waker of u
  IrqWakes,    \* the tasks a device interrupt handler holds a waker of
  Spawns,      \* <<t, u>>: the future of t spawns u
  Joins        \* <<t, u>>: t awaits the JoinHandle it got for u

Prio == 0 .. N - 1

ASSUME NAssumption == N \in Nat \ {0}
ASSUME NullAssumption == NULL \notin Tasks /\ \A p \in Prio : p # NULL
ASSUME AppAssumption ==
  /\ SpawnPrios \in [Tasks -> SUBSET Prio]
  /\ BootTasks \subseteq Tasks /\ Finite \subseteq Tasks
  /\ IrqWakes \subseteq Tasks
  /\ Wakes \subseteq Tasks \X Tasks
  /\ Spawns \subseteq Tasks \X Tasks
  /\ Joins \subseteq Tasks \X Tasks

VARIABLES
  \* TaskInfo and TaskStorage of each task
  spawned,       \* the tasks with STATE_SPAWNED
  run_queued,    \* the tasks with STATE_RUN_QUEUED
  executor_ptr,  \* the executor a wake goes to
  poll_fn,       \* None, TaskStorage::poll or poll_exited
  fut,           \* what the UninitCell of the future holds
  result,        \* JoinState.result is Some
  waker,         \* JoinState.waker: the task it wakes
  \* Spawner and its executors
  run_queue,     \* per priority, the intrusive FIFO list
  bitmap,        \* the ready bitmap: see PriorityBitmap and ReadySet
  prio_stack,    \* the priorities that own stack space, oldest first
  \* pending of the scheduler
  marker,        \* platform::PEND_MARKER
  msip,          \* the hart's machine software interrupt is pending
  started,       \* platform::start() has enabled interrupts
  \* the frame of Executor::run at each priority
  pc,            \* where it is; "off" when the priority is not on the stack
  polling,       \* the task it took from its queue
  arg,           \* the task of the wake, spawn or join in progress
  to,            \* the executor of the wake or spawn in progress
  \* the futures
  handle,        \* handle[u]: the task that holds the JoinHandle of u
  awaiting,      \* awaiting[t]: the task whose handle t is suspended on
  \* history
  owed           \* the tasks woken since their last poll began

slot == <<spawned, poll_fn, fut>>
queues == <<run_queued, executor_ptr, run_queue, bitmap>>
join == <<result, waker>>
pending == <<marker, msip>>
frame == <<pc, polling, arg, to>>
app == <<handle, awaiting>>
vars == <<slot, queues, join, pending, frame, app, prio_stack, started, owed>>

(* Where a frame of Executor::run can be. *)
InRun == {"loop", "dequeued", "returned"}
InWake == {"wake_or", "wake_push", "mark", "send"}
InSpawn == {"s_result", "s_waker", "s_fn", "s_fut", "s_or", "s_push", "s_pend"}
InReady == {"r_ptr", "r_drop", "r_fn", "r_cs"}
PC == {"off", "body", "j_store"} \cup InRun \cup InWake \cup InSpawn \cup InReady

-------------------------------------------------------------------------------
Top(stack) == stack[Len(stack)]

(* The frame of priority p has the CPU, at place l, with interrupts on. *)
At(p, l) ==
  /\ started /\ prio_stack # <<>> /\ Top(prio_stack) = p
  /\ pc[p] = l

Goto(p, l) == pc' = [pc EXCEPT ![p] = l] /\ UNCHANGED <<polling, arg, to>>

Call(p, l, u, q) ==
  /\ pc' = [pc EXCEPT ![p] = l]
  /\ arg' = [arg EXCEPT ![p] = u]
  /\ to' = [to EXCEPT ![p] = q]
  /\ UNCHANGED polling

(* UninitCell: the cell of the future is written or dropped in place. *)
WriteFut(u, v) == fut' = [fut EXCEPT ![u] = v]

(* Back in the body of the future being polled. *)
Return(p) == Call(p, "body", NULL, NULL)

(* The poll is over: back at the head of the run loop. *)
EndPoll(p) ==
  /\ pc' = [pc EXCEPT ![p] = "loop"]
  /\ polling' = [polling EXCEPT ![p] = NULL]
  /\ arg' = [arg EXCEPT ![p] = NULL]
  /\ to' = [to EXCEPT ![p] = NULL]

Init ==
  /\ spawned = {} /\ run_queued = {}
  /\ executor_ptr = [t \in Tasks |-> NULL]
  /\ poll_fn = [t \in Tasks |-> "none"]
  /\ fut = [t \in Tasks |-> "uninit"]
  /\ result = [t \in Tasks |-> FALSE]
  /\ waker = [t \in Tasks |-> NULL]
  /\ run_queue = [p \in Prio |-> <<>>]
  /\ bitmap = {} /\ prio_stack = <<>>
  /\ marker = FALSE /\ msip = FALSE /\ started = FALSE
  /\ pc = [p \in Prio |-> "off"]
  /\ polling = [p \in Prio |-> NULL]
  /\ arg = [p \in Prio |-> NULL]
  /\ to = [p \in Prio |-> NULL]
  /\ handle = [t \in Tasks |-> NULL]
  /\ awaiting = [t \in Tasks |-> NULL]
  /\ owed = {}

-------------------------------------------------------------------------------
(* Enqueueing, waking and pending.                                         *)

\* Mutant: the flag fetch_or returned is not looked at.
EnqueueAgain(u) == TRUE

(* State::run_enqueue: whether fetch_or found the flag clear. *)
FirstEnqueue(u) == u \notin run_queued

\* Mutant: the ready bit is only set when the queue was empty and not running.
PushTaskNoBit(u, q) ==
  /\ executor_ptr' = [executor_ptr EXCEPT ![u] = q]
  /\ run_queue' = [run_queue EXCEPT ![q] = Append(@, u)]
  /\ bitmap' = IF pc[q] = "off" THEN bitmap \cup {q} ELSE bitmap

\* Mutant: the back-pointer is not stored.
PushTaskNoPtr(u, q) ==
  /\ executor_ptr' = executor_ptr
  /\ run_queue' = [run_queue EXCEPT ![q] = Append(@, u)]
  /\ bitmap' = bitmap \cup {q}

(* The closure of Executor::enqueue, run in a critical section. *)
PushTask(u, q) ==
  /\ executor_ptr' = [executor_ptr EXCEPT ![u] = q]
  /\ run_queue' = [run_queue EXCEPT ![q] = Append(@, u)]
  /\ bitmap' = bitmap \cup {q}

(* platform::pend with interrupts off. *)
Pend == marker' = TRUE /\ msip' = TRUE

(* wake_task with interrupts off: executed from an interrupt handler or    *)
(* inside a critical section.                                              *)
WakeNow(u) ==
  LET q == executor_ptr[u] IN
  /\ owed' = IF q = NULL THEN owed ELSE owed \cup {u}
  /\ IF q # NULL /\ FirstEnqueue(u)
       THEN run_queued' = run_queued \cup {u} /\ PushTask(u, q) /\ Pend
       ELSE UNCHANGED <<queues, pending>>

(* wake_task from a future: load executor_ptr; null means completed or not *)
(* yet enqueued, and nothing happens.                                      *)
WakeLoad(p, u) ==
  /\ At(p, "body") /\ awaiting[polling[p]] = NULL
  /\ <<polling[p], u>> \in Wakes
  /\ executor_ptr[u] # NULL
  /\ Call(p, "wake_or", u, executor_ptr[u])
  /\ UNCHANGED <<slot, queues, join, pending, app, prio_stack, started, owed>>

(* fetch_or(STATE_RUN_QUEUED), outside any critical section. *)
WakeOr(p) ==
  /\ At(p, "wake_or")
  /\ owed' = owed \cup {arg[p]}
  /\ run_queued' = run_queued \cup {arg[p]}
  /\ IF FirstEnqueue(arg[p]) THEN Goto(p, "wake_push") ELSE Return(p)
  /\ UNCHANGED <<slot, executor_ptr, run_queue, bitmap, join, pending, app,
                 prio_stack, started>>

WakePush(p) ==
  /\ At(p, "wake_push")
  /\ PushTask(arg[p], to[p])
  /\ Goto(p, "mark")
  /\ UNCHANGED <<slot, run_queued, join, pending, app, prio_stack, started, owed>>

(* platform::pend with interrupts on: the marker, then the IPI. *)
PendMark(p) ==
  /\ At(p, "mark")
  /\ marker' = TRUE
  /\ Goto(p, "send")
  /\ UNCHANGED <<slot, queues, join, msip, app, prio_stack, started, owed>>

PendSend(p) ==
  /\ At(p, "send")
  /\ msip' = TRUE
  /\ Return(p)
  /\ UNCHANGED <<slot, queues, join, marker, app, prio_stack, started, owed>>

-------------------------------------------------------------------------------
(* TaskStorage::spawn followed by Spawner::spawn, from a future.  An       *)
(* already spawned task makes TaskStorage::spawn return Err: no step.      *)

(* State::spawn: whether fetch_or found the flag clear. *)
FirstSpawn(u) == u \notin spawned

SpawnBegin(p, u, q) ==
  /\ At(p, "body") /\ awaiting[polling[p]] = NULL
  /\ <<polling[p], u>> \in Spawns /\ q \in SpawnPrios[u]
  /\ FirstSpawn(u)
  /\ spawned' = spawned \cup {u}
  /\ Call(p, "s_result", u, q)
  /\ UNCHANGED <<poll_fn, fut, queues, join, pending, app, prio_stack, started, owed>>

SpawnResult(p) ==
  /\ At(p, "s_result")
  /\ result' = [result EXCEPT ![arg[p]] = FALSE]
  /\ Goto(p, "s_waker")
  /\ UNCHANGED <<slot, queues, waker, pending, app, prio_stack, started, owed>>

SpawnWaker(p) ==
  /\ At(p, "s_waker")
  /\ waker' = [waker EXCEPT ![arg[p]] = NULL]
  /\ Goto(p, "s_fn")
  /\ UNCHANGED <<slot, queues, result, pending, app, prio_stack, started, owed>>

SpawnFn(p) ==
  /\ At(p, "s_fn")
  /\ poll_fn' = [poll_fn EXCEPT ![arg[p]] = "poll"]
  /\ Goto(p, "s_fut")
  /\ UNCHANGED <<spawned, fut, queues, join, pending, app, prio_stack, started, owed>>

SpawnFut(p) ==
  /\ At(p, "s_fut")
  /\ WriteFut(arg[p], "live")
  /\ Goto(p, "s_or")
  /\ UNCHANGED <<spawned, poll_fn, queues, join, pending, app, prio_stack, started, owed>>

(* The JoinHandle is returned to the spawning task. *)
GiveHandle(p) == handle' = [handle EXCEPT ![arg[p]] = polling[p]]

SpawnOr(p) ==
  /\ At(p, "s_or")
  /\ owed' = owed \cup {arg[p]}
  /\ run_queued' = run_queued \cup {arg[p]}
  /\ IF FirstEnqueue(arg[p])
       THEN Goto(p, "s_push") /\ UNCHANGED handle
       ELSE Return(p) /\ GiveHandle(p)
  /\ UNCHANGED <<slot, executor_ptr, run_queue, bitmap, join, pending, awaiting,
                 prio_stack, started>>

SpawnPush(p) ==
  /\ At(p, "s_push")
  /\ PushTask(arg[p], to[p])
  /\ Goto(p, "s_pend")
  /\ UNCHANGED <<slot, run_queued, join, pending, app, prio_stack, started, owed>>

(* The second critical section of Spawner::spawn. *)
ShouldPend ==
  /\ bitmap # {}
  /\ prio_stack = <<>> \/ Min(bitmap) < Top(prio_stack)

SpawnPend(p) ==
  /\ At(p, "s_pend")
  /\ IF ShouldPend THEN Pend ELSE UNCHANGED pending
  /\ GiveHandle(p)
  /\ Return(p)
  /\ UNCHANGED <<slot, queues, join, awaiting, prio_stack, started, owed>>

(* The same two calls from main(), before interrupts are enabled. *)
BootSpawn(t, q) ==
  /\ ~started /\ t \in BootTasks /\ FirstSpawn(t) /\ q \in SpawnPrios[t]
  /\ spawned' = spawned \cup {t}
  /\ result' = [result EXCEPT ![t] = FALSE]
  /\ waker' = [waker EXCEPT ![t] = NULL]
  /\ poll_fn' = [poll_fn EXCEPT ![t] = "poll"]
  /\ WriteFut(t, "live")
  /\ run_queued' = run_queued \cup {t}
  /\ PushTask(t, q)
  /\ Pend
  /\ owed' = owed \cup {t}
  /\ UNCHANGED <<frame, app, prio_stack, started>>

Start == ~started /\ started' = TRUE /\ UNCHANGED <<slot, queues, join, pending, frame, app, prio_stack, owed>>

-------------------------------------------------------------------------------
(* JoinHandle::poll by the task being polled: take the result, else store  *)
(* the waker and return Pending.  Neither access is in a critical section. *)

(* The handle of u is that of its latest spawn and is held by who spawned  *)
(* it.  A handle of an earlier life, or one dropped while it is awaited,   *)
(* is not represented.                                                     *)
MayJoin(t, u) ==
  \/ awaiting[t] = u
  \/ awaiting[t] = NULL /\ <<t, u>> \in Joins /\ handle[u] = t

JoinTake(p, u) ==
  LET t == polling[p] IN
  /\ At(p, "body") /\ MayJoin(t, u)
  /\ IF result[u]
       THEN /\ result' = [result EXCEPT ![u] = FALSE]
            /\ awaiting' = [awaiting EXCEPT ![t] = NULL]
            /\ handle' = [handle EXCEPT ![u] = NULL]
            /\ UNCHANGED frame
       ELSE /\ awaiting' = [awaiting EXCEPT ![t] = u]
            /\ Call(p, "j_store", u, NULL)
            /\ UNCHANGED <<result, handle>>
  /\ UNCHANGED <<slot, queues, waker, pending, prio_stack, started, owed>>

JoinStore(p) ==
  /\ At(p, "j_store")
  /\ waker' = [waker EXCEPT ![arg[p]] = polling[p]]
  /\ EndPoll(p)
  /\ UNCHANGED <<slot, queues, result, pending, app, prio_stack, started, owed>>

-------------------------------------------------------------------------------
(* Executor::run and TaskStorage::poll.                                    *)

\* Mutant: RUN_QUEUED is never cleared.
DequeueKeepsFlag(p) ==
  /\ At(p, "loop")
  /\ IF run_queue[p] = <<>>
       THEN /\ bitmap' = bitmap \ {p}
            /\ Goto(p, "returned")
            /\ UNCHANGED <<run_queued, run_queue>>
       ELSE /\ run_queue' = [run_queue EXCEPT ![p] = Tail(@)]
            /\ pc' = [pc EXCEPT ![p] = "dequeued"]
            /\ polling' = [polling EXCEPT ![p] = Head(run_queue[p])]
            /\ UNCHANGED <<run_queued, bitmap, arg, to>>
  /\ UNCHANGED <<slot, executor_ptr, join, pending, app, prio_stack, started, owed>>

(* State::run_dequeue. *)
RunDequeue(u) == run_queued' = run_queued \ {u}

(* RunQueue::dequeue on a list that is not empty. *)
PopFront(p) ==
  /\ run_queue' = [run_queue EXCEPT ![p] = Tail(@)]
  /\ RunDequeue(Head(run_queue[p]))

(* One critical section: take the next task, or clear the ready bit. *)
Dequeue(p) ==
  /\ At(p, "loop")
  /\ IF run_queue[p] = <<>>
       THEN /\ bitmap' = bitmap \ {p}
            /\ Goto(p, "returned")
            /\ UNCHANGED <<run_queued, run_queue>>
       ELSE /\ PopFront(p)
            /\ pc' = [pc EXCEPT ![p] = "dequeued"]
            /\ polling' = [polling EXCEPT ![p] = Head(run_queue[p])]
            /\ UNCHANGED <<bitmap, arg, to>>
  /\ UNCHANGED <<slot, executor_ptr, join, pending, app, prio_stack, started, owed>>

(* Read poll_fn and call it; poll_exited does nothing. *)
CallPollFn(p) ==
  /\ At(p, "dequeued") /\ poll_fn[polling[p]] # "none"
  /\ owed' = owed \ {polling[p]}
  /\ IF poll_fn[polling[p]] = "poll" THEN Goto(p, "body") ELSE EndPoll(p)
  /\ UNCHANGED <<slot, queues, join, pending, app, prio_stack, started>>

(* The future returns Pending (at an await other than a JoinHandle's). *)
PollPending(p) ==
  /\ At(p, "body") /\ awaiting[polling[p]] = NULL
  /\ EndPoll(p)
  /\ UNCHANGED <<slot, queues, join, pending, app, prio_stack, started, owed>>

(* The future returns Ready(output): the steps of TaskStorage::poll after  *)
(* it.  The handles it still holds are dropped with its locals.            *)
PollReady(p) ==
  LET t == polling[p] IN
  /\ At(p, "body") /\ awaiting[t] = NULL /\ t \in Finite
  /\ result' = [result EXCEPT ![t] = TRUE]
  /\ handle' = [u \in Tasks |-> IF handle[u] = t THEN NULL ELSE handle[u]]
  /\ Goto(p, "r_ptr")
  /\ UNCHANGED <<slot, queues, waker, pending, awaiting, prio_stack, started, owed>>

\* Mutant: the back-pointer survives completion.
ReadyPtrKeeps(p) ==
  /\ At(p, "r_ptr")
  /\ Goto(p, "r_drop")
  /\ UNCHANGED <<slot, queues, join, pending, app, prio_stack, started, owed>>

ReadyPtr(p) ==
  /\ At(p, "r_ptr")
  /\ executor_ptr' = [executor_ptr EXCEPT ![polling[p]] = NULL]
  /\ Goto(p, "r_drop")
  /\ UNCHANGED <<slot, run_queued, run_queue, bitmap, join, pending, app,
                 prio_stack, started, owed>>

\* Mutant: the JoinState is reset along with the future.
ReadyDropResets(p) ==
  /\ At(p, "r_drop")
  /\ WriteFut(polling[p], "dropped")
  /\ result' = [result EXCEPT ![polling[p]] = FALSE]
  /\ Goto(p, "r_fn")
  /\ UNCHANGED <<spawned, poll_fn, queues, waker, pending, app, prio_stack, started, owed>>

ReadyDrop(p) ==
  /\ At(p, "r_drop")
  /\ WriteFut(polling[p], "dropped")
  /\ Goto(p, "r_fn")
  /\ UNCHANGED <<spawned, poll_fn, queues, join, pending, app, prio_stack, started, owed>>

\* Mutant: poll_fn still points to TaskStorage::poll.
ReadyFnKeeps(p) ==
  /\ At(p, "r_fn")
  /\ Goto(p, "r_cs")
  /\ UNCHANGED <<slot, queues, join, pending, app, prio_stack, started, owed>>

ReadyFn(p) ==
  /\ At(p, "r_fn")
  /\ poll_fn' = [poll_fn EXCEPT ![polling[p]] = "exited"]
  /\ Goto(p, "r_cs")
  /\ UNCHANGED <<spawned, fut, queues, join, pending, app, prio_stack, started, owed>>

\* Mutant: the joiner's waker is dropped without a wake.
ReadyDespawnSilent(p) ==
  /\ At(p, "r_cs")
  /\ spawned' = spawned \ {polling[p]}
  /\ waker' = [waker EXCEPT ![polling[p]] = NULL]
  /\ EndPoll(p)
  /\ UNCHANGED <<poll_fn, fut, queues, pending, owed, result, app, prio_stack, started>>

(* State::despawn. *)
Despawn(u) == spawned' = spawned \ {u}

(* One critical section: despawn, then take the joiner's waker and wake. *)
ReadyDespawn(p) ==
  LET t == polling[p] IN
  /\ At(p, "r_cs")
  /\ Despawn(t)
  /\ waker' = [waker EXCEPT ![t] = NULL]
  /\ IF waker[t] # NULL
       THEN WakeNow(waker[t])
       ELSE UNCHANGED <<queues, pending, owed>>
  /\ EndPoll(p)
  /\ UNCHANGED <<poll_fn, fut, result, app, prio_stack, started>>

-------------------------------------------------------------------------------
(* Interrupts and the scheduler loop of MachineSoft.                       *)

\* Mutant: an executor as urgent as the running one is started too.
TryPreemptEqual(stack) ==
  IF /\ bitmap # {}
     /\ stack = <<>> \/ Min(bitmap) <= Top(stack)
     /\ Len(stack) < N
    THEN Append(stack, Min(bitmap))
    ELSE stack

(* Spawner::try_preempt on the stack: push the highest ready priority when *)
(* it is more urgent than the top.  A full Vec<Priority, N> refuses it.    *)
TryPreempt(stack) ==
  IF /\ bitmap # {}
     /\ stack = <<>> \/ Min(bitmap) < Top(stack)
     /\ Len(stack) < N
    THEN Append(stack, Min(bitmap))
    ELSE stack

(* try_preempt and, on Some, the entry into run() of a fresh frame. frames *)
(* is pc with the frame that just completed off.                           *)
Schedule(stack, frames) ==
  LET s == TryPreempt(stack) IN
  /\ prio_stack' = s
  /\ pc' = IF s = stack THEN frames ELSE [frames EXCEPT ![Top(s)] = "loop"]
  /\ UNCHANGED <<polling, arg, to>>

(* platform::clear_pend: its result is the marker as it was. *)
ClearPend == marker' = FALSE /\ msip' = FALSE

(* Entry of MachineSoft up to the first enable_interrupts or the mret.     *)
(* The user hook comes first, marker or not: what it wakes is an IrqWake   *)
(* before this step.                                                       *)
MachineSoft ==
  /\ started /\ msip
  /\ ClearPend
  /\ IF marker THEN Schedule(prio_stack, pc) ELSE UNCHANGED <<frame, prio_stack>>
  /\ UNCHANGED <<slot, queues, join, app, started, owed>>

\* Mutant: MachineSoft schedules once instead of in a loop.
CompleteNoLoop(p) ==
  /\ At(p, "returned")
  /\ prio_stack' = SubSeq(prio_stack, 1, Len(prio_stack) - 1)
  /\ Goto(p, "off")
  /\ UNCHANGED <<slot, queues, join, pending, app, started, owed>>

(* run() has returned: disable_interrupts, complete_executor, and around   *)
(* the while loop to try_preempt; mret when it gives None.                 *)
Complete(p) ==
  /\ At(p, "returned")
  /\ Schedule(SubSeq(prio_stack, 1, Len(prio_stack) - 1), [pc EXCEPT ![p] = "off"])
  /\ UNCHANGED <<slot, queues, join, pending, app, started, owed>>

(* A device or timer interrupt whose handler wakes u. *)
IrqWake(u) ==
  /\ started /\ u \in IrqWakes
  /\ WakeNow(u)
  /\ UNCHANGED <<slot, join, frame, app, prio_stack, started>>

(* An MSI from outside the scheduler: another hart writes MSIP. *)
ExternalMsi ==
  /\ started
  /\ msip' = TRUE
  /\ UNCHANGED <<slot, queues, join, marker, frame, app, prio_stack, started, owed>>

-------------------------------------------------------------------------------
Body(p) ==
  \/ \E u \in Tasks : WakeLoad(p, u) \/ JoinTake(p, u)
  \/ \E u \in Tasks, q \in Prio : SpawnBegin(p, u, q)

(* A suspended future is polled at its await point: JoinHandle::poll. *)
ResumeJoin(p) ==
  At(p, "body") /\ \E u \in Tasks : awaiting[polling[p]] = u /\ JoinTake(p, u)

PollReturn(p) == PollPending(p) \/ PollReady(p)

Step(p) ==
  \/ Dequeue(p) \/ CallPollFn(p) \/ Complete(p)
  \/ WakeOr(p) \/ WakePush(p) \/ PendMark(p) \/ PendSend(p)
  \/ SpawnResult(p) \/ SpawnWaker(p) \/ SpawnFn(p) \/ SpawnFut(p)
  \/ SpawnOr(p) \/ SpawnPush(p) \/ SpawnPend(p)
  \/ JoinStore(p)
  \/ ReadyPtr(p) \/ ReadyDrop(p) \/ ReadyFn(p) \/ ReadyDespawn(p)

Interrupt == ExternalMsi \/ \E u \in Tasks : IrqWake(u)

Next ==
  \/ \E t \in Tasks, q \in Prio : BootSpawn(t, q)
  \/ Start
  \/ MachineSoft
  \/ Interrupt
  \/ \E p \in Prio : Step(p) \/ Body(p) \/ PollReturn(p)

Spec == Init /\ [][Next]_vars

(* The hart executes: main() returns, a pending MSI is taken, and the      *)
(* frame on top of the stack moves.  A poll is cooperative: it returns     *)
(* after finitely many operations (the scheduler cannot force it to).      *)
Fairness ==
  /\ WF_vars(Start) /\ WF_vars(MachineSoft)
  /\ \A p \in Prio : WF_vars(Step(p)) /\ SF_vars(PollReturn(p))
  /\ \A p \in Prio : WF_vars(ResumeJoin(p))

FairSpec == Spec /\ Fairness

-------------------------------------------------------------------------------
(* Safety.                                                                 *)

SlotType ==
  /\ spawned \subseteq Tasks
  /\ poll_fn \in [Tasks -> {"none", "poll", "exited"}]
  /\ fut \in [Tasks -> {"uninit", "live", "dropped"}]

QueueType ==
  /\ run_queued \subseteq Tasks /\ owed \subseteq Tasks
  /\ executor_ptr \in [Tasks -> {NULL} \cup Prio]
  /\ run_queue \in [Prio -> Seq(Tasks)]
  /\ bitmap \subseteq Prio

JoinType ==
  /\ result \in [Tasks -> BOOLEAN]
  /\ waker \in [Tasks -> {NULL} \cup Tasks]
  /\ handle \in [Tasks -> {NULL} \cup Tasks]
  /\ awaiting \in [Tasks -> {NULL} \cup Tasks]

PendingType == marker \in BOOLEAN /\ msip \in BOOLEAN /\ started \in BOOLEAN

FrameType ==
  /\ prio_stack \in Seq(Prio)
  /\ pc \in [Prio -> PC]
  /\ polling \in [Prio -> {NULL} \cup Tasks]
  /\ arg \in [Prio -> {NULL} \cup Tasks]
  /\ to \in [Prio -> {NULL} \cup Prio]

TypeOK == SlotType /\ QueueType /\ JoinType /\ PendingType /\ FrameType

OnStack == {prio_stack[i] : i \in 1 .. Len(prio_stack)}

(* Nested MachineSoft handlers stack executors of strictly more urgent     *)
(* priorities, exactly the ones whose run() has not completed: no executor *)
(* is entered twice, and prio_stack.push never meets a full Vec<_, N>,     *)
(* whose refusal try_preempt would swallow as "nothing to run".            *)
StackSorted ==
  /\ \A i, j \in 1 .. Len(prio_stack) : i < j => prio_stack[j] < prio_stack[i]
  /\ OnStack = {p \in Prio : pc[p] # "off"}
  /\ ShouldPend => Len(prio_stack) < N

(* The list node of a task is in one run queue once, or its owner is       *)
(* between fetch_or and push, exactly when RUN_QUEUED is set: pushing a    *)
(* linked node again would corrupt the intrusive list.                     *)
LinkedOnce ==
  \A t \in Tasks :
    LET links == {l \in UNION {{p} \X DOMAIN run_queue[p] : p \in Prio} :
                    run_queue[l[1]][l[2]] = t}
        pushing == {p \in Prio : pc[p] \in {"wake_push", "s_push"} /\ arg[p] = t}
    IN  Cardinality(links) + Cardinality(pushing) = (IF t \in run_queued THEN 1 ELSE 0)

(* The ready bit of a priority with queued tasks is set, and a set bit     *)
(* over an empty queue belongs to an executor that will still look at its  *)
(* queue: the bit is cleared in the critical section that finds it empty.  *)
ReadyBits ==
  \A p \in Prio :
    /\ run_queue[p] # <<>> => p \in bitmap
    /\ p \in bitmap /\ run_queue[p] = <<>> => pc[p] \notin {"off", "returned"}

(* A ready priority more urgent than the running one is never forgotten:   *)
(* the software interrupt that will schedule it is pending with the marker *)
(* set, or the running frame is on its way to pend.  In particular the     *)
(* hart does not idle over a non-empty queue.                              *)
NoLostReady ==
  ShouldPend =>
    \/ marker /\ msip
    \/ prio_stack # <<>> /\ pc[Top(prio_stack)] \in {"mark", "send", "s_pend"}

(* A task woken since its last poll began is queued, or about to be pushed *)
(* by the frame that won the fetch_or, or taken and about to be polled: a  *)
(* wake during the poll itself is not absorbed by a stale RUN_QUEUED.      *)
NoLostWake ==
  \A t \in owed :
    \/ \E p \in Prio : \E i \in DOMAIN run_queue[p] : run_queue[p][i] = t
    \/ \E p \in Prio : pc[p] \in {"wake_push", "s_push"} /\ arg[p] = t
    \/ \E p \in Prio : pc[p] = "dequeued" /\ polling[p] = t

InPoll(p) == pc[p] \notin {"off", "loop", "dequeued", "returned"}

(* At most one frame is inside TaskStorage::poll of a task, and until the  *)
(* frame drops it the future there is live: poll is never entered on a     *)
(* future that is not written yet, dropped, or borrowed by a lower frame.  *)
PollsLiveFuture ==
  \A p \in Prio : InPoll(p) =>
    /\ pc[p] \notin {"r_fn", "r_cs"} => fut[polling[p]] = "live"
    /\ \A q \in Prio : InPoll(q) /\ polling[q] = polling[p] => q = p

(* A task suspended on a JoinHandle will be polled again: it is owed a     *)
(* poll, or its waker is stored in a task that has yet to reach the        *)
(* critical section in which it wakes its joiner.                          *)
JoinerNotStranded ==
  \A t \in Tasks :
    /\ awaiting[t] # NULL
    /\ \A p \in Prio : polling[p] # t
    => \/ t \in run_queued
       \/ waker[awaiting[t]] = t /\ awaiting[t] \in spawned

(* Once Spawner::spawn has returned and until the future is ready, wakes   *)
(* of a task reach an executor.                                            *)
LiveTaskWakeable ==
  \A t \in spawned :
    \/ \E p \in Prio : pc[p] \in InSpawn /\ arg[p] = t
    \/ \E p \in Prio : pc[p] \in InReady /\ polling[p] = t
    \/ executor_ptr[t] # NULL

(* executor_ptr is null for a completed task, so that a waker kept after   *)
(* completion is inert until the next Spawner::spawn.                      *)
CompletedTaskInert == \A t \in Tasks : t \notin spawned => executor_ptr[t] = NULL

(* An output some task is awaiting is only ever consumed by that task.     *)
ResultReachesJoiner ==
  [][\A t, u \in Tasks :
       awaiting[t] = u /\ result[u] /\ ~result'[u] => awaiting'[t] # u]_vars

(* When Spawner::spawn returns, the task is not queued at a priority other *)
(* than the one it was given.                                              *)
DispatchedWhereAsked ==
  [][\A p \in Prio : pc[p] = "s_or" /\ pc'[p] = "body" =>
       \A q \in Prio \ {to[p]} : \A i \in DOMAIN run_queue[q] : run_queue[q][i] # arg[p]]_vars

-------------------------------------------------------------------------------
(* Liveness.                                                               *)

(* Device interrupts stop arriving: otherwise an urgent interrupt-driven   *)
(* task may starve every other one, as priority scheduling intends.        *)
Quiet == <>[][~Interrupt]_vars

(* Every woken task is polled after the wake. *)
WakeServed == Quiet => \A t \in Tasks : t \in owed ~> t \notin owed

(* A task awaiting a JoinHandle gets the output once there is one. *)
JoinResolves ==
  Quiet => \A t, u \in Tasks : (awaiting[t] = u /\ result[u]) ~> awaiting[t] # u
===============================================================================
