# RT-Async in TLA+

RT-Async is a `no_std` async runtime for one RISC-V hart. Tasks are statically
allocated futures with a priority; one executor per priority runs them from an
intrusive FIFO queue; a machine software interrupt (MSI) starts a more urgent
executor on top of the stack of the running one, so tasks preempt each other
while sharing a single stack. On top of that sit wakers, join handles, an async
mutex, delays, interrupt-driven serial reception and interrupt latches.

This directory holds specifications of that system, the TLC configurations that
check them on small instances, and TLAPS proofs of the properties that hold for
every instance. `PROJECT.json` gives for each definition the source lines it
translates, and for each property a mutation of the code that breaks it.

## Inventory

| Component (under `src/modules/`) | State | Operations | What is hard about it |
|---|---|---|---|
| priority bitmap, `executor/src/priority_bitmap.rs` | `group_map`, `groups` | `set`, `clear`, `highest`, `is_set`, `is_empty`, `pop_highest`, `clear_all` | two levels of bits must agree at group boundaries |
| scheduler, `executor/src/{spawner,executor,priority}.rs`, `task/{run_queue,state}.rs` | ready bitmap, `prio_stack`, one run queue per priority, `RUN_QUEUED` | `Spawner::spawn`, `try_preempt`, `complete_executor`, `Executor::run`, `enqueue`, `wake_task` | nested executors, and interrupts between any two accesses outside a critical section |
| task storage, `executor/src/task/{storage,header,waker,join_handle}.rs`, `util.rs` | `SPAWNED`, `executor_ptr`, `poll_fn`, the future cell, `JoinState` | `TaskStorage::spawn`, `TaskStorage::poll`, waker vtable, `JoinHandle::poll` | a slot is reused while stale wakers and queue entries of its previous life exist |
| software interrupt, `platform/src/lib.rs`, `drivers/ipi_clint_msip.rs`, `executor-macro/src/lib.rs` | `PEND_MARKER`, MSIP | `pend`, `clear_pend`, `start`, generated `__rust_main` and `MachineSoft` | marker and IPI are two writes; requests must not be swallowed |
| async mutex, `futures/src/mutex.rs` | `locked`, bounded list of pointers to wakers inside futures | `lock`, poll, drop of the future, drop of the guard | raw pointers into futures; cancellation; a third task between a wake and the poll |
| timers, `timer/src/lib.rs`, `futures/src/timer.rs`, `platform/src/drivers/timer_clint.rs` | queue entries, `registered`, `mtimecmp` | `after`, poll, `schedule`, `cancel`, `dequeue_expired`, `handle_timer_isr`, `set_deadline` | queue and compare register are updated separately; the clock moves between any two steps; two-word register |
| serial reception, `platform/src/drivers/serial_ns16550a.rs`, `futures/src/serial.rs` | ring with `head` and `tail`, waker slot | `rx_handler`, `rx_push`, `rx_pop`, `rx_wake`, `rx_register_waker` | lock-free single-producer single-consumer ring; check, register, check again |
| external interrupts, `platform/src/irq.rs` | handler table, `pending`, waker slot | `register_irq`, `dispatch_external`, `notify`, `poll` | the same lost-wakeup race, abandoned awaits |
| PLIC driver, `platform/src/drivers/plic_sifive.rs` | enable words, priorities, threshold | `probe`, `enable_irq`, `disable_irq`, `set_priority`, `set_threshold`, `claim`, `complete` | 32 sources share a word; what is claimed must be completed |
| device slots, registries, boot, buses, logger, `platform/src/{driver,bus,dtb,device,logger}.rs` | slots, registries, console, bus stacks | `set`, `register`, `get`, `boot`, `bus_stack_*`, the accessors | index arithmetic, what is ready when in the walk of the device tree |
| trap entry and start-up, `platform/archs/riscv64-rt`, with `MachineSoft` of `executor-macro` | CSRs, registers, one stack | `__start`, `__trap_entry`, `trap_handler`, exceptions and panics, masking of interrupts | traps nest on one stack; every line that runs with interrupts on or off |
| chips, boards, `apps/` | none of their own | static lists, output | outside what a model of the runtime says |

How they interact. `main()` spawns tasks with interrupts off; `Spawner::spawn`
and `wake_task` queue a task and pend the MSI; `MachineSoft` asks `try_preempt`
for a priority more urgent than the running one and calls `Executor::run` for it
with interrupts on. A future polled there wakes and spawns other tasks, awaits
their handles, or registers its waker with a mutex, a delay, the serial driver or
a latch. Interrupt handlers (timer, UART, external) call those wakers with
interrupts off. Everything is shared memory on one hart: mutual exclusion is
`mstatus.MIE = 0`, concurrency is preemption by a handler or a more urgent
executor.

What makes the components correct: no wake and no ready priority is ever
forgotten; no list node is linked twice; executors nest strictly by urgency; a
slot's future is only polled while it is live and by one frame; a joiner gets its
output; one mutex guard at a time and no dangling waiter; the compare register
covers the earliest delay; the ring is a FIFO; no interrupt is missed between two
looks at a latch; what masks interrupts is not interrupted; a trap gives back the
context it took; a probe finds the services of the nodes before it.

## Modules

| Module | Role |
|---|---|
| `ReadySet` | abstract specification: a set of priorities and its most urgent member |
| `PriorityBitmap`, `PriorityBitmap_proofs` | the two-level bitmap; implements `ReadySet` |
| `Kernel`, `KernelInv`, `Kernel_proofs` | scheduler, task storage, wakers, joins, MSI; their inductive invariants; the proofs |
| `AsyncMutex`, `AsyncMutex_proofs` | the async mutex |
| `TimerDelay`, `TimerDelay_proofs` | timer queue, delay futures, timer interrupt, compare register |
| `ByteChannel`, `SerialRx`, `SerialRx_proofs` | abstract lossy-when-full FIFO; the ring that implements it |
| `Plic` | the interrupt controller's driver, and the device as the driver uses it |
| `IrqLatch`, `IrqLatch_proofs` | handler table, dispatch, latches, on top of `Plic` |
| `Trap`, `Trap_proofs` | the hart: start-up, trap entry and exit, masking, nesting on one stack |
| `Boot`, `Boot_proofs` | device slots and registries, the walk of `boot()`, console, bus stacks |
| `MC*` | instances for TLC: model values and the applications below |

### Grain of atomicity

Code that runs with `MIE = 0` is one action: critical sections, interrupt
handlers, the scheduling part of `MachineSoft`, and `main()`. Everywhere else
each access to shared memory is an action of its own, because the MSI or a device
interrupt can come between any two. `Kernel` has one frame of `Executor::run` per
priority (`pc`, `polling`, `arg`, `to`); only the frame of the priority on top of
`prio_stack` moves. The places of a frame are those of the source: `wake_or`,
`wake_push`, `mark`, `send` are `wake_task` through `platform::pend`; `s_*` is
`TaskStorage::spawn` and `Spawner::spawn`, store by store; `r_*` is the part of
`TaskStorage::poll` after `Ready`; `j_store` is the second half of
`JoinHandle::poll`.

The application is a parameter of `Kernel`: which tasks hold wakers of which
(`Wakes`), who spawns and joins whom, which tasks complete (`Finite`), which are
woken by interrupts (`IrqWakes`), and at which priorities each is spawned. A
future does any sequence of these operations and then returns. The other modules
see the executor through one set, `woken`: the tasks it will poll.

`Kernel` uses the ready bitmap as a set with a minimum, which is what
`PriorityBitmap` is proved to implement. `PriorityBitmap` keeps 64-bit words as
sets of bits, with `trailing_zeros` of an empty word equal to 64 as in Rust.
`owed` in `Kernel`, `usurped` in `AsyncMutex`, `due` in `TimerDelay`, `unseen`
and `asked` in `IrqLatch`, `first` and `probed` in `Boot` and the field `was` of a
frame in `Trap` are history: no action reads them to decide anything, except that
`IrqLatch` bounds `unseen` by `MaxIrqs`.

That code with `MIE = 0` is one step is itself a claim about the code, and `Trap`
is where it is checked. There an activation is the thread or a handler; it is in
`main()`, in `Executor::run`, in a critical section, in the part of
`IrqLatch::poll` and `rx_register_waker` that disables and enables by hand, in
`MachineSoft`, or on its way through the instructions of `__trap_entry`, and an
interrupt comes whenever the CSRs let it. Addresses count words, a frame is the 34
words the entry code reserves, rounded down to 16 bytes, and the registers are
`t0`, which the entry code uses itself, and `x` for the others. Which executor is
ready is left to `Kernel`; any more urgent one may be.

`IrqLatch` extends `Plic`: a latch is notified for a source that is enabled in the
right bit of the right word, above the threshold, claimed, and completed, and the
driver may be reconfigured at any time. The gateway and the arbitration of the
PLIC are the device and marked external.

`Boot` keeps, besides the registries, the set of slots that are ready, and notes
for each probe which of pins, clocks and console it found. `TimerDelay` converts
durations to ticks as `after()` does, with `NANOS` nanoseconds to a second and a
clock of `freq_hz`; 3 and 2 make the division round.

## Runs

Passing runs:

| Run | Checks | Bounds |
|---|---|---|
| `bitmap` | `GroupMapCoherent`, refinement of `ReadySet` | 3 groups; priorities on both sides of every group boundary and the last one, so that groups become empty and non-empty and 64 * group + bit is exercised at each edge |
| `boot` | `RegistryFirstFit`, `ProbeFindsEarlier`, `ClientOnItsBus` | every tree of 5 nodes, 3 deep, on registries and stacks of 2, with serial ports, a timer, pin and clock controllers, buses and clients: registries overflow, stacks are full, controllers come before and after what needs them; the accessors are tried at any time of the walk and after it |
| `kernel_safety` | `StackSorted`, `LinkedOnce`, `ReadyBits`, `NoLostReady`, `NoLostWake`, `PollsLiveFuture`, `LiveTaskWakeable`, `CompletedTaskInert` | 3 tasks on 3 priorities: a frame can be preempted by one that is preempted again; interrupts wake every task, tasks wake each other up and down, the most urgent one completes and is spawned again by both others |
| `kernel_live` | `ResultReachesJoiner`, `JoinResolves`, `WakeServed` | 3 tasks on 2 priorities: joins of a less urgent and of an equally urgent task, completion and respawn, with fairness |
| `mutex` | `MutualExclusion`, `WaitersAlive`, `NeverFull`, `StrandedOnlyWhenUsurped`, `FifoWaiters`, `LockGranted` | 4 tasks, queue of 3: everyone may lock, cancel, and be polled without a wake; three waiters distinguish head, middle and tail |
| `timer` | `EntriesAlive`, `CompareCovers`, `DelayWatched`, `IsrFiresExactlyDue`, `NeverEarly`, `DelayElapses` | 3 delays on a queue of 2 (so it fills up and the panic is reached), 3 and 8 nanoseconds that become 2 and 5 ticks, the second rounded down, clock up to 6; two entries suffice for `swap_remove` to move an unseen one |
| `serial` | `ReaderNotAsleepOnData`, refinement of `ByteChannel`, `BytesServed` | ring of 4, UART FIFO of 2, 2 byte values: a burst can fill the ring and both indices wrap; awaits are abandoned and polled out of turn, and `rx_handler` may find the FIFO empty |
| `irq_latch` | `SleeperNotified`, `PendingIffUnseen`, `EnabledAsAsked`, `IrqServed`, `RequestTaken` | sources 31, 32, 63 and 64: the last bit of one enable word, first and last of the next, which share it, and the first of the third; priorities and thresholds 0 and 1; a latch on source 32, with up to 2 interrupts per await, so a second one finds the latch set. Latches share nothing with each other, and the proofs are for any number of them |
| `trap` | `MaskedUndisturbed`, `FramesDisjoint`, `StackBounded`, `ContextRestored` | 2 priorities, so that an executor preempts an executor and a handler and an exception come on top, each with locals on the stack; 2 nested critical sections; 2 interrupts from outside besides the `pend` of any code; the smallest stack the assumption allows |

The definitions `TypeOK` of the modules are what the proofs start from; they are
not in the lists above.

Runs that show a disagreement between the code and what it says of itself (each
is quoted in `PROJECT.json` under `findings`):

| Run | Violates | What happens |
|---|---|---|
| `join_urgent` | `JoinerNotStranded` | a task awaits the handle of a more urgent one; the latter is woken and completes between the two accesses of `JoinHandle::poll`, and the joiner's waker is stored after the only wake |
| `timer_preempted` | `CompareCovers` | a task preempted between `schedule()` and `set_deadline()` overwrites the earlier deadline of the task that preempted it |
| `trap_t0` | `T0Restored` | `__trap_entry` copies `sp` into `t0` before it saves `t0`; every trap returns with the interrupted `sp` in `t0` |

Further configurations, which anyone can run, end in a counterexample too and
explain the restrictions below:

* `MutexBarging.cfg` (`NoStrandedWaiter`): a woken waiter is overtaken by a fresh
  `lock()`; it is no longer in the list, still has `queued = true`, and is never
  woken again, although `mutex.rs:113-114` says a release wakes the next waiter.
* `StaleRespawn.cfg` (`PollsLiveFuture`): a less urgent task is preempted in
  `wake_task` after it loaded `executor_ptr`; the target completes; the late store
  makes the completed task wakeable, and an interrupt during its respawn has
  `TaskStorage::poll` run between the store of `poll_fn` (`storage.rs:174`) and the
  write of the future. `storage.rs:111-112` says of a task re-enqueued around its
  completion that "polling it again is harmless".
* `TimerDangling.cfg` (`EntriesAlive`): a delay polled `Ready` after its deadline
  and before its interrupt sets `registered` to false without a cancel
  (`futures/src/timer.rs:65`) and is dropped with its entry still queued, although
  `timer/src/lib.rs:61-62` requires `data` to "remain valid until the callback fires
  or the entry is cancelled".
* `LatchInSection.cfg` (`MaskedUndisturbed`): `IrqLatch::poll` inside a critical
  section enables interrupts at its end (`irq.rs:173`) and the rest of the section
  runs unprotected; no code of the repository does that.
* `RegistryGet.cfg` (`GetOutOfRangeIsNone`): `get` reduces its index modulo `N`;
  `driver.rs:125` says that an index out of range gives `None`. The bus stacks only
  pass indices that `register` returned.
* `ConsolePort.cfg` (`ConsoleKeepsPort`): a second serial node with the same driver
  moves `BASE` and with it the console to another port. `driver.rs:307` says that
  one serial port per board is supported.
* `StaleWake.cfg` (`CompletedTaskInert`): the first half of `StaleRespawn`; a
  completed task gets its `executor_ptr` back although `storage.rs:109-110` says
  later wakes skip it.
* `RespawnQueued.cfg` (`LiveTaskWakeable`): a task woken during the poll in which
  it completes is still queued; its respawn finds `RUN_QUEUED` set, stores no
  `executor_ptr`, and after one poll no wake reaches the new task.
* `RespawnElsewhere.cfg` (`DispatchedWhereAsked`): in the same situation a respawn
  at another priority runs at the old one.
* `RespawnUnread.cfg` (`ResultReachesJoiner`): a respawn before the woken joiner
  runs discards the output; `storage.rs:140-141` says the order prevents that.
* `TimerTorn.cfg` (`NoEarlyTrigger`): writing the high word first passes through a
  small value when the new high word is smaller, which `timer_clint.rs:101-102`
  means to exclude; the cost is one spurious interrupt, not a missed delay.
* `TimerWord.cfg` (`CompareCovers`): the timer interrupt comes between the two
  writes of `set_deadline()` (`timer_clint.rs:103-104`), fires the delay being set
  and programs the next one, whose high word is another; the low word written
  afterwards belongs to the fired delay, and the register lies up to 2^32 ticks
  beyond the next one. This needs one priority only, and deadlines on both sides
  of a high-word boundary.
* `SerialTwoReaders.cfg` (refinement of `ByteChannel`): two readers of different
  priority read a byte twice and move `tail` back.

Three comments promise more than the code, and are modelled by what the code does:

* `executor-macro/src/lib.rs:164,204` say that `__Inner_MachineSoft` runs only for
  an MSI from outside; the generated handler calls it first, on every MSI.
* `driver.rs:257-260,285` take pin and clock controllers and the serial port to be
  probed before what needs them because the walk is in preorder; that depends on
  the order of the nodes in the tree, and `ProbeFindsEarlier` states it so.
* `driver.rs:137,160-163` (and `serial_ns16550a.rs:184-185`) say that the console is
  chosen by `chosen { stdout-path }` among several serial ports. The code takes the
  first registered one; `chosen.stdout` only decides whether it warns that there is
  none, and `driver.rs:307-309` calls the choice future work. `Boot` derives the
  console as the code does; which port it ought to be is claimed by
  `ProbeFindsEarlier` only while there is one.

### What the passing runs assume of the application

The passing runs keep to applications that avoid the disagreements above, and
are otherwise as free as the bounds allow:

* `kernel_safety`: a task that completes is not woken by a task it can preempt
  (`StaleRespawn`), and is spawned by less urgent ones, so that it is never
  queued when it is respawned (`RespawnQueued`);
* `kernel_live`: a joined task is not more urgent than its joiner
  (`join_urgent`), is not woken by interrupts, and one task spawns it;
* `timer`: tasks of one priority (`timer_preempted`), no spurious poll of a
  registered delay (`TimerDangling`), and words of 16, so that deadlines share
  one high word (`TimerWord`);
* `serial`: one reader (`SerialTwoReaders`);
* `irq_latch`: the read-modify-write of an enable word is one step, as the comment
  at `plic_sifive.rs:100-101` has it; the driver does not mask interrupts itself,
  its callers have to;
* `trap`: no latch is polled inside a critical section (`LatchInSection`);
* `boot`: at most one driver matches a node (the loop of `driver.rs:274-281` has no
  break and would probe each that does), and bus controllers are directly below the
  root. `bus.rs:81-84` says itself that
  nested controllers are future work; `BusDepth = 2` shows a client on the wrong
  bus. Whether `fdt_parser` numbers the root 0 or 1 is not visible in this
  repository, and both are checked.

`mutex` needs no such restriction: `StrandedOnlyWhenUsurped` and `LockGranted`
name the exception themselves.

### Bounds and termination

`LastStart` and `MaxTime` bound the clock in `TimerDelay` (delays are created
early enough that all of them can elapse), `MaxIrqs` the interrupts per await,
`FIFO_SIZE` the bytes the UART holds, `MaxNodes`, `MaxDepth` and `BusDepth` the
tree; `Locals` the words an activation of `Trap` has on the stack when it is
interrupted, `MaxCs` its nested critical sections, `MaxRaise` the interrupts from
outside. A panic
spins for ever, so that `Trap` does not deadlock. `TimerDelay` and `Boot` are
checked without deadlock detection: the clock
stops at `MaxTime`, `boot()` runs once, and there is then nothing left to do. All
other state is finite by itself. No symmetry is used.

### Fairness

* `Kernel`: weak fairness for taking a pending MSI and for each step of the
  running frame, because the hart executes. Strong fairness for the return of a
  poll: a future is cooperative and returns after finitely many operations,
  which the scheduler cannot enforce. `WakeServed` and `JoinResolves` assume in
  addition that interrupts eventually stop (`Quiet`): with priority scheduling an
  endless stream of urgent interrupts is allowed to starve everyone else.
* `AsyncMutex`: a woken task is polled and a guard is dropped eventually.
* `TimerDelay`: time passes, a due interrupt is taken, woken tasks are polled and
  a poll that began goes on.
* `SerialRx`, `IrqLatch`: pending interrupts are taken and tasks run; bytes and
  interrupts themselves arrive or not. In `IrqLatch` the fairness is that of the
  external interrupt as a whole, not of each source: which one is claimed is the
  controller's choice, and `RequestTaken` allows for sources that are disabled or
  fall below the threshold.

## Proofs

All theorems hold for every value of the constants that satisfies the named
assumptions of the module.

* `PriorityBitmap_proofs` (`TypeCorrect`, `GroupMapAlwaysCoherent`,
  `Refinement`). Assumes at most 64 groups. The inductive invariant is the type
  and the coherence of the summary word; coherence alone makes "first bit of the
  first group" the minimum of the whole set (`HighestIsUrgent`, with the
  facts on `Min`), and with it every operation is a step of `ReadySet`.
* `Kernel_proofs`, with its invariants in `KernelInv`, for any number of
  priorities and any set of tasks, in six parts:
  * Types and the stack (`TypeCorrect`, `StackAlwaysSorted`), for any application.
    `StackSorted` is not inductive: that `prio_stack` is never full when it matters
    follows from the counting bound `prio_stack[i] + i <= N` (strictly decreasing
    naturals below `N`), and the types need `FrameOK`, that a frame in the middle
    of a wake, spawn or join has the task and executor it works on.
  * Ready priorities (`ReadyBitsAlways`, `NoLostReadyAlways`), for any application.
    `NoLostReady` is strengthened to `PendOK`: a frame about to send the IPI still
    has the marker set, since `MachineSoft` consumes both and preempts every frame
    that had not yet sent. `ReadyBits` is inductive with these.
  * Queues and wakes (`LinkedOnceAlways`, `NoLostWakeAlways`), for any application,
    the ones that break the discipline below included. `LinkOK` treats
    `RUN_QUEUED` as the right to push: it has one holder, a list node or the one
    frame between `fetch_or` and the push. Before `start()` no task completes, so
    that `main()` cannot spawn a queued one (`BootOK`). A wake then survives as the
    bit, or as the frame that has dequeued the task and not begun the poll
    (`OwedOK`).
  * The life of a task (`PollsLiveFutureAlways`, `LiveTaskWakeableAlways`,
    `CompletedTaskInertAlways`), for every application that is `Disciplined`: a task
    has one priority; a task that completes is woken by futures only from
    priorities that it cannot preempt, and spawned by futures only from less urgent
    ones. Interrupts may wake and futures may join any task. `StaleWake` and
    `StaleRespawn` break the second condition, `RespawnQueued` the third and
    `RespawnElsewhere` the first, each with its counterexample. `kernel_safety`
    satisfies them, and TLC has checked the invariants also with all tasks
    completing and joined (3 million states). The argument: a frame that has
    loaded the `executor_ptr` of a task that completes is as urgent as that task or
    more, so the completion cannot preempt it and the pointer it holds is still
    valid (`WakingOK`); a task under
    construction is not reachable from anywhere (`BuildOK`); what is polled or torn
    down is so by one frame (`PollOK`). Steps that touch none of this are dealt
    with together (`LifeCalm`).
  * Awaited outputs (`ResultAlwaysReachesJoiner`), for every application with
    `OneJoiner`: a task has one priority, and a task that is awaited is spawned by
    futures only from the task that awaits it. `RespawnUnread` breaks the second
    condition; `kernel_live` satisfies both. `JoinOK` says that a handle is held by
    the spawner and that a task in the middle of a spawn awaits nothing, so that
    the reset of `JoinState` in `TaskStorage::spawn` cannot hit an awaited output.
  * Waking the joiner (`JoinerNeverStranded`), for every application with
    `JoinsDown`: besides `OneJoiner`, a joiner never completes and is not less
    urgent than what it awaits. `join_urgent` breaks the latter. A joiner that
    completes could be respawned while it is still queued, and would then not be
    wakeable (`RespawnQueued`). The awaited tasks may complete and be spawned again
    any number of times, and interrupts and futures may wake any task. The
    invariant is `AwaitOK`: a suspended joiner holds the handle and is being
    polled, queued, or has its waker in a task that is still spawned
    (`SuspendedOK`); between the two accesses of `JoinHandle::poll` the awaited
    task cannot run, let alone despawn (`StoringOK`, from `JoinerOnTop`); when it
    is ready, its output stays until the handle is used up (`AwaitedOK`); an endless
    task is wakeable from its first push on (`EndlessOK`). The proof first
    establishes which steps can change each variable these speak of
    (`FrameChanges`, `FnChanges`, `WakerChanges` and so on), so that each part of
    the invariant is left with the few steps that matter. `JoinDown.cfg` is an
    instance with two awaited tasks, on which TLC finds no violation.
* `AsyncMutex_proofs` (`MutualExclusionAlways`, `WaitersAliveAlways`,
  `NeverFullAlways`, `StrandedOnlyWhenUsurpedAlways`, `FifoWaitersAlways`), for any
  tasks and capacity; the fourth, of a list with room for every task but the
  holder. What `Vec::retain` leaves is proved by induction along the list
  (`RetainFilters`), which is why `Retain` is written as a recursive function.
  `NeverFull` is a count: waiters are distinct, pending and not the holder.
* `TimerDelay_proofs`, for any tasks, durations, capacity, clock rate and word size.
  `IsrFiresExactlyDueAlways`: each round of the `swap_remove` scan looks at one
  entry, whether it advances or removes (`ScanStep`), so after as many rounds as
  there were entries none that is due is left (`DequeueScans`, by induction).
  `EntriesAliveAlways` and `DelayWatchedAlways` assume no spurious poll
  (`TimerDangling`) and nothing else: `LifeOK` says that a woken delay which has
  been through `poll()` is due and not queued, so that a `Ready` leaves no entry and
  a `Pending` always goes on to queue one. `CompareCoversUndisturbed` is for
  any priorities and deadlines of any number of words, and names the two situations
  in which a delay can be overslept: an earlier deadline is queued than one that is
  being programmed (`NotOvertaken` excludes it; `timer_preempted` shows it), or one of
  another high word is queued between the two writes (`NotTorn`; `TimerWord`). In all
  other behaviours the finished register covers the queue. The invariant (`CompareOK`)
  follows the tasks stacked up between `schedule()` and the second write: one that
  has yet to write the low word finds its own high word in the register when it
  resumes, although the handler and more urgent tasks have written it meanwhile, or a
  more urgent task is about to write the same one; and once nobody is programming,
  the register covers the queue. `CompareCoversAlways`: with one priority only the
  second situation is left. `NeverEarlyAlways` assumes that the ticks of
  a duration fit 64 bits, since `after()` cuts what does not.
* `SerialRx_proofs` (`TypeAlways`, `ReaderNotAsleepAlways`,
  `RingImplementsChannel`), for a ring of any size and any bytes; the last two for
  one reader (`SerialTwoReaders`). The ring is read off as the sequence from `tail`
  to `head`, and a push and a pop are shown to append and to take the head of it
  across the wrap; a pop in progress holds the index it loaded (`PopOK`).
* `IrqLatch_proofs` (`SleeperNotifiedAlways`, `PendingIffUnseenAlways`,
  `EnabledAsAskedAlways`): for any sources below 96; the last rests on the
  uniqueness of word and bit (`WordAndBit`).
* `Trap_proofs` (`MaskedUndisturbedAlways`, `FramesDisjointAlways`,
  `StackBoundedAlways`, `ContextRestoredAlways`): for any number of priorities, any
  stack, locals and register contents; only the first needs that no latch is
  polled inside a critical section. The invariant has two parts. `TopOK` speaks of
  the executing activation: with `MIE` on it is where it may be interrupted, and on
  the way out of a trap the CSRs and registers already restored are those of the
  frame. `StackOK` speaks of everything below: each frame returns to the activation
  under it, saved it faithfully, lies below its stack, and had `MPIE` on only if
  that activation may be interrupted, which is what `mret` needs. The bound of the
  stack is a count: an executor at depth `d` has a priority of at most `N + 1 - d`
  (`RankOK`), since each is more urgent than the one it preempted. A step of the
  executing activation leaves `StackOK` alone (`TopStep`), so each action is left
  with its own effect.

* `Boot_proofs` (`TypeCorrect`, `RegistryAlwaysFirstFit`,
  `ProbeAlwaysFindsEarlier`, `ClientAlwaysOnItsBus`), for any tree, drivers and
  capacities; the bounds on the tree are arbitrary. A registry that has given out
  `k` slots holds exactly the first `k` and has its cursor at `k % N` (`Holds`);
  from there the search of `register` succeeds at once, or finds nothing because
  the registry is full (`SlotInTurn`, `NoFreeIsFull`), and `iter().next()` is slot
  0 (`FirstIsSlot0`). `ProbeInv` ties `ready` and the serial registry to the nodes
  visited. `ClientAlwaysOnItsBus` assumes bus controllers directly below the root
  (`BusDepth <= 1`; the violation with `BusDepth = 2` is described above):
  `StackInv` says that the controller on the path of the current node is on top of
  its stack, which has room because the registry is exhausted first. The proofs
  need the names of slots, buses and panics to be distinct, as the statics of the
  code are (`SlotsAssumption`).

Two general facts carry the rest: a non-empty set of naturals has the minimum
that `Min` chooses, and induction over the naturals in the form "a set that
holds 0 and the successor of each of its members holds them all", which the
provers can instantiate where a predicate parameter cannot be. Recursive
functions are proved to exist with it before anything is said of their values.

Only model-checked: liveness (`JoinResolves`, `WakeServed`, `LockGranted`,
`DelayElapses`, `BytesServed`, `IrqServed`, `RequestTaken`), which is outside the
prover's reach. Every invariant, action property and refinement of the passing
runs is a theorem, under the conditions above.

## Not modelled

* In `Boot`: which pins and clocks a node asks for, parsing of the tree, what a
  probe writes to its device, and the panics of a wrong board description or order of
  calls: a second `init_dtb` or an invalid blob, `boot()` without a tree or `DRIVERS`,
  a node without `reg`. Drivers of buses, bus clients, pin and clock
  controllers are not in the repository.
* Register access of the other drivers: serial transmission and set-up, the reset
  device, whose `shutdown` writes once and never returns.
* In `Trap`: the optional clearing of `.bss`, the floating-point registers, which
  the entry code does not touch, and the linker defaults, which only loop.
* Compile-time code: the expansion of the `task` and `interrupt` attributes; chip
  and board crates, which are static lists.
* Formatting of log messages, memory layout, `Spawner::init`, which links executors
  and spawner once, and the token a spawn returns, which panics when it is dropped
  unused.
* In `Kernel`: a `JoinHandle` of an earlier life of a slot, and one that is dropped
  while it is awaited; a slot has the handle of its latest spawn.
* In `IrqLatch`: the panic of `IRQ_TABLE` for a source of 96 or more (`irq.rs:62`);
  the sources of a model are below.
* Several harts: the runtime is for one hart; another hart only appears as a
  source of MSIs (`ExternalMsi`).

## Plan

Done, in this order: bitmap and its refinement; `Kernel` with spawn, wake, run,
join and MSI; mutex; timers; serial; latches; boot; proofs of the bitmap, of the
scheduler's stack and ready bits, of mutual exclusion and of the latches; traps,
masking and start-up with their proofs; the PLIC under the latches; slots, pins,
clocks and console in `Boot`; the conversion to ticks. Then the proofs of the run
queues, of wakes and of the life of a task; of the rest of the mutex; of the serial
ring and its refinement; of the timer queue and the compare register; of boot; of
joins.

Open: proofs of liveness, which need another prover; a discipline for joiners that
complete, wider than `JoinsDown`; the drivers' register access.
