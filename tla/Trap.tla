--------------------------------- MODULE Trap ---------------------------------
(***************************************************************************)
(* The hart under the runtime: start-up, machine-mode interrupts, the trap *)
(* entry and exit of modules/platform/archs/riscv64-rt, the MachineSoft    *)
(* handler #[executor::main] generates, and the ways code masks interrupts *)
(* (critical sections, and IrqLatch::poll and rx_register_waker, which     *)
(* disable and enable without saving).  The other modules take what runs   *)
(* with mstatus.MIE = 0 to be one step; here that is the property.         *)
(*                                                                         *)
(* ctx is the stack of activations: the thread that started the hart, and  *)
(* one handler per trap not yet returned from.  The last one executes.  A  *)
(* program counter is the index of the activation it lies in, an address   *)
(* counts words of 8 bytes, and the registers a trap saves are t0, which   *)
(* the entry code also uses itself, and x for all others.  The code of     *)
(* tasks and of handlers leaves any values in them.  Which executors are   *)
(* ready is Kernel's matter: here any more urgent one may be.              *)
(***************************************************************************)
EXTENDS Integers, Sequences, SequencesExt

CONSTANTS
  N,         \* the priorities of the Spawner; N stands for none running
  Vals,      \* what running code leaves in its registers
  StackTop,  \* __sstack, in words
  Locals,    \* bound: the words an activation has on the stack when interrupted
  MaxCs,     \* bound: nested critical sections
  MaxRaise,  \* bound: interrupts from devices and other harts
  PollInCs   \* whether a task may poll a latch inside a critical section

ASSUME NAssumption == N \in Nat
ASSUME StackAssumption ==
  /\ Locals \in Nat /\ MaxCs \in Nat /\ MaxRaise \in Nat
  /\ Vals \subseteq Nat /\ PollInCs \in BOOLEAN
  /\ StackTop \in Nat /\ StackTop >= (N + 2) * (35 + Locals)

VARIABLES
  ctx,             \* the activations, see above
  regs, sp,        \* the registers
  mepc, mie, mpie, \* CSRs: mepc, and mstatus.MIE and .MPIE
  ie, mip,         \* CSRs mie and mip: the causes enabled, and pending
  frames,          \* the TrapFrames on the stack, the oldest first
  raised           \* how many interrupts came from outside

csrs == <<mepc, mie, mpie>>
vars == <<ctx, regs, sp, csrs, ie, mip, frames, raised>>

Causes == {"MEI", "MSI", "MTI"}
Regs == {"t0", "x"}

Depth == Len(ctx)
Here == ctx[Depth]
Below == ctx[Depth - 1]

(* Each activation: what it is, where it is, the priority on top of        *)
(* prio_stack, and the MIE values its critical sections will restore.      *)
Activation(kind, at, prio) == [kind |-> kind, at |-> at, prio |-> prio, cs |-> <<>>]

(* Code that interrupts may interrupt: the idle loop, Executor::run, and a *)
(* panic, which spins in whatever state it finds the hart.                 *)
Open == {"idle", "run", "panic"}

(* Where compiled code runs, of tasks, of main() or of the runtime: it     *)
(* computes, has locals on the stack, may fault and may panic.             *)
Rust == {"init", "main", "run", "latch", "handle", "hook", "sched"}

Goto(l) == ctx' = [ctx EXCEPT ![Depth].at = l]

Init ==
  /\ ctx = <<Activation("thread", "reset", N)>>
  /\ regs = [r \in Regs |-> 0] /\ sp = 0
  /\ mepc = 0 /\ mie = FALSE /\ mpie = FALSE
  /\ ie = {} /\ mip = {} /\ frames = <<>> /\ raised = 0

-------------------------------------------------------------------------------
(* Start-up: __start and __start_rust set gp, sp and mtvec, __rust_main    *)
(* calls platform::init, main() and platform::start, and idles.            *)

__start ==
  /\ Here.at = "reset" /\ Goto("init")
  /\ sp' = StackTop
  /\ UNCHANGED <<regs, csrs, ie, mip, frames, raised>>

init ==
  /\ Here.at = "init" /\ Goto("main")
  /\ UNCHANGED <<regs, sp, csrs, ie, mip, frames, raised>>

(* main() has returned: enable_mtimer, enable_mei and enable_msi, then     *)
(* enable_interrupts.  The timer cannot be due: its deadline is u64::MAX.  *)
start ==
  /\ Here.at = "main" /\ Here.cs = <<>> /\ Goto("idle")
  /\ ie' = Causes /\ mie' = TRUE
  /\ UNCHANGED <<regs, sp, mepc, mpie, mip, frames, raised>>

(* wfi, in a loop. *)
idle ==
  /\ Here.at = "idle"
  /\ UNCHANGED vars

-------------------------------------------------------------------------------
(* Interrupts become pending. *)

Raise(c) ==
  /\ raised < MaxRaise /\ raised' = raised + 1
  /\ mip' = mip \cup {c}
  /\ UNCHANGED <<ctx, regs, sp, csrs, ie, frames>>

(* platform::pend, by a spawn or a wake: marker and IPI in one step, since *)
(* the window between them is in Kernel.                                   *)
pend ==
  /\ Here.at \in {"main", "run", "handle", "hook"}
  /\ mip' = mip \cup {"MSI"}
  /\ UNCHANGED <<ctx, regs, sp, csrs, ie, frames, raised>>

-------------------------------------------------------------------------------
(* __trap_entry.                                                           *)

\* Mutant: room for the TrapFrame only, none for the saved sp.
FrameBaseShort(s) == ((s - 32) \div 2) * 2

(* addi sp, sp, -272 and andi sp, sp, -16. *)
FrameBase(s) == ((s - 34) \div 2) * 2

\* Mutant: the stack pointer is put back by addi, as if nothing was aligned.
SavedSpAdded == FrameBase(sp) + 34

SavedSp == sp

(* The frame in memory: 32 words, and the interrupted sp after them.  t0   *)
(* already holds sp when it is saved.  was is a history: the registers as  *)
(* they were when the trap came.                                           *)
SavedFrame ==
  [base |-> FrameBase(sp), x |-> regs["x"], t0 |-> sp, sp |-> SavedSp,
   mepc |-> Depth, mie |-> FALSE, mpie |-> mie,
   was |-> [x |-> regs["x"], t0 |-> regs["t0"], sp |-> sp, mie |-> mie]]

(* What the hart does, and the code up to the call of the handler: all of  *)
(* it runs with MIE = 0.                                                   *)
Enter(act) ==
  /\ mepc' = Depth /\ mpie' = mie /\ mie' = FALSE
  /\ frames' = Append(frames, SavedFrame)
  /\ sp' = FrameBase(sp)
  /\ regs' = [regs EXCEPT !["t0"] = 0]
  /\ ctx' = Append(ctx, act)
  /\ UNCHANGED <<ie, mip, raised>>

(* Of several causes the hart takes external, software, timer in order. *)
Taken(c) ==
  /\ c \in mip \cap ie
  /\ c = "MSI" => "MEI" \notin mip \cap ie
  /\ c = "MTI" => mip \cap ie = {"MTI"}

(* trap_handler, by mcause: MachineSoft begins with the user's hook, the   *)
(* other two handlers run masked from beginning to end, an exception       *)
(* panics.                                                                 *)
trap_handler(cause) ==
  CASE cause = "MSI" -> "hook"
    [] cause \in {"MEI", "MTI"} -> "handle"
    [] cause = "exception" -> "panic"

Interrupt(c) ==
  /\ mie /\ Taken(c)
  /\ Enter(Activation(c, trap_handler(c), Here.prio))

(* A synchronous exception: no handler of the repository returns from one, *)
(* dispatch_exception ends in ExceptionHandler, which panics.              *)
Exception ==
  /\ Here.at \in Rust
  /\ Enter(Activation("exception", trap_handler("exception"), Here.prio))

(* A panic anywhere else; the panic handler is an empty loop. *)
Panic ==
  /\ Here.at \in Rust
  /\ Goto("panic")
  /\ UNCHANGED <<regs, sp, csrs, ie, mip, frames, raised>>

Spin ==
  /\ Here.at = "panic"
  /\ UNCHANGED vars

-------------------------------------------------------------------------------
(* Code that runs on the hart.                                             *)

(* Where the stack of the executing activation begins. *)
Floor == IF frames = <<>> THEN StackTop ELSE frames[Len(frames)].base

(* Code computes and calls. *)
Compute ==
  /\ Here.at \in Rust
  /\ \E v \in Vals : regs' = [r \in Regs |-> v]
  /\ \E k \in 0 .. Locals : sp' = Floor - k
  /\ UNCHANGED <<ctx, csrs, ie, mip, frames, raised>>

(* critical_section::acquire and release of the riscv crate. *)
acquire ==
  /\ Here.at \in {"main", "run", "handle"} /\ Len(Here.cs) < MaxCs
  /\ ctx' = [ctx EXCEPT ![Depth].cs = Append(@, mie)]
  /\ mie' = FALSE
  /\ UNCHANGED <<regs, sp, mepc, mpie, ie, mip, frames, raised>>

release ==
  /\ Here.at \in {"main", "run", "handle"} /\ Here.cs # <<>>
  /\ ctx' = [ctx EXCEPT ![Depth].cs = Front(@)]
  /\ mie' = (mie \/ Last(Here.cs))
  /\ UNCHANGED <<regs, sp, mepc, mpie, ie, mip, frames, raised>>

(* The part of IrqLatch::poll and of Ns16550a::rx_register_waker between   *)
(* disable_interrupts and enable_interrupts.                               *)
PollDisable ==
  /\ Here.at = "run" /\ (PollInCs \/ Here.cs = <<>>)
  /\ Goto("latch") /\ mie' = FALSE
  /\ UNCHANGED <<regs, sp, mepc, mpie, ie, mip, frames, raised>>

PollEnable ==
  /\ Here.at = "latch"
  /\ Goto("run") /\ mie' = TRUE
  /\ UNCHANGED <<regs, sp, mepc, mpie, ie, mip, frames, raised>>

-------------------------------------------------------------------------------
(* The handlers.                                                           *)

(* MachineTimer and MachineExternal: the source is served and quiet. *)
Handled ==
  /\ Here.at = "handle" /\ Here.cs = <<>>
  /\ Goto("ret") /\ mip' = mip \ {Here.kind}
  /\ sp' = Floor
  /\ UNCHANGED <<regs, csrs, ie, frames, raised>>

(* MachineSoft after the hook: clear_pend, and the scheduler if it was     *)
(* the scheduler that pended.                                              *)
clear_pend ==
  /\ Here.at = "hook"
  /\ mip' = mip \ {"MSI"}
  /\ Goto("sched") \/ Goto("ret")
  /\ sp' = Floor
  /\ UNCHANGED <<regs, csrs, ie, frames, raised>>

\* Mutant: an executor as urgent as the running one may preempt it.
try_preemptEqual(p) ==
  /\ Here.at = "sched" /\ p <= Here.prio
  /\ ctx' = [ctx EXCEPT ![Depth].at = "run", ![Depth].prio = p]
  /\ mie' = TRUE
  /\ UNCHANGED <<regs, sp, mepc, mpie, ie, mip, frames, raised>>

(* try_preempt finds a more urgent executor; enable_interrupts, run. *)
try_preempt(p) ==
  /\ Here.at = "sched" /\ p < Here.prio
  /\ ctx' = [ctx EXCEPT ![Depth].at = "run", ![Depth].prio = p]
  /\ mie' = TRUE
  /\ UNCHANGED <<regs, sp, mepc, mpie, ie, mip, frames, raised>>

\* Mutant: interrupts stay on for the rest of the handler.
RunReturnsEnabled ==
  /\ Here.at = "run" /\ Here.cs = <<>>
  /\ ctx' = [ctx EXCEPT ![Depth].at = "sched", ![Depth].prio = Below.prio]
  /\ sp' = Floor
  /\ UNCHANGED <<regs, csrs, ie, mip, frames, raised>>

(* run has returned: disable_interrupts, complete_executor. *)
RunReturns ==
  /\ Here.at = "run" /\ Here.cs = <<>>
  /\ ctx' = [ctx EXCEPT ![Depth].at = "sched", ![Depth].prio = Below.prio]
  /\ sp' = Floor
  /\ mie' = FALSE
  /\ UNCHANGED <<regs, mepc, mpie, ie, mip, frames, raised>>

(* try_preempt finds none, and the handler returns. *)
NoMore ==
  /\ Here.at = "sched" /\ Goto("ret")
  /\ sp' = Floor
  /\ UNCHANGED <<regs, csrs, ie, mip, frames, raised>>

-------------------------------------------------------------------------------
(* The rest of __trap_entry, in the order of its instructions.             *)

Frame == Last(frames)

(* The handler has returned, with anything in the registers.  t0 carries   *)
(* the CSR values and is loaded after them.                                *)
RestoreMepc ==
  /\ Here.at = "ret" /\ Goto("csr_mepc")
  /\ mepc' = Frame.mepc
  /\ \E v \in Vals : regs' = [regs EXCEPT !["x"] = v]
  /\ UNCHANGED <<sp, mie, mpie, ie, mip, frames, raised>>

RestoreMstatus ==
  /\ Here.at = "csr_mepc" /\ Goto("csr_mstatus")
  /\ mie' = Frame.mie /\ mpie' = Frame.mpie
  /\ UNCHANGED <<regs, sp, mepc, ie, mip, frames, raised>>

RestoreRegs ==
  /\ Here.at = "csr_mstatus" /\ Goto("mret")
  /\ regs' = [x |-> Frame.x, t0 |-> Frame.t0] /\ sp' = Frame.sp
  /\ UNCHANGED <<csrs, ie, mip, frames, raised>>

(* The hart resumes the code at mepc. *)
Mret ==
  /\ Here.at = "mret"
  /\ ctx' = SubSeq(ctx, 1, mepc) /\ frames' = Front(frames)
  /\ mie' = mpie /\ mpie' = TRUE
  /\ UNCHANGED <<regs, sp, mepc, ie, mip, raised>>

-------------------------------------------------------------------------------
Startup == __start \/ init \/ start \/ idle
Return == RestoreMepc \/ RestoreMstatus \/ RestoreRegs \/ Mret
Soft == clear_pend \/ RunReturns \/ NoMore \/ \E p \in 0 .. N - 1 : try_preempt(p)
Code == Compute \/ pend \/ acquire \/ release \/ PollDisable \/ PollEnable

Next ==
  \/ Startup \/ Code \/ Handled \/ Soft \/ Return
  \/ \E c \in Causes : Raise(c) \/ Interrupt(c)
  \/ Exception \/ Panic \/ Spin

Spec == Init /\ [][Next]_vars

-------------------------------------------------------------------------------
Addresses == 0 .. StackTop
Words == Vals \cup Addresses

Places == {"reset", "init", "main", "idle", "handle", "hook", "sched", "run", "latch",
           "ret", "csr_mepc", "csr_mstatus", "mret", "panic"}
Activations == [kind : Causes \cup {"thread", "exception"}, at : Places,
                prio : 0 .. N, cs : Seq(BOOLEAN)]
TrapFrames == [base : Addresses, x : Words, t0 : Words, sp : Addresses,
               mepc : Nat, mie : BOOLEAN, mpie : BOOLEAN,
               was : [x : Words, t0 : Words, sp : Addresses, mie : BOOLEAN]]

TypeOK ==
  /\ ctx \in Seq(Activations) /\ Depth >= 1
  /\ regs \in [Regs -> Words] /\ sp \in Addresses
  /\ mepc \in Nat /\ mie \in BOOLEAN /\ mpie \in BOOLEAN
  /\ ie \subseteq Causes /\ mip \subseteq Causes
  /\ frames \in Seq(TrapFrames) /\ raised \in 0 .. MaxRaise

(* Whoever masks interrupts is not interrupted: an activation with a trap  *)
(* on top of it is in the idle loop, in Executor::run or in a panic, and   *)
(* in no critical section.  main(), handlers, registrations and the way    *)
(* out of a trap are undisturbed.  (Exceptions are not interrupts.)        *)
MaskedUndisturbed ==
  \A d \in 1 .. Depth - 1 :
    ctx[d + 1].kind \in Causes => ctx[d].at \in Open /\ ctx[d].cs = <<>>

(* Frames are aligned, lie below everything the interrupted code has on    *)
(* the stack, and do not overlap: words base to base + 32 are written.     *)
FramesDisjoint ==
  /\ Len(frames) = Depth - 1
  /\ \A k \in 1 .. Len(frames) :
       /\ frames[k].base % 2 = 0
       /\ frames[k].base + 32 < frames[k].was.sp
       /\ k > 1 => frames[k].was.sp <= frames[k - 1].base

(* One executor per priority nests, one handler runs masked on top of      *)
(* them, and one exception on top of that: the stack needs no more than    *)
(* that many frames of 272 bytes, each with its alignment and locals.      *)
StackBounded ==
  /\ Depth <= N + 3
  /\ \A k \in 1 .. Len(frames) : frames[k].base >= StackTop - k * (35 + Locals)

(* A trap returns to the code it interrupted, with its stack pointer, its  *)
(* interrupt mask and its registers as they were; t0 aside.                *)
ContextRestored ==
  [][Len(frames') < Len(frames) =>
       /\ Len(ctx') = Depth - 1
       /\ regs'["x"] = Frame.was.x /\ sp' = Frame.was.sp /\ mie' = Frame.was.mie]_vars

(* The whole context comes back, t0 included: what the comment above the   *)
(* restore in entry.rs claims.                                             *)
T0Restored == [][Len(frames') < Len(frames) => regs'["t0"] = Frame.was.t0]_vars
===============================================================================
