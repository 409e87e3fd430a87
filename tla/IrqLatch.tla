------------------------------- MODULE IrqLatch -------------------------------
(***************************************************************************)
(* External interrupts (modules/platform/src/irq.rs): the handler table,   *)
(* dispatch_external, and IrqLatch / IrqFuture, the bridge from a handler  *)
(* to a task.  Each source of Latched has its latch, whose notify() is its *)
(* handler, and one task that awaits the latch in a loop; it may give up   *)
(* an await (select), which leaves its waker in the slot.  The others have *)
(* no handler, ever.                                                       *)
(*                                                                         *)
(* dispatch_external runs in the trap with interrupts off, the second half *)
(* of poll() between disable_interrupts and enable_interrupts: one action  *)
(* each.  The fast path of poll() is a single swap.                        *)
(***************************************************************************)
EXTENDS Plic

CONSTANTS Latched,  \* the sources with an IrqLatch
          MaxIrqs   \* bound on interrupts of a source that no await returned for

ASSUME LatchedAssumption == Latched \subseteq Irqs
ASSUME MaxIrqsAssumption == MaxIrqs \in Nat \ {0}

VARIABLES
  table,      \* the sources with a handler in IRQ_TABLE
  started,    \* interrupts are on
  pending, has_waker,  \* the latches that are set, and that hold a waker
  pc,         \* each task: "away", "poll", "register" or "asleep"
  woken,      \* the tasks the executor will poll
  unseen      \* history: notify() calls since the last Ready

latch == <<pending, has_waker>>
vars == <<plic, line, table, started, latch, pc, woken, unseen>>

Init ==
  /\ PlicInit
  /\ table = {} /\ started = FALSE
  /\ pending = {} /\ has_waker = {} /\ woken = {}
  /\ pc = [i \in Irqs |-> "away"]
  /\ unseen = [i \in Irqs |-> 0]

-------------------------------------------------------------------------------
(* Called from board_init, before interrupts are enabled. *)
register_irq(i) ==
  /\ ~started
  /\ table' = table \cup {i}
  /\ UNCHANGED <<plic, line, started, latch, pc, woken, unseen>>

Start ==
  /\ ~started /\ started' = TRUE
  /\ UNCHANGED <<plic, line, table, latch, pc, woken, unseen>>

(* A device raises its line. *)
Raise(i) ==
  /\ line' = line \cup {i}
  /\ UNCHANGED <<plic, table, started, latch, pc, woken, unseen>>

\* Mutant: the latch is only set when a waker is there.
notifyWakerOnly(i) ==
  /\ pending' = IF i \in has_waker THEN pending \cup {i} ELSE pending
  /\ woken' = IF i \in has_waker THEN woken \cup {i} ELSE woken
  /\ has_waker' = has_waker \ {i}
  /\ unseen' = [unseen EXCEPT ![i] = @ + 1]

\* Mutant: the waker is left in the slot and not woken.
notifyNoWake(i) ==
  /\ pending' = pending \cup {i}
  /\ UNCHANGED <<woken, has_waker>>
  /\ unseen' = [unseen EXCEPT ![i] = @ + 1]

notify(i) ==
  /\ pending' = pending \cup {i}
  /\ woken' = IF i \in has_waker THEN woken \cup {i} ELSE woken
  /\ has_waker' = has_waker \ {i}
  /\ unseen' = [unseen EXCEPT ![i] = @ + 1]

(* The PLIC driver is called with interrupts off. *)
Intctl ==
  /\ Configure
  /\ UNCHANGED <<table, started, latch, pc, woken, unseen>>

(* claim() gives i.  A source without a handler is completed all the same, *)
(* and so is 0, a spurious interrupt.  IRQ_TABLE has MAX_IRQ entries, and  *)
(* the index would panic for a source beyond: Irqs has none.               *)
dispatch_external(i) ==
  /\ started /\ intc /\ Claims(i)
  /\ i \in table => unseen[i] < MaxIrqs
  /\ claim(i)
  /\ IF i \in table THEN notify(i) ELSE UNCHANGED <<latch, woken, unseen>>
  /\ complete(i)
  /\ UNCHANGED <<intc, enable, priority, threshold, asked, table, started, pc>>

-------------------------------------------------------------------------------
Goto(i, l) == pc' = [pc EXCEPT ![i] = l]

(* The task awaits IrqFuture, or is polled again. *)
Await(i) ==
  /\ started /\ (pc[i] = "away" \/ (pc[i] = "asleep" /\ i \in woken))
  /\ Goto(i, "poll")
  /\ woken' = woken \ {i}
  /\ UNCHANGED <<plic, line, table, started, latch, unseen>>

Ready(i) ==
  /\ pending' = pending \ {i}
  /\ unseen' = [unseen EXCEPT ![i] = 0]
  /\ Goto(i, "away")

(* The fast path of IrqLatch::poll. *)
PollFast(i) ==
  /\ pc[i] = "poll"
  /\ IF i \in pending
       THEN Ready(i)
       ELSE Goto(i, "register") /\ UNCHANGED <<pending, unseen>>
  /\ UNCHANGED <<plic, line, table, started, has_waker, woken>>

\* Mutant: pending is not looked at again.
PollRegisterNoRecheck(i) ==
  /\ pc[i] = "register"
  /\ has_waker' = has_waker \cup {i}
  /\ Goto(i, "asleep")
  /\ UNCHANGED <<plic, line, table, started, pending, unseen, woken>>

(* Replace the waker, look again, and on success empty the slot. *)
PollRegister(i) ==
  /\ pc[i] = "register"
  /\ IF i \in pending
       THEN Ready(i) /\ has_waker' = has_waker \ {i}
       ELSE /\ has_waker' = has_waker \cup {i}
            /\ Goto(i, "asleep")
            /\ UNCHANGED <<pending, unseen>>
  /\ UNCHANGED <<plic, line, table, started, woken>>

(* The await is dropped while asleep: IrqFuture has no Drop. *)
GiveUp(i) ==
  /\ pc[i] = "asleep"
  /\ Goto(i, "away")
  /\ UNCHANGED <<plic, line, table, started, latch, woken, unseen>>

Poll(i) == Await(i) \/ PollFast(i) \/ PollRegister(i)

Next ==
  \/ Start \/ Intctl
  \/ \E i \in Latched : register_irq(i) \/ Poll(i) \/ GiveUp(i)
  \/ \E i \in Irqs : Raise(i)
  \/ \E i \in Irqs \cup {0} : dispatch_external(i)

Spec == Init /\ [][Next]_vars

(* A pending external interrupt is taken; the executor runs the tasks,     *)
(* each of which comes back to its latch.                                  *)
FairSpec ==
  /\ Spec /\ WF_vars(Start)
  /\ WF_vars(\E i \in Irqs : dispatch_external(i))
  /\ \A i \in Latched : WF_vars(Poll(i))

-------------------------------------------------------------------------------
TypeOK ==
  /\ PlicTypeOK
  /\ table \subseteq Irqs /\ started \in BOOLEAN
  /\ pending \subseteq Irqs /\ has_waker \subseteq Irqs /\ woken \subseteq Irqs
  /\ pc \in [Irqs -> {"away", "poll", "register", "asleep"}]
  /\ unseen \in [Irqs -> 0 .. MaxIrqs]

(* A task asleep on its latch has been woken, or there is nothing to see   *)
(* and its waker is in the slot: notify() between the two looks at pending *)
(* is seen by the second, a later one finds the waker.                     *)
SleeperNotified ==
  \A i \in Irqs : pc[i] = "asleep" =>
    i \in woken \/ (i \notin pending /\ i \in has_waker)

(* A latch is set exactly while an interrupt has come that no await has    *)
(* returned for: none is lost or reported twice, through abandoned awaits  *)
(* and a waker left behind by one.                                         *)
PendingIffUnseen == \A i \in Irqs : i \in pending <=> unseen[i] > 0

(* Every dispatched interrupt is followed by an await that returns. *)
IrqServed == \A i \in Irqs : unseen[i] > 0 ~> unseen[i] = 0

(* Once the devices are quiet and the controller is left alone, every      *)
(* request that passes the controller is taken, one without a handler and  *)
(* one outranked by all the others included: dispatch_external completes   *)
(* whatever it claimed, so no source stays closed.                         *)
Quiet == line' \subseteq line /\ UNCHANGED <<intc, enable, priority, threshold>>
RequestTaken == (<>[][Quiet]_vars) => \A i \in Irqs : []<>~Requests(i)
===============================================================================
