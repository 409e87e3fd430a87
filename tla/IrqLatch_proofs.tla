---------------------------- MODULE IrqLatch_proofs ----------------------------
(* For any set of sources: no interrupt is lost between its handler and   *)
(* the task that awaits it.                                               *)
EXTENDS TLAPS, IrqLatch

(* What each step needs of the state: types, and the two properties. *)
IInv == TypeOK /\ SleeperNotified /\ PendingIffUnseen /\ EnabledAsAsked

(* The latches, the tasks and the history start empty. *)
LEMMA InitInv == Init => IInv
<1> SUFFICES ASSUME Init PROVE IInv
  OBVIOUS
<1>1. 0 \in 0 .. MaxIrqs /\ ~(0 > 0)
  BY MaxIrqsAssumption
<1>2. TypeOK
  <2>1. 0 \in 0 .. MaxPrio
    BY MaxPrioAssumption
  <2>2. PlicTypeOK
    BY <2>1 DEF Init, PlicInit, PlicTypeOK
  <2> QED BY <1>1, <2>2 DEF Init, TypeOK
<1>3. SleeperNotified
  BY DEF Init, SleeperNotified
<1>4. PendingIffUnseen
  BY <1>1 DEF Init, PendingIffUnseen
<1>5. EnabledAsAsked
  BY DEF Init, PlicInit, EnabledAsAsked
<1> QED BY <1>2, <1>3, <1>4, <1>5 DEF IInv

(* Two sources with the same word and bit are the same source. *)
LEMMA WordAndBit ==
  ASSUME NEW i \in 1 .. MAX_IRQ - 1
  PROVE  /\ i \div 32 \in Words /\ i % 32 \in Bits
         /\ \A w \in Words, b \in Bits :
              32 * w + b = i <=> (w = i \div 32 /\ b = i % 32)
  BY DEF MAX_IRQ, Words, Bits

(* A driver call leaves the latches and the tasks alone and moves one bit. *)
LEMMA IntctlInv ==
  ASSUME IInv, Intctl
  PROVE  IInv'
<1> USE DEF IInv
<1>1. SleeperNotified' /\ PendingIffUnseen'
  BY DEF SleeperNotified, PendingIffUnseen, Intctl, latch
<1>2. ASSUME PlicTypeOK', EnabledAsAsked' PROVE IInv'
  BY <1>1, <1>2 DEF TypeOK, Intctl, latch
<1>3. CASE probe
  BY <1>2, <1>3, MaxPrioAssumption DEF TypeOK, PlicTypeOK, EnabledAsAsked, probe
<1>4. ASSUME NEW i \in Irqs, enable_irq(i) PROVE IInv'
  <2>1. PlicTypeOK'
    BY <1>4, WordAndBit, IrqsAssumption DEF TypeOK, PlicTypeOK, enable_irq
  <2>2. EnabledAsAsked'
    BY <1>4, WordAndBit, IrqsAssumption
       DEF TypeOK, PlicTypeOK, EnabledAsAsked, enable_irq
  <2> QED BY <2>1, <2>2, <1>2
<1>5. ASSUME NEW i \in Irqs, disable_irq(i) PROVE IInv'
  <2>1. PlicTypeOK'
    BY <1>5, WordAndBit, IrqsAssumption DEF TypeOK, PlicTypeOK, disable_irq
  <2>2. EnabledAsAsked'
    BY <1>5, WordAndBit, IrqsAssumption
       DEF TypeOK, PlicTypeOK, EnabledAsAsked, disable_irq
  <2> QED BY <2>1, <2>2, <1>2
<1>6. ASSUME NEW i \in Irqs, NEW p \in 0 .. MaxPrio, set_priority(i, p) PROVE IInv'
  BY <1>2, <1>6 DEF TypeOK, PlicTypeOK, EnabledAsAsked, set_priority
<1>7. ASSUME NEW t \in 0 .. MaxPrio, set_threshold(t) PROVE IInv'
  BY <1>2, <1>7 DEF TypeOK, PlicTypeOK, EnabledAsAsked, set_threshold
<1> QED BY <1>3, <1>4, <1>5, <1>6, <1>7 DEF Intctl, Configure

(* Dispatching i notifies at most the latch of i. *)
LEMMA DispatchInv ==
  ASSUME IInv, NEW i \in Irqs \cup {0}, dispatch_external(i)
  PROVE  IInv'
<1> USE MaxIrqsAssumption DEF IInv
<1>1. TypeOK'
  BY DEF TypeOK, PlicTypeOK, dispatch_external, claim, complete, notify, latch
<1>2. SleeperNotified'
  BY DEF TypeOK, SleeperNotified, dispatch_external, notify, latch
<1>3. PendingIffUnseen'
  BY DEF TypeOK, PendingIffUnseen, dispatch_external, notify, latch
<1>4. EnabledAsAsked'
  BY DEF EnabledAsAsked, dispatch_external
<1> QED BY <1>1, <1>2, <1>3, <1>4

(* A poll that returns Ready consumes the latch and its history together;  *)
(* one that goes to sleep has just seen the latch clear.                   *)
LEMMA PollInv ==
  ASSUME IInv, NEW i \in Irqs, Poll(i)
  PROVE  IInv'
<1> USE MaxIrqsAssumption DEF IInv
<1>1. CASE Await(i)
  BY <1>1 DEF TypeOK, SleeperNotified, PendingIffUnseen,
         PlicTypeOK, EnabledAsAsked, plic, Await, Goto, latch
<1>2. CASE PollFast(i)
  BY <1>2 DEF TypeOK, SleeperNotified, PendingIffUnseen,
         PlicTypeOK, EnabledAsAsked, plic, PollFast, Ready, Goto
<1>3. CASE PollRegister(i)
  BY <1>3 DEF TypeOK, SleeperNotified, PendingIffUnseen,
         PlicTypeOK, EnabledAsAsked, plic, PollRegister, Ready, Goto
<1> QED BY <1>1, <1>2, <1>3 DEF Poll

(* Interrupts, dispatch, polls and drops keep the inductive invariant. *)
LEMMA NextInv == IInv /\ [Next]_vars => IInv'
<1> SUFFICES ASSUME IInv, [Next]_vars PROVE IInv'
  OBVIOUS
<1>1. CASE Start
  BY <1>1 DEF IInv, TypeOK, SleeperNotified, PendingIffUnseen,
         PlicTypeOK, EnabledAsAsked, plic, Start, latch
<1>2. ASSUME NEW i \in Latched, register_irq(i) PROVE IInv'
  BY <1>2, LatchedAssumption DEF IInv, TypeOK, SleeperNotified, PendingIffUnseen,
         PlicTypeOK, EnabledAsAsked, plic, register_irq, latch
<1>3. ASSUME NEW i \in Irqs, Raise(i) PROVE IInv'
  BY <1>3 DEF IInv, TypeOK, SleeperNotified, PendingIffUnseen,
         PlicTypeOK, EnabledAsAsked, plic, Raise, latch
<1>4. ASSUME NEW i \in Irqs, GiveUp(i) PROVE IInv'
  BY <1>4 DEF IInv, TypeOK, SleeperNotified, PendingIffUnseen,
         PlicTypeOK, EnabledAsAsked, plic, GiveUp, Goto, latch
<1>5. CASE UNCHANGED vars
  BY <1>5 DEF IInv, TypeOK, SleeperNotified, PendingIffUnseen,
         PlicTypeOK, EnabledAsAsked, plic, vars, latch
<1> QED
  BY <1>1, <1>2, <1>3, <1>4, <1>5, IntctlInv, DispatchInv, PollInv, LatchedAssumption DEF Next

(* The inductive invariant of the latch holds of every reachable state. *)
THEOREM InvAlways == Spec => []IInv
  BY InitInv, NextInv, PTL DEF Spec

(* IrqLatch::notify never leaves its task asleep: in every reachable state *)
(* a sleeping task is woken or has nothing to see and a waker in the slot. *)
THEOREM SleeperNotifiedAlways == Spec => []SleeperNotified
<1>1. IInv => SleeperNotified
  BY DEF IInv
<1> QED BY <1>1, InvAlways, PTL

(* IrqLatch.pending is set exactly while an interrupt waits for an await   *)
(* of IrqFuture to return.                                                 *)
THEOREM PendingIffUnseenAlways == Spec => []PendingIffUnseen
<1>1. IInv => PendingIffUnseen
  BY DEF IInv
<1> QED BY <1>1, InvAlways, PTL

(* The enable words of the PLIC hold exactly the sources asked for:        *)
(* enable_irq and disable_irq of one source never touch another.           *)
THEOREM EnabledAsAskedAlways == Spec => []EnabledAsAsked
<1>1. IInv => EnabledAsAsked
  BY DEF IInv
<1> QED BY <1>1, InvAlways, PTL
===============================================================================
