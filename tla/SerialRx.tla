------------------------------- MODULE SerialRx -------------------------------
(***************************************************************************)
(* Interrupt-driven reception on the NS16550A                              *)
(* (modules/platform/src/drivers/serial_ns16550a.rs): the ring buffer and  *)
(* waker slot of RxState, rx_handler, and rx_register_waker as SerialRx    *)
(* (modules/futures/src/serial.rs) polls it.                               *)
(*                                                                         *)
(* rx_handler runs with interrupts off, and so does the second half of     *)
(* rx_register_waker: one action each.  The fast path pops with interrupts *)
(* on, so every access of it to the ring is an action.  A reader awaits    *)
(* SerialRx in a loop, but may give up an await (select) or be polled out  *)
(* of turn.                                                                *)
(***************************************************************************)
EXTENDS Integers, Sequences, FiniteSets

CONSTANTS
  Readers,      \* the tasks that await SerialRx
  ReaderPrio,   \* their priorities, 0 the most urgent
  RX_BUF_SIZE,  \* a power of two
  FIFO_SIZE,    \* the UART's own receive FIFO
  Bytes

ASSUME SizesAssumption == RX_BUF_SIZE \in Nat \ {0} /\ FIFO_SIZE \in Nat \ {0}
ASSUME PrioAssumption == ReaderPrio \in [Readers -> Nat]
ASSUME BytesAssumption == Bytes # {}

VARIABLES
  fifo,        \* bytes in the UART; LSR.DR when there is one
  head, tail,  \* RxState: the interrupt's index and the task's
  buf,
  has_waker, waker,
  pc,          \* where a reader is in rx_register_waker
  t,           \* the tail and
  byte,        \* the byte its rx_pop has loaded
  woken,       \* the readers the executor will poll
  out          \* the last byte SerialRx was ready with

ring == <<head, tail, buf>>
slot == <<has_waker, waker>>
vars == <<fifo, ring, slot, pc, t, byte, woken, out>>

Index == 0 .. RX_BUF_SIZE - 1
Wrap(i) == i % RX_BUF_SIZE     \* wrapping_add(1) & RX_BUF_MASK

(* probe() has reset the indices; every reader's first poll is to come. *)
Init ==
  /\ fifo = <<>> /\ head = 0 /\ tail = 0
  /\ out \in Bytes
  /\ buf = [i \in Index |-> out]
  /\ has_waker = FALSE /\ waker \in Readers
  /\ pc = [r \in Readers |-> "idle"]
  /\ t = [r \in Readers |-> 0]
  /\ byte = [r \in Readers |-> out]
  /\ woken = Readers

-------------------------------------------------------------------------------
(* The line delivers a byte (the UART overruns by itself when full). *)
Arrive(b) ==
  /\ Len(fifo) < FIFO_SIZE
  /\ fifo' = Append(fifo, b)
  /\ UNCHANGED <<ring, slot, pc, t, byte, woken, out>>

\* Mutant: the test for a full buffer is missing.
RxPushOver(s, b) ==
  [head |-> Wrap(s.head + 1), buf |-> [s.buf EXCEPT ![s.head] = b]]

(* rx_push on the ring s; a full ring drops the byte. *)
RxPush(s, b) ==
  IF Wrap(s.head + 1) = tail
    THEN s
    ELSE [head |-> Wrap(s.head + 1), buf |-> [s.buf EXCEPT ![s.head] = b]]

(* rx_handler's loop: rx_push every byte of the UART. *)
Drained ==
  LET s[k \in 0 .. Len(fifo)] ==
        IF k = 0 THEN [head |-> head, buf |-> buf] ELSE RxPush(s[k - 1], fifo[k])
  IN  s[Len(fifo)]

\* Mutant: the waker slot is emptied, and the waker dropped.
RxWakeDrops == has_waker' = FALSE /\ UNCHANGED <<waker, woken>>

(* rx_wake *)
RxWake ==
  /\ woken' = IF has_waker THEN woken \cup {waker} ELSE woken
  /\ has_waker' = FALSE
  /\ UNCHANGED waker

(* The handler, also of an interrupt that finds the UART empty: a byte may *)
(* arrive while the one before is drained.                                 *)
RxHandler ==
  /\ fifo' = <<>>
  /\ head' = Drained.head /\ buf' = Drained.buf
  /\ RxWake
  /\ UNCHANGED <<tail, pc, t, byte, out>>

-------------------------------------------------------------------------------
(* r has the CPU: every other poll in progress is one it preempted. *)
Runs(r) == \A q \in Readers \ {r} : pc[q] # "idle" => ReaderPrio[r] < ReaderPrio[q]

Goto(r, l) == pc' = [pc EXCEPT ![r] = l]

(* SerialRx is Ready(b), and the reader awaits the next byte at once. *)
Ready(r, b) ==
  /\ out' = b
  /\ woken' = woken \cup {r}
  /\ Goto(r, "idle")

(* rx_pop of the fast path: load tail, load head and compare, read the     *)
(* byte, store tail.                                                       *)
PopTail(r) ==
  /\ Runs(r) /\ pc[r] = "idle" /\ r \in woken
  /\ woken' = woken \ {r}
  /\ t' = [t EXCEPT ![r] = tail]
  /\ Goto(r, "head")
  /\ UNCHANGED <<fifo, ring, slot, byte, out>>

PopHead(r) ==
  /\ Runs(r) /\ pc[r] = "head"
  /\ Goto(r, IF head = t[r] THEN "register" ELSE "read")
  /\ UNCHANGED <<fifo, ring, slot, t, byte, woken, out>>

PopRead(r) ==
  /\ Runs(r) /\ pc[r] = "read"
  /\ byte' = [byte EXCEPT ![r] = buf[t[r]]]
  /\ Goto(r, "store")
  /\ UNCHANGED <<fifo, ring, slot, t, woken, out>>

PopStore(r) ==
  /\ Runs(r) /\ pc[r] = "store"
  /\ tail' = Wrap(t[r] + 1)
  /\ Ready(r, byte[r])
  /\ UNCHANGED <<fifo, head, buf, slot, t, byte>>

\* Mutant: the buffer is not looked at again after the waker is stored.
RegisterNoRecheck(r) ==
  /\ Runs(r) /\ pc[r] = "register"
  /\ waker' = r
  /\ has_waker' = TRUE /\ Goto(r, "idle") /\ UNCHANGED <<tail, woken, out>>
  /\ UNCHANGED <<fifo, head, buf, t, byte>>

(* disable_interrupts .. enable_interrupts: store the waker, pop again, and *)
(* on success take the waker back.                                         *)
Register(r) ==
  /\ Runs(r) /\ pc[r] = "register"
  /\ waker' = r
  /\ IF head = tail
       THEN has_waker' = TRUE /\ Goto(r, "idle") /\ UNCHANGED <<tail, woken, out>>
       ELSE has_waker' = FALSE /\ tail' = Wrap(tail + 1) /\ Ready(r, buf[tail])
  /\ UNCHANGED <<fifo, head, buf, t, byte>>

(* A reader asleep drops its SerialRx, which has no Drop, and awaits a new *)
(* one, or is polled without a wake: its waker is still in the slot.       *)
AwaitAgain(r) ==
  /\ pc[r] = "idle" /\ r \notin woken
  /\ woken' = woken \cup {r}
  /\ UNCHANGED <<fifo, ring, slot, pc, t, byte, out>>

Step(r) == PopTail(r) \/ PopHead(r) \/ PopRead(r) \/ PopStore(r) \/ Register(r)

Next ==
  \/ RxHandler \/ (\E b \in Bytes : Arrive(b))
  \/ \E r \in Readers : Step(r) \/ AwaitAgain(r)

Spec == Init /\ [][Next]_vars

(* A pending receive interrupt is taken and the executor runs the readers. *)
Fairness == WF_vars(fifo # <<>> /\ RxHandler) /\ \A r \in Readers : WF_vars(Step(r))

FairSpec == Spec /\ Fairness

-------------------------------------------------------------------------------
(* Every index is one the buffer has. *)
TypeOK ==
  /\ fifo \in Seq(Bytes)
  /\ head \in Index /\ tail \in Index /\ buf \in [Index -> Bytes]
  /\ has_waker \in BOOLEAN /\ waker \in Readers
  /\ pc \in [Readers -> {"idle", "head", "read", "store", "register"}]
  /\ t \in [Readers -> Index] /\ byte \in [Readers -> Bytes]
  /\ woken \subseteq Readers /\ out \in Bytes

(* The bytes between tail and head, oldest first. *)
Contents == [i \in 1 .. Wrap(head - tail) |-> buf[Wrap(tail + i - 1)]]

C == INSTANCE ByteChannel
       WITH chan <- Contents, Capacity <- RX_BUF_SIZE - 1, Burst <- FIFO_SIZE

(* The ring is a FIFO of RX_BUF_SIZE - 1 bytes, with the interrupt between *)
(* any two steps of a pop, at the full and empty boundaries and across the *)
(* wrap of both indices: bytes are read once, in order, and only dropped   *)
(* by a full buffer.                                                       *)
ImplementsByteChannel == C!Spec

(* A reader that went to sleep does so over an empty ring, or has been     *)
(* woken: a byte that arrives between its two looks at the ring is seen by *)
(* the second, a later one finds the waker.                                *)
ReaderNotAsleepOnData ==
  \A r \in Readers : pc[r] = "idle" /\ r \notin woken =>
    tail = head /\ has_waker /\ waker = r

(* The oldest byte of the ring is eventually read, whatever arrives. *)
BytesServed == \A i \in Index : (tail = i /\ head # i) ~> tail # i
===============================================================================
