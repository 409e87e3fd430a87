--------------------------------- MODULE Plic ---------------------------------
(***************************************************************************)
(* The interrupt controller: the SiFive PLIC driver                        *)
(* (modules/platform/src/drivers/plic_sifive.rs) for the context of this   *)
(* hart, and the device as that driver uses it.  The enable registers are  *)
(* words of 32 sources, here sets of bits, read and written back by        *)
(* enable_irq and disable_irq: one step each, because by the comment there *)
(* the callers have interrupts off; the driver does not see to it.         *)
(***************************************************************************)
EXTENDS Integers

CONSTANTS Irqs,    \* the sources wired up
          MaxPrio  \* the greatest priority of a source

MAX_IRQ == 96

ASSUME IrqsAssumption == Irqs \subseteq 1 .. MAX_IRQ - 1
ASSUME MaxPrioAssumption == MaxPrio \in Nat

VARIABLES
  intc,       \* INTC: the driver was probed
  enable,     \* the enable registers: word -> its bits
  priority, threshold,
  line,       \* device: the sources that have raised an interrupt
  claimed,    \* device: the sources claimed and not completed
  asked       \* history: the sources last asked to be enabled

plic == <<intc, enable, priority, threshold, claimed, asked>>

Words == 0 .. 2
Bits == 0 .. 31

PlicInit ==
  /\ intc = FALSE
  /\ enable = [w \in Words |-> {}]
  /\ priority = [i \in Irqs |-> 0]
  /\ threshold \in 0 .. MaxPrio  \* as reset or another hart left it
  /\ line = {} /\ claimed = {} /\ asked = {}

probe ==
  /\ intc' = TRUE /\ threshold' = 0
  /\ UNCHANGED <<enable, priority, line, claimed, asked>>

\* Mutant: the word is set to the bit, what it held is lost.
enable_irqOverwrites(i) ==
  /\ intc
  /\ enable' = [enable EXCEPT ![i \div 32] = {i % 32}]
  /\ asked' = asked \cup {i}
  /\ UNCHANGED <<intc, priority, threshold, line, claimed>>

enable_irq(i) ==
  /\ intc
  /\ enable' = [enable EXCEPT ![i \div 32] = @ \cup {i % 32}]
  /\ asked' = asked \cup {i}
  /\ UNCHANGED <<intc, priority, threshold, line, claimed>>

disable_irq(i) ==
  /\ intc
  /\ enable' = [enable EXCEPT ![i \div 32] = @ \ {i % 32}]
  /\ asked' = asked \ {i}
  /\ UNCHANGED <<intc, priority, threshold, line, claimed>>

set_priority(i, p) ==
  /\ intc /\ priority' = [priority EXCEPT ![i] = p]
  /\ UNCHANGED <<intc, enable, threshold, line, claimed, asked>>

set_threshold(t) ==
  /\ intc /\ threshold' = t
  /\ UNCHANGED <<intc, enable, priority, line, claimed, asked>>

Enabled(i) == i % 32 \in enable[i \div 32]

(* Device: the sources a claim may return, and the one it returns: of the  *)
(* greatest priority, the first of these; 0 when there is none.            *)
Requests(i) == i \in line /\ Enabled(i) /\ priority[i] > threshold
Claimable == {i \in Irqs \ claimed : Requests(i)}
Outranks(i, j) == priority[i] > priority[j] \/ (priority[i] = priority[j] /\ i < j)
Claims(i) ==
  \/ i = 0 /\ Claimable = {}
  \/ i \in Claimable /\ \A j \in Claimable \ {i} : Outranks(i, j)

(* A claim() that returned i, and complete(i) after it: the source is      *)
(* closed in between.                                                      *)
claim(i) == line' = line \ {i}

\* Mutant: not completed, the source stays closed.
completeNever(i) == claimed' = (claimed \cup {i}) \ {0}

complete(i) == claimed' = claimed \ {i}

Configure ==
  \/ probe
  \/ \E i \in Irqs : enable_irq(i) \/ disable_irq(i)
                       \/ \E p \in 0 .. MaxPrio : set_priority(i, p)
  \/ \E t \in 0 .. MaxPrio : set_threshold(t)

PlicTypeOK ==
  /\ intc \in BOOLEAN
  /\ enable \in [Words -> SUBSET Bits]
  /\ priority \in [Irqs -> 0 .. MaxPrio] /\ threshold \in 0 .. MaxPrio
  /\ line \subseteq Irqs /\ claimed \subseteq Irqs /\ asked \subseteq Irqs

(* Exactly the sources asked for are enabled: the read-modify-write of one *)
(* source leaves every other bit of the three words as it was.             *)
EnabledAsAsked ==
  \A w \in Words, b \in Bits : b \in enable[w] <=> 32 * w + b \in asked
===============================================================================
