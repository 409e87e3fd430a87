--------------------------------- MODULE Boot ---------------------------------
(***************************************************************************)
(* Board start-up: dtb.rs, the Slots and DeviceRegistries and boot() of    *)
(* driver.rs, and the bus stacks of bus.rs (modules/platform/src), as      *)
(* Board::init of a chip crate calls them.  All of it runs once, on one    *)
(* hart, before interrupts are on; one action is one round of the loop     *)
(* over the nodes of the device tree.                                      *)
(*                                                                         *)
(* The tree is any sequence of nodes in DFS preorder, made up as it is     *)
(* walked: a node has a level and the driver its compatible list matches.  *)
(* The loop over the drivers would probe every match; here there is at     *)
(* most one, as the lists of default_drivers() have nothing in common and  *)
(* the boards' nodes name one of them.  Every driver is a singleton that   *)
(* keeps the address of the node it was probed for in a static.  What it   *)
(* writes to its device, and which pins and clocks a node needs, are left  *)
(* out, and so are a tree that cannot be used (init_dtb and a probe panic  *)
(* on a bad blob or a node without reg) and calls out of order (init_dtb   *)
(* twice, boot() before it or without DRIVERS), which no board makes.      *)
(***************************************************************************)
EXTENDS Integers, Sequences, FiniteSetsExt, SequencesExt

CONSTANTS
  SerialDrivers,  \* the singletons that register in SERIALS
  Slots,          \* the slots of single devices: TIMER, IPI, PINCTRL...
  Buses,          \* the kinds of bus: I2C and SPI
  NULL,           \* None, no driver
  N,              \* capacity of the registries
  StackSize,      \* capacity of a bus stack
  MaxDepth,       \* bound: the greatest depth of a node
  BusDepth,       \* bound: the greatest depth of a bus controller
  MaxNodes        \* bound: the nodes of a tree

ASSUME SizesAssumption ==
  /\ N \in Nat \ {0} /\ StackSize \in Nat /\ N <= StackSize
  /\ MaxDepth \in Nat /\ BusDepth \in Nat /\ MaxNodes \in Nat
ASSUME SlotsAssumption ==
  /\ {"PINCTRL", "CLOCK"} \subseteq Slots /\ Slots \cap {"SERIAL", "no", "full"} = {}
  /\ (Buses \cup {NULL}) \cap (Slots \cup {"SERIAL"}) = {}
ASSUME NullAssumption ==
  NULL \notin SerialDrivers \cup Buses /\ \A n \in 0 .. MaxNodes : n # NULL

VARIABLES
  stage,        \* "reset", "dtb", "drivers", "walk" or "done"
  ready,        \* the slots of single devices that are STATE_READY
  SERIALS,      \* DeviceRegistry: its slots and the cursor next
  registry,     \* registry[b]: I2C_BUSES or SPI_BUSES
  CONSOLE,      \* Slot: the driver, NULL while STATE_UNINIT
  base,         \* base[d]: BASE of the serial driver d, a node
  bus_stack,    \* bus_stack[b]: the indices of the active controllers
  root_level,   \* the level fdt_parser gives the root: 0 or 1, not decided here
  prev_level,
  path,         \* of the last node and its ancestors: the bus each is
  client,       \* the last client of a bus: its parent and the bus it found
  nodes,        \* how many nodes have been visited
  panicked,     \* "no", "full", or the device that is missing
  first,        \* history: the first node probed for each kind of device
  probed        \* history: the last node probed and what it found ready

devices == <<SERIALS, registry, ready, base>>
history == <<first, probed>>
vars == <<stage, devices, CONSOLE, bus_stack, root_level, prev_level, path,
          client, nodes, panicked, history>>

Services == Slots \cup {"SERIAL"}

-------------------------------------------------------------------------------
(* DeviceRegistry<T, N>.                                                   *)

Index == 0 .. N - 1
EmptyRegistry == [slots |-> [i \in Index |-> NULL], next |-> 0]

\* Mutant: a slot is taken whether it is empty or not.
FreeAny(r) == Index

(* The probes, counted from the cursor, that find an empty slot. *)
Free(r) == {i \in Index : r.slots[(r.next + i) % N] = NULL}

(* register: the index it returns, when one of N probes succeeds. *)
Slot(r) == (r.next + Min(Free(r))) % N

register(r, dev) ==
  [slots |-> [r.slots EXCEPT ![Slot(r)] = dev], next |-> (Slot(r) + 1) % N]

(* get: the index is reduced, not checked. *)
get(r, idx) == r.slots[idx % N]

(* iter().next(): the first device in index order. *)
First(r) ==
  LET used == {i \in Index : r.slots[i] # NULL}
  IN  IF used = {} THEN NULL ELSE r.slots[Min(used)]

-------------------------------------------------------------------------------
Init ==
  /\ stage = "reset"
  /\ SERIALS = EmptyRegistry /\ ready = {} /\ base = [d \in SerialDrivers |-> NULL]
  /\ registry = [b \in Buses |-> EmptyRegistry]
  /\ CONSOLE = NULL
  /\ bus_stack = [b \in Buses |-> <<>>]
  /\ root_level \in {0, 1}
  /\ prev_level = 1 /\ path = <<>> /\ client = NULL /\ nodes = 0
  /\ panicked = "no"
  /\ first = [v \in Services |-> NULL] /\ probed = NULL

(* Board::init: the tree, the driver list, then boot(). *)
init_dtb ==
  /\ stage = "reset" /\ stage' = "dtb"
  /\ UNCHANGED <<devices, CONSOLE, bus_stack, root_level, prev_level, path, client, nodes, panicked, history>>

SetDrivers ==
  /\ stage = "dtb" /\ stage' = "drivers"
  /\ UNCHANGED <<devices, CONSOLE, bus_stack, root_level, prev_level, path, client, nodes, panicked, history>>

(* boot() up to its loop: bus_stack_reset. *)
BootBegin ==
  /\ stage = "drivers" /\ stage' = "walk"
  /\ bus_stack' = [b \in Buses |-> <<>>]
  /\ prev_level' = 1
  /\ UNCHANGED <<devices, CONSOLE, root_level, path, client, nodes, panicked, history>>

(* Node::level, of a node so many steps below the root. *)
Level(depth) == root_level + depth

(* The stacks in the round of a node: going back up to level 1 clears      *)
(* both, any other way up leaves them.                                     *)
PopTo(depth) ==
  IF Level(depth) < prev_level /\ Level(depth) <= 1 THEN [b \in Buses |-> <<>>] ELSE bus_stack

(* push_i2c, push_spi: a push onto a full stack is ignored. *)
Push(stack, i) == IF Len(stack) < StackSize THEN Append(stack, i) ELSE stack

\* Mutant: the outermost controller on the stack.
CurrentFirst(b, stack) == IF stack = <<>> THEN NULL ELSE get(registry[b], Head(stack))

(* current_i2c, current_spi: the device registered under the top index. *)
Current(b, stack) == IF stack = <<>> THEN NULL ELSE get(registry[b], Last(stack))

(* try_derive_console, which the loop calls while there is none: the first *)
(* port.  chosen.stdout-path only decides on a warning when there is none. *)
DeriveConsole(serials) ==
  IF CONSOLE = NULL THEN First(serials) ELSE CONSOLE

(* The ancestors of a node at this depth. *)
Ancestors(depth) == SubSeq(path, 1, depth - 1)
Parent(depth) == IF depth > 1 THEN path[depth - 1] ELSE NULL

\* Mutant: the pin and clock controllers are asked after the probe.
PreparedLate == ready' \cap {"PINCTRL", "CLOCK"}

(* pinctrl-0 and the clocks of a node are set up before its probe, by the  *)
(* controllers that are ready.                                             *)
Prepared == ready \cap {"PINCTRL", "CLOCK"}

(* Logger: what is logged goes to the console, or nowhere. *)
Logged == IF CONSOLE # NULL THEN {"SERIAL"} ELSE {}

(* One round with the node's own driver left to the actions below. *)
Round(depth, bus) ==
  /\ stage = "walk" /\ panicked = "no" /\ nodes < MaxNodes
  /\ depth \in 1 .. Min({Len(path) + 1, MaxDepth})
  /\ nodes' = nodes + 1
  /\ path' = Append(Ancestors(depth), bus)
  /\ prev_level' = Level(depth)
  /\ UNCHANGED <<stage, root_level>>

(* The node has a driver, which provides the service v. *)
Probe(v) ==
  /\ probed' = [node |-> nodes, found |-> Prepared \cup Logged]
  /\ first' = IF v \in Services /\ first[v] = NULL THEN [first EXCEPT ![v] = nodes] ELSE first

(* A node without a driver. *)
VisitOther(depth) ==
  /\ Round(depth, NULL)
  /\ bus_stack' = PopTo(depth)
  /\ CONSOLE' = DeriveConsole(SERIALS)
  /\ UNCHANGED <<devices, client, panicked, history>>

(* Slot::set. *)
SetSlot(v) == ready \cup {v}

(* A single device: its probe sets its slot. *)
VisitSingle(depth, v) ==
  /\ Round(depth, NULL)
  /\ bus_stack' = PopTo(depth)
  /\ ready' = SetSlot(v)
  /\ CONSOLE' = DeriveConsole(SERIALS)
  /\ UNCHANGED <<SERIALS, registry, base, client, panicked>>
  /\ Probe(v)

(* A serial port: its probe registers the driver in SERIALS. *)
VisitSerial(depth, drv) ==
  /\ Round(depth, NULL)
  /\ bus_stack' = PopTo(depth)
  /\ base' = [base EXCEPT ![drv] = nodes]
  /\ IF Free(SERIALS) = {}
       THEN panicked' = "full" /\ UNCHANGED <<SERIALS, CONSOLE>>
       ELSE /\ SERIALS' = register(SERIALS, drv)
            /\ CONSOLE' = DeriveConsole(SERIALS')
            /\ UNCHANGED panicked
  /\ UNCHANGED <<registry, ready, client>>
  /\ Probe("SERIAL")

(* A bus controller: its probe registers the bus and pushes its index. The *)
(* device is named by the number of the node.                              *)
VisitBus(depth, b) ==
  LET r == registry[b] IN
  /\ depth <= BusDepth
  /\ Round(depth, [kind |-> b, dev |-> nodes])
  /\ IF Free(r) = {}
       THEN panicked' = "full" /\ bus_stack' = PopTo(depth) /\ UNCHANGED registry
       ELSE /\ registry' = [registry EXCEPT ![b] = register(r, nodes)]
            /\ bus_stack' = [PopTo(depth) EXCEPT ![b] = Push(@, Slot(r))]
            /\ UNCHANGED panicked
  /\ CONSOLE' = DeriveConsole(SERIALS)
  /\ UNCHANGED <<SERIALS, ready, base, client>>
  /\ Probe(b)

(* A client of bus b: its probe takes the current bus. *)
VisitClient(depth, b) ==
  /\ Round(depth, NULL)
  /\ bus_stack' = PopTo(depth)
  /\ client' = [kind |-> b, parent |-> Parent(depth), bus |-> Current(b, PopTo(depth)[b])]
  /\ CONSOLE' = DeriveConsole(SERIALS)
  /\ UNCHANGED <<devices, panicked>>
  /\ Probe(NULL)

(* The end of the tree: one more try_derive_console, this time always. *)
BootEnd ==
  /\ stage = "walk" /\ panicked = "no"
  /\ stage' = "done"
  /\ CONSOLE' = IF First(SERIALS) = NULL THEN CONSOLE ELSE First(SERIALS)
  /\ UNCHANGED <<devices, bus_stack, root_level, prev_level, path, client, nodes, panicked, history>>

(* start(), the application and, between two rounds of the walk, a probe   *)
(* take devices with console(), timer() and the other accessors that       *)
(* expect() one.                                                           *)
Missing(v) == IF v = "SERIAL" THEN CONSOLE = NULL ELSE v \notin ready
Access(v) ==
  /\ stage \in {"walk", "done"} /\ panicked = "no" /\ v \notin {"PINCTRL", "CLOCK"}
  /\ Missing(v) /\ panicked' = v
  /\ UNCHANGED <<stage, devices, CONSOLE, bus_stack, root_level, prev_level, path, client, nodes, history>>

Visit ==
  \E depth \in 1 .. MaxDepth :
    \/ VisitOther(depth)
    \/ \E v \in Slots : VisitSingle(depth, v)
    \/ \E drv \in SerialDrivers : VisitSerial(depth, drv)
    \/ \E b \in Buses : VisitBus(depth, b) \/ VisitClient(depth, b)

Next ==
  \/ init_dtb \/ SetDrivers \/ BootBegin \/ Visit \/ BootEnd
  \/ \E v \in Services : Access(v)

Spec == Init /\ [][Next]_vars

-------------------------------------------------------------------------------
Registry(T) == [slots : [Index -> {NULL} \cup T], next : Index]

TypeOK ==
  /\ stage \in {"reset", "dtb", "drivers", "walk", "done"}
  /\ SERIALS \in Registry(SerialDrivers)
  /\ registry \in [Buses -> Registry(0 .. MaxNodes)]
  /\ ready \subseteq Slots /\ base \in [SerialDrivers -> {NULL} \cup 0 .. MaxNodes]
  /\ CONSOLE \in {NULL} \cup SerialDrivers
  /\ \A b \in Buses : bus_stack[b] \in Seq(Index) /\ Len(bus_stack[b]) <= StackSize
  /\ prev_level \in 0 .. MaxDepth + 1 /\ nodes \in 0 .. MaxNodes
  /\ panicked \in {"no", "full"} \cup Services

Used(r) == {i \in Index : r.slots[i] # NULL}

(* However far the cursor has gone, register hands out 0, 1, 2, ... in     *)
(* turn and overwrites nothing, so that iter() yields the devices in the   *)
(* order of the tree and only a device too many panics.                    *)
RegistryFirstFit ==
  LET InTurn(r) == Used(r) = 0 .. Cardinality(Used(r)) - 1
                   /\ r.next = Cardinality(Used(r)) % N
      all == {SERIALS} \cup {registry[b] : b \in Buses}
  IN  /\ \A r \in all : InTurn(r)
      /\ panicked = "full" => \E r \in all : Used(r) = Index

(* A device is probed with its pins and clock set up, and what its probe   *)
(* logs is seen, exactly when the controller, and a serial port, comes     *)
(* before it in the tree; a controller is no use to itself.  There is a    *)
(* console from the round of the first serial port on, and on a board with *)
(* one port it is that one; the accessors, during the walk and after it,   *)
(* expect() in vain only what the tree has not had so far.                 *)
ProbeFindsEarlier ==
  /\ panicked \in Services => first[panicked] = NULL
  /\ CONSOLE = NULL <=> Used(SERIALS) = {}
  /\ \A i \in Index : Used(SERIALS) = {i} => CONSOLE = SERIALS.slots[i]
  /\ probed # NULL =>
       probed.found = {v \in {"PINCTRL", "CLOCK", "SERIAL"} :
                         first[v] # NULL /\ first[v] < probed.node}

(* "child probe finds its parent bus": with the controllers directly below *)
(* the root, a client below a controller gets that controller, whatever    *)
(* childless or differently typed controllers came before it, and although *)
(* a full stack ignores a push: the registries are exhausted first.        *)
ClientOnItsBus ==
  client # NULL /\ client.parent # NULL =>
    (client.parent.kind = client.kind => client.bus = client.parent.dev)

(* DeviceRegistry::get, by its comment, of an index that is out of range.  *)
GetOutOfRangeIsNone == \A idx \in N .. 2 * N : get(SERIALS, idx) = NULL

(* The console stays on the port it was derived from: so it would if every *)
(* serial node had a driver instance of its own.                           *)
ConsoleKeepsPort ==
  [][CONSOLE # NULL => base'[CONSOLE] = base[CONSOLE]]_vars
===============================================================================
