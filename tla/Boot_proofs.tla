------------------------------ MODULE Boot_proofs ------------------------------
(* What start-up guarantees for every device tree, every capacity of the   *)
(* registries and of the bus stacks, and every set of drivers.             *)
EXTENDS TLAPS, Boot, SequenceTheorems, FiniteSetTheorems

(* The registry holds k devices, in the slots 0 to k - 1. *)
Holds(r, k) ==
  /\ k \in 0 .. N /\ r.next = k % N
  /\ \A i \in Index : r.slots[i] # NULL <=> i < k

(* A new registry holds nothing. *)
LEMMA EmptyHolds == Holds(EmptyRegistry, 0)
<1>1. 0 % N = 0
  BY SizesAssumption
<1> QED BY <1>1, SizesAssumption DEF Holds, EmptyRegistry, Index

(* Adding one to a cursor below N, with the turn at N. *)
LEMMA Wrap == ASSUME NEW k \in 0 .. N - 1 PROVE k % N = k /\ (k + 0) % N = k
  BY SizesAssumption

(* The cursor of a registry with room points at its first empty slot, and  *)
(* register takes that one at its first probe.                             *)
LEMMA SlotInTurn ==
  ASSUME NEW r, NEW k, Holds(r, k), k < N
  PROVE  Free(r) # {} /\ Slot(r) = k /\ k \in Index
<1>1. k \in 0 .. N - 1 /\ k \in Index
  BY SizesAssumption DEF Holds, Index
<1>2. r.next = k
  BY <1>1, Wrap DEF Holds
<1>3. 0 \in Index /\ (r.next + 0) % N = k
  BY <1>1, <1>2, Wrap, SizesAssumption DEF Index
<1>4. r.slots[k] = NULL
  BY <1>1 DEF Holds
<1>5. 0 \in Free(r)
  BY <1>3, <1>4 DEF Free
<1>6. \A y \in Free(r) : y \in Nat /\ 0 <= y
  BY SizesAssumption DEF Free, Index
<1>7. Min(Free(r)) = 0
  <2>1. Min(Free(r)) \in Free(r) /\ \A y \in Free(r) : Min(Free(r)) <= y
    BY <1>5, <1>6 DEF Min
  <2> QED BY <1>5, <1>6, <2>1
<1> QED BY <1>1, <1>3, <1>5, <1>7 DEF Slot

(* No probe of a full registry finds an empty slot. *)
LEMMA FullHasNoFree ==
  ASSUME NEW r, Holds(r, N)
  PROVE  Free(r) = {} /\ Used(r) = Index
<1>1. ASSUME NEW i \in Index PROVE i < N
  BY SizesAssumption DEF Index
<1>2. ASSUME NEW i \in Index PROVE (r.next + i) % N \in Index
  BY SizesAssumption DEF Index, Holds
<1> QED BY <1>1, <1>2 DEF Holds, Free, Used

(* A registry that finds no empty slot is full. *)
LEMMA NoFreeIsFull ==
  ASSUME NEW r, NEW k, Holds(r, k), Free(r) = {}
  PROVE  Holds(r, N)
<1>1. k \in 0 .. N
  BY DEF Holds
<1>2. k = N
  BY <1>1, SlotInTurn, SizesAssumption
<1> QED BY <1>2

(* A registry with an empty slot has room. *)
LEMMA FreeHasRoom ==
  ASSUME NEW r, NEW k, Holds(r, k), Free(r) # {}
  PROVE  k < N
<1>1. k \in 0 .. N
  BY DEF Holds
<1> QED BY <1>1, FullHasNoFree, SizesAssumption

(* register fills the next slot and no other. *)
LEMMA RegisterHolds ==
  ASSUME NEW T, NEW r \in Registry(T), NEW k, Holds(r, k), k < N, NEW dev \in T, dev # NULL
  PROVE  /\ register(r, dev) \in Registry(T)
         /\ Holds(register(r, dev), k + 1)
         /\ \A i \in Index : i # k => register(r, dev).slots[i] = r.slots[i]
<1>1. Slot(r) = k /\ k \in Index
  BY SlotInTurn
<1> DEFINE s == [r.slots EXCEPT ![k] = dev]
           n == (k + 1) % N
<1>2. register(r, dev) = [slots |-> s, next |-> n]
  BY <1>1 DEF register
<1>3. r.slots \in [Index -> {NULL} \cup T]
  BY DEF Registry
<1>4. s \in [Index -> {NULL} \cup T] /\ s[k] = dev /\ \A i \in Index : i # k => s[i] = r.slots[i]
  BY <1>1, <1>3
<1>5. n \in Index
  BY <1>1, SizesAssumption DEF Index
<1> HIDE DEF s
<1>6. \A i \in Index : s[i] # NULL <=> i < k + 1
  <2> SUFFICES ASSUME NEW i \in Index PROVE s[i] # NULL <=> i < k + 1
    OBVIOUS
  <2>1. i \in Nat /\ k \in Nat
    BY <1>1, SizesAssumption DEF Index
  <2>2. r.slots[i] # NULL <=> i < k
    BY DEF Holds
  <2>3. CASE i = k
    BY <1>4, <2>1, <2>3
  <2>4. CASE i # k
    BY <1>4, <2>1, <2>2, <2>4
  <2> QED BY <2>3, <2>4
<1>7. k + 1 \in 0 .. N
  BY <1>1, SizesAssumption DEF Index
<1> QED BY <1>2, <1>4, <1>5, <1>6, <1>7 DEF Registry, Holds

(* The slots in use are as many as the registry holds. *)
LEMMA UsedInTurn ==
  ASSUME NEW r, NEW k, Holds(r, k)
  PROVE  Used(r) = 0 .. k - 1 /\ Cardinality(Used(r)) = k
<1>1. k \in 0 .. N
  BY DEF Holds
<1>2. Used(r) = 0 .. k - 1
  BY <1>1, SizesAssumption DEF Holds, Used, Index
<1>3. Cardinality(0 .. k - 1) = k
  BY <1>1, FS_Interval, SizesAssumption
<1> QED BY <1>2, <1>3

(* iter().next() is the device of slot 0, and there is none in an empty    *)
(* registry.                                                               *)
LEMMA FirstIsSlot0 ==
  ASSUME NEW r, NEW k, Holds(r, k)
  PROVE  /\ 0 \in Index /\ First(r) = r.slots[0]
         /\ First(r) = NULL <=> k = 0
<1>1. k \in 0 .. N /\ 0 \in Index /\ (r.slots[0] # NULL <=> 0 < k)
  BY SizesAssumption DEF Holds, Index
<1> DEFINE used == {i \in Index : r.slots[i] # NULL}
<1>2. First(r) = IF used = {} THEN NULL ELSE r.slots[Min(used)]
  BY DEF First
<1>3. used = 0 .. k - 1
  BY UsedInTurn DEF Used
<1> HIDE DEF used
<1>4. CASE k = 0
  <2>1. used = {}
    BY <1>3, <1>4
  <2> QED BY <1>1, <1>2, <1>4, <2>1
<1>5. CASE k # 0
  <2>1. 0 \in used /\ \A y \in used : y \in Nat /\ 0 <= y
    BY <1>1, <1>3, <1>5, SizesAssumption
  <2>2. Min(used) \in used /\ \A y \in used : Min(used) <= y
    BY <2>1 DEF Min
  <2>3. Min(used) = 0
    BY <2>1, <2>2
  <2> QED BY <1>1, <1>2, <1>5, <2>1, <2>3, SizesAssumption
<1> QED BY <1>4, <1>5

(* The bus that an entry of path is, NULL for a node of another kind. *)
Bus == {NULL} \cup [kind : Buses, dev : 0 .. MaxNodes]

BeforeWalk == {"reset", "dtb", "drivers"}

(* TypeOK, and the types of what it leaves open. *)
TypeInv ==
  /\ TypeOK
  /\ bus_stack \in [Buses -> Seq(Index)]
  /\ root_level \in {0, 1}
  /\ path \in Seq(Bus) /\ Len(path) <= MaxDepth
  /\ first \in [Services -> {NULL} \cup 0 .. MaxNodes]
  /\ stage \in BeforeWalk => path = <<>>

(* The registries are filled in turn, and start-up gives up only on a full *)
(* one.                                                                    *)
RegistryInv ==
  /\ \E k : Holds(SERIALS, k)
  /\ \A b \in Buses : \E k : Holds(registry[b], k)
  /\ panicked = "full" => Holds(SERIALS, N) \/ \E b \in Buses : Holds(registry[b], N)

(* What one round leaves of the walk. *)
LEMMA RoundWalk ==
  ASSUME TypeInv, NEW depth \in 1 .. MaxDepth, NEW bus \in Bus, Round(depth, bus)
  PROVE  /\ depth <= Len(path) + 1
         /\ nodes \in 0 .. MaxNodes /\ nodes' \in 0 .. MaxNodes /\ nodes' = nodes + 1
         /\ nodes # NULL
         /\ path' \in Seq(Bus) /\ Len(path') = depth
         /\ \A i \in 1 .. depth - 1 : i \in 1 .. Len(path) /\ path'[i] = path[i]
         /\ path'[depth] = bus
         /\ prev_level' \in 0 .. MaxDepth + 1
<1>1. nodes \in 0 .. MaxNodes /\ nodes' \in 0 .. MaxNodes /\ nodes' = nodes + 1
  BY SizesAssumption DEF Round, TypeInv, TypeOK
<1>2. path \in Seq(Bus) /\ Len(path) \in Nat /\ MaxDepth \in Nat
  BY SizesAssumption, LenProperties DEF TypeInv
<1>3. depth <= Len(path) + 1
  <2> DEFINE S == {Len(path) + 1, MaxDepth}
  <2>1. \E x \in S : \A y \in S : x <= y
    BY <1>2
  <2>2. Min(S) <= Len(path) + 1 /\ Min(S) \in Int
    BY <1>2, <2>1 DEF Min
  <2>3. depth \in 1 .. Min(S)
    BY DEF Round
  <2> HIDE DEF S
  <2> QED BY <1>2, <2>2, <2>3
<1>4. \A i \in 1 .. depth - 1 : i \in 1 .. Len(path)
  BY <1>2, <1>3
<1> DEFINE a == SubSeq(path, 1, depth - 1)
<1>5. a \in Seq(Bus) /\ Len(a) = depth - 1 /\ \A i \in 1 .. depth - 1 : a[i] = path[i]
  <2>1. a = [i \in 1 .. depth - 1 |-> path[i]]
    BY <1>2
  <2>2. \A i \in 1 .. depth - 1 : path[i] \in Bus
    BY <1>2, <1>4, ElementOfSeq
  <2>3. depth - 1 \in Nat
    BY <1>2
  <2> HIDE DEF a
  <2>4. a \in [1 .. depth - 1 -> Bus]
    BY <2>1, <2>2
  <2>5. a \in Seq(Bus)
    BY <2>3, <2>4, SeqDef
  <2>6. DOMAIN a = 1 .. depth - 1
    BY <2>1
  <2> QED BY <2>1, <2>3, <2>5, <2>6, LenProperties
<1>6. path' = Append(a, bus)
  BY DEF Round, Ancestors
<1> HIDE DEF a
<1>7. /\ path' \in Seq(Bus) /\ Len(path') = depth
      /\ \A i \in 1 .. depth - 1 : path'[i] = path[i]
      /\ path'[depth] = bus
  BY <1>2, <1>5, <1>6, AppendProperties
<1>8. prev_level' \in 0 .. MaxDepth + 1
  BY <1>2 DEF Round, Level, TypeInv
<1> QED BY <1>1, <1>3, <1>4, <1>7, <1>8, NullAssumption

(* The stacks after the round of a node without a controller. *)
LEMMA PopToType ==
  ASSUME TypeInv, NEW depth
  PROVE  /\ PopTo(depth) \in [Buses -> Seq(Index)]
         /\ \A b \in Buses : Len(PopTo(depth)[b]) <= StackSize /\ Len(PopTo(depth)[b]) <= Len(bus_stack[b])
<1>1. <<>> \in Seq(Index) /\ Len(<<>>) = 0 /\ StackSize \in Nat
  BY SizesAssumption
<1>2. \A b \in Buses : Len(bus_stack[b]) \in Nat /\ Len(bus_stack[b]) <= StackSize
  BY LenProperties DEF TypeInv, TypeOK
<1> QED BY <1>1, <1>2 DEF PopTo, TypeInv

(* The console is a serial driver, or none. *)
LEMMA ConsoleType ==
  ASSUME NEW r \in Registry(SerialDrivers), NEW k, Holds(r, k)
  PROVE  First(r) \in {NULL} \cup SerialDrivers
  BY FirstIsSlot0 DEF Registry

(* A probe notes the node as the first of its kind, or changes nothing. *)
LEMMA ProbeType ==
  ASSUME TypeInv, NEW v, Probe(v), nodes \in 0 .. MaxNodes
  PROVE  first' \in [Services -> {NULL} \cup 0 .. MaxNodes]
  BY DEF Probe, TypeInv

(* The devices that a probe can make use of. *)
Useful == {"PINCTRL", "CLOCK", "SERIAL"}

(* The history agrees with the devices that are ready, and the last probe  *)
(* found those that came before it.                                        *)
ProbeInv ==
  /\ \A v \in Services : first[v] # NULL => first[v] \in 0 .. nodes - 1
  /\ \A v \in Slots : first[v] # NULL <=> v \in ready
  /\ first["SERIAL"] # NULL <=> CONSOLE # NULL
  /\ CONSOLE = First(SERIALS)
  /\ probed # NULL =>
       /\ probed.node \in 0 .. nodes - 1
       /\ probed.found = {v \in Useful : first[v] # NULL /\ first[v] < probed.node}
  /\ panicked \in Services => first[panicked] = NULL

IInv == TypeInv /\ RegistryInv /\ ProbeInv

(* The types after a round whose own effects have theirs. *)
LEMMA RoundType ==
  ASSUME TypeInv, NEW depth \in 1 .. MaxDepth, NEW bus \in Bus, Round(depth, bus),
         SERIALS' \in Registry(SerialDrivers), registry' \in [Buses -> Registry(0 .. MaxNodes)],
         ready' \subseteq Slots, base' \in [SerialDrivers -> {NULL} \cup 0 .. MaxNodes],
         CONSOLE' \in {NULL} \cup SerialDrivers,
         bus_stack' \in [Buses -> Seq(Index)],
         \A b \in Buses : Len(bus_stack'[b]) <= StackSize,
         panicked' \in {"no", "full"}, first' \in [Services -> {NULL} \cup 0 .. MaxNodes]
  PROVE  TypeInv'
<1>1. /\ nodes' \in 0 .. MaxNodes /\ path' \in Seq(Bus) /\ Len(path') = depth
      /\ prev_level' \in 0 .. MaxDepth + 1
  BY RoundWalk
<1>2. stage' = "walk" /\ root_level' \in {0, 1}
  BY DEF Round, TypeInv
<1> QED BY <1>1, <1>2 DEF TypeInv, TypeOK, BeforeWalk

(* What a probe that provides v adds to the history. *)
LEMMA ProbeHistory ==
  ASSUME TypeInv, ProbeInv, NEW v, Probe(v), nodes' = nodes + 1, nodes # NULL
  PROVE  /\ first' \in [Services -> {NULL} \cup 0 .. MaxNodes]
         /\ \A w \in Services : first'[w] # NULL => first'[w] \in 0 .. nodes' - 1
         /\ \A w \in Services : first'[w] # NULL <=> (first[w] # NULL \/ w = v)
         /\ probed'.node \in 0 .. nodes' - 1
         /\ probed'.found = {w \in Useful : first'[w] # NULL /\ first'[w] < probed'.node}
<1>1. nodes \in 0 .. MaxNodes /\ MaxNodes \in Nat
  BY SizesAssumption DEF TypeInv, TypeOK
<1>2. first \in [Services -> {NULL} \cup 0 .. MaxNodes]
  BY DEF TypeInv
<1>3. first' = IF v \in Services /\ first[v] = NULL THEN [first EXCEPT ![v] = nodes] ELSE first
  BY DEF Probe
<1>4. first' \in [Services -> {NULL} \cup 0 .. MaxNodes]
  BY <1>1, <1>2, <1>3
<1>5. ASSUME NEW w \in Services
      PROVE  first'[w] = IF w = v /\ first[w] = NULL THEN nodes ELSE first[w]
  BY <1>2, <1>3
<1>6. \A w \in Services : first[w] # NULL => first[w] \in 0 .. nodes - 1
  BY DEF ProbeInv
<1>7. \A w \in Services : first'[w] # NULL => first'[w] \in 0 .. nodes' - 1
  BY <1>1, <1>5, <1>6
<1>8. \A w \in Services : first'[w] # NULL <=> (first[w] # NULL \/ w = v)
  BY <1>5
<1>9. probed'.node = nodes /\ probed'.found = Prepared \cup Logged
  BY DEF Probe
<1>10. Useful \subseteq Services
  BY SlotsAssumption DEF Useful, Services
<1>11. ASSUME NEW w \in Useful
       PROVE  (first'[w] # NULL /\ first'[w] < nodes) <=> first[w] # NULL
  BY <1>1, <1>5, <1>6, <1>10
<1>12. ASSUME NEW w \in Useful
       PROVE  w \in Prepared \cup Logged <=> first[w] # NULL
  <2>1. CASE w = "SERIAL"
    BY <2>1 DEF Prepared, Logged, ProbeInv
  <2>2. CASE w # "SERIAL"
    <3>1. w \in Slots /\ w \in {"PINCTRL", "CLOCK"}
      BY <2>2, SlotsAssumption DEF Useful
    <3> QED BY <2>2, <3>1 DEF Prepared, Logged, ProbeInv
  <2> QED BY <2>1, <2>2
<1>13. Prepared \cup Logged \subseteq Useful
  BY DEF Prepared, Logged, Useful
<1>14. Prepared \cup Logged = {w \in Useful : first'[w] # NULL /\ first'[w] < nodes}
  BY <1>11, <1>12, <1>13
<1> QED BY <1>1, <1>4, <1>7, <1>8, <1>9, <1>14

(* The console that a round of the loop derives while the serial ports     *)
(* stay as they are.                                                       *)
LEMMA ConsoleSame == ASSUME ProbeInv PROVE DeriveConsole(SERIALS) = CONSOLE
  BY DEF ProbeInv, DeriveConsole

(* A node without a driver, and a client of a bus. *)
LEMMA OtherInv ==
  ASSUME IInv, NEW depth \in 1 .. MaxDepth,
         VisitOther(depth) \/ \E b \in Buses : VisitClient(depth, b)
  PROVE  IInv'
<1>1. Round(depth, NULL) /\ bus_stack' = PopTo(depth) /\ UNCHANGED <<devices, panicked, CONSOLE>>
  BY ConsoleSame DEF VisitOther, VisitClient, IInv
<1>2. UNCHANGED history \/ Probe(NULL)
  BY DEF VisitOther, VisitClient
<1>3. nodes' = nodes + 1 /\ nodes # NULL /\ nodes \in 0 .. MaxNodes
  BY <1>1, RoundWalk DEF IInv, Bus
<1>4. panicked = "no"
  BY <1>1 DEF Round
<1>5. /\ first' \in [Services -> {NULL} \cup 0 .. MaxNodes]
      /\ \A w \in Services : first'[w] # NULL => first'[w] \in 0 .. nodes' - 1
      /\ \A w \in Services : first'[w] # NULL <=> first[w] # NULL
      /\ probed' # NULL =>
           /\ probed'.node \in 0 .. nodes' - 1
           /\ probed'.found = {w \in Useful : first'[w] # NULL /\ first'[w] < probed'.node}
  <2>1. CASE Probe(NULL)
    <3>1. NULL \notin Services
      BY SlotsAssumption DEF Services
    <3> QED BY <1>3, <2>1, <3>1, ProbeHistory DEF IInv
  <2>2. CASE UNCHANGED history
    <3>1. first' = first /\ probed' = probed
      BY <2>2 DEF history
    <3> QED BY <1>3, <3>1 DEF IInv, TypeInv, ProbeInv
  <2> QED BY <1>2, <2>1, <2>2
<1>6. TypeInv'
  BY <1>1, <1>4, <1>5, PopToType, RoundType DEF IInv, TypeInv, TypeOK, devices, Bus
<1>7. RegistryInv'
  BY <1>1 DEF IInv, RegistryInv, devices
<1>8. ProbeInv'
  <2>1. "no" \notin Services
    BY SlotsAssumption DEF Services
  <2>2. "SERIAL" \in Services /\ Slots \subseteq Services
    BY DEF Services
  <2>3. SERIALS' = SERIALS /\ CONSOLE' = CONSOLE /\ ready' = ready /\ panicked' = "no"
    BY <1>1, <1>4 DEF devices
  <2> QED BY <1>5, <2>1, <2>2, <2>3 DEF IInv, ProbeInv
<1> QED BY <1>6, <1>7, <1>8 DEF IInv

(* A single device is ready from its probe on. *)
LEMMA SingleInv ==
  ASSUME IInv, NEW depth \in 1 .. MaxDepth, NEW v \in Slots, VisitSingle(depth, v)
  PROVE  IInv'
<1>1. /\ Round(depth, NULL) /\ bus_stack' = PopTo(depth) /\ ready' = ready \cup {v} /\ Probe(v)
      /\ UNCHANGED <<SERIALS, registry, base, panicked, CONSOLE>>
  BY ConsoleSame DEF VisitSingle, SetSlot, IInv
<1>2. nodes' = nodes + 1 /\ nodes # NULL /\ panicked = "no"
  BY <1>1, RoundWalk DEF IInv, Bus, Round
<1>3. /\ first' \in [Services -> {NULL} \cup 0 .. MaxNodes]
      /\ \A w \in Services : first'[w] # NULL => first'[w] \in 0 .. nodes' - 1
      /\ \A w \in Services : first'[w] # NULL <=> (first[w] # NULL \/ w = v)
      /\ probed'.node \in 0 .. nodes' - 1
      /\ probed'.found = {w \in Useful : first'[w] # NULL /\ first'[w] < probed'.node}
  BY <1>1, <1>2, ProbeHistory DEF IInv
<1>4. TypeInv'
  BY <1>1, <1>2, <1>3, PopToType, RoundType DEF IInv, TypeInv, TypeOK, Bus
<1>5. RegistryInv'
  BY <1>1 DEF IInv, RegistryInv
<1>6. ProbeInv'
  <2>1. "no" \notin Services /\ v # "SERIAL"
    BY SlotsAssumption DEF Services
  <2>2. "SERIAL" \in Services /\ Slots \subseteq Services
    BY DEF Services
  <2>3. \A w \in Slots : first'[w] # NULL <=> w \in ready'
    BY <1>1, <1>3, <2>2 DEF IInv, ProbeInv
  <2>4. first'["SERIAL"] # NULL <=> CONSOLE' # NULL
    BY <1>1, <1>3, <2>1, <2>2 DEF IInv, ProbeInv
  <2> QED BY <1>1, <1>2, <1>3, <2>1, <2>3, <2>4 DEF IInv, ProbeInv
<1> QED BY <1>4, <1>5, <1>6 DEF IInv

(* A serial port goes into the next slot of SERIALS and, if it is the      *)
(* first, becomes the console.                                             *)
LEMMA SerialInv ==
  ASSUME IInv, NEW depth \in 1 .. MaxDepth, NEW drv \in SerialDrivers, VisitSerial(depth, drv)
  PROVE  IInv'
<1>1. /\ Round(depth, NULL) /\ bus_stack' = PopTo(depth) /\ base' = [base EXCEPT ![drv] = nodes]
      /\ Probe("SERIAL") /\ UNCHANGED <<registry, ready>>
  BY DEF VisitSerial
<1>2. nodes' = nodes + 1 /\ nodes # NULL /\ panicked = "no" /\ nodes \in 0 .. MaxNodes
  BY <1>1, RoundWalk DEF IInv, Bus, Round
<1>3. /\ first' \in [Services -> {NULL} \cup 0 .. MaxNodes]
      /\ \A w \in Services : first'[w] # NULL => first'[w] \in 0 .. nodes' - 1
      /\ \A w \in Services : first'[w] # NULL <=> (first[w] # NULL \/ w = "SERIAL")
      /\ probed'.node \in 0 .. nodes' - 1
      /\ probed'.found = {w \in Useful : first'[w] # NULL /\ first'[w] < probed'.node}
  BY <1>1, <1>2, ProbeHistory DEF IInv
<1>4. PICK k : Holds(SERIALS, k)
  BY DEF IInv, RegistryInv
<1>5. SERIALS \in Registry(SerialDrivers) /\ drv # NULL
  BY NullAssumption DEF IInv, TypeInv, TypeOK
<1>6. /\ SERIALS' \in Registry(SerialDrivers) /\ CONSOLE' = First(SERIALS')
      /\ CONSOLE' # NULL /\ CONSOLE' \in SerialDrivers
      /\ \E m : Holds(SERIALS', m)
      /\ \/ panicked' = "no"
         \/ panicked' = "full" /\ Holds(SERIALS', N)
  <2>1. CASE Free(SERIALS) = {}
    <3>1. panicked' = "full" /\ SERIALS' = SERIALS /\ CONSOLE' = CONSOLE
      BY <2>1 DEF VisitSerial
    <3>2. Holds(SERIALS, N)
      BY <1>4, <2>1, NoFreeIsFull
    <3>3. CONSOLE = First(SERIALS) /\ CONSOLE # NULL
      BY <3>2, FirstIsSlot0, SizesAssumption DEF IInv, ProbeInv
    <3> QED BY <1>5, <3>1, <3>2, <3>3, ConsoleType
  <2>2. CASE Free(SERIALS) # {}
    <3>1. /\ panicked' = panicked /\ SERIALS' = register(SERIALS, drv)
          /\ CONSOLE' = IF CONSOLE = NULL THEN First(SERIALS') ELSE CONSOLE
      BY <2>2 DEF VisitSerial, DeriveConsole
    <3>2. k < N /\ k \in 0 .. N
      BY <1>4, <2>2, FreeHasRoom DEF Holds
    <3>3. /\ SERIALS' \in Registry(SerialDrivers) /\ Holds(SERIALS', k + 1)
          /\ \A i \in Index : i # k => SERIALS'.slots[i] = SERIALS.slots[i]
      BY <1>4, <1>5, <3>1, <3>2, RegisterHolds
    <3>4. /\ First(SERIALS) = SERIALS.slots[0] /\ 0 \in Index
          /\ First(SERIALS) = NULL <=> k = 0
      BY <1>4, FirstIsSlot0
    <3>5. First(SERIALS') = SERIALS'.slots[0] /\ First(SERIALS') # NULL
      <4>1. k + 1 # 0
        BY <3>2
      <4> QED BY <3>3, <4>1, FirstIsSlot0
    <3>6. CONSOLE' = First(SERIALS')
      BY <3>1, <3>3, <3>4, <3>5 DEF IInv, ProbeInv
    <3> QED BY <1>2, <3>1, <3>3, <3>5, <3>6, ConsoleType
  <2> QED BY <2>1, <2>2
<1>7. TypeInv'
  <2>1. base' \in [SerialDrivers -> {NULL} \cup 0 .. MaxNodes]
    BY <1>1, <1>2 DEF IInv, TypeInv, TypeOK
  <2> QED BY <1>1, <1>3, <1>6, <2>1, PopToType, RoundType DEF IInv, TypeInv, TypeOK, Bus
<1>8. RegistryInv'
  BY <1>1, <1>6 DEF IInv, RegistryInv
<1>9. ProbeInv'
  <2>1. "SERIAL" \notin Slots /\ panicked' \notin Services
    BY <1>6, SlotsAssumption DEF Services
  <2>2. "SERIAL" \in Services /\ Slots \subseteq Services
    BY DEF Services
  <2>3. \A w \in Slots : first'[w] # NULL <=> w \in ready'
    BY <1>1, <1>3, <2>1, <2>2 DEF IInv, ProbeInv
  <2>4. first'["SERIAL"] # NULL
    BY <1>3, <2>2
  <2> QED BY <1>3, <1>6, <2>1, <2>3, <2>4 DEF ProbeInv
<1> QED BY <1>7, <1>8, <1>9 DEF IInv

(* What a bus controller does to its registry and its stack. *)
LEMMA BusEffect ==
  ASSUME IInv, NEW depth \in 1 .. MaxDepth, NEW b \in Buses, VisitBus(depth, b)
  PROVE  \E k : /\ Holds(registry[b], k)
                /\ \/ k = N /\ panicked' = "full" /\ registry' = registry /\ bus_stack' = PopTo(depth)
                   \/ /\ k < N /\ panicked' = panicked
                      /\ registry' = [registry EXCEPT ![b] = register(registry[b], nodes)]
                      /\ bus_stack' = [PopTo(depth) EXCEPT ![b] = Push(@, k)]
<1>1. PICK k : Holds(registry[b], k)
  BY DEF IInv, RegistryInv
<1>2. CASE Free(registry[b]) = {}
  <2>1. Holds(registry[b], N)
    BY <1>1, <1>2, NoFreeIsFull
  <2> QED BY <1>2, <2>1 DEF VisitBus
<1>3. CASE Free(registry[b]) # {}
  <2>1. k < N /\ Slot(registry[b]) = k
    BY <1>1, <1>3, FreeHasRoom, SlotInTurn
  <2> QED BY <1>1, <1>3, <2>1 DEF VisitBus
<1> QED BY <1>2, <1>3

(* push keeps a stack within its capacity. *)
LEMMA PushType ==
  ASSUME NEW s \in Seq(Index), Len(s) <= StackSize, NEW i \in Index
  PROVE  /\ Push(s, i) \in Seq(Index) /\ Len(Push(s, i)) <= StackSize
         /\ Len(Push(s, i)) <= Len(s) + 1
<1>1. Len(s) \in Nat /\ StackSize \in Nat
  BY SizesAssumption, LenProperties
<1>2. Append(s, i) \in Seq(Index) /\ Len(Append(s, i)) = Len(s) + 1
  BY AppendProperties
<1> QED BY <1>1, <1>2 DEF Push

(* A bus controller goes into the next slot of the registry of its kind. *)
LEMMA ControllerInv ==
  ASSUME IInv, NEW depth \in 1 .. MaxDepth, NEW b \in Buses, VisitBus(depth, b)
  PROVE  IInv'
<1> DEFINE bus == [kind |-> b, dev |-> nodes]
<1>1. Round(depth, bus) /\ Probe(b) /\ UNCHANGED <<SERIALS, ready, base, CONSOLE>>
  BY ConsoleSame DEF VisitBus, IInv
<1>2. bus \in Bus
  BY DEF Bus, IInv, TypeInv, TypeOK
<1> HIDE DEF bus
<1>3. nodes' = nodes + 1 /\ nodes # NULL /\ panicked = "no" /\ nodes \in 0 .. MaxNodes
  BY <1>1, <1>2, RoundWalk DEF IInv, Round
<1>4. /\ first' \in [Services -> {NULL} \cup 0 .. MaxNodes]
      /\ \A w \in Services : first'[w] # NULL => first'[w] \in 0 .. nodes' - 1
      /\ \A w \in Services : first'[w] # NULL <=> (first[w] # NULL \/ w = b)
      /\ probed'.node \in 0 .. nodes' - 1
      /\ probed'.found = {w \in Useful : first'[w] # NULL /\ first'[w] < probed'.node}
  BY <1>1, <1>3, ProbeHistory DEF IInv
<1>5. PICK k : /\ Holds(registry[b], k)
               /\ \/ k = N /\ panicked' = "full" /\ registry' = registry /\ bus_stack' = PopTo(depth)
                  \/ /\ k < N /\ panicked' = panicked
                     /\ registry' = [registry EXCEPT ![b] = register(registry[b], nodes)]
                     /\ bus_stack' = [PopTo(depth) EXCEPT ![b] = Push(@, k)]
  BY BusEffect
<1>6. registry \in [Buses -> Registry(0 .. MaxNodes)]
  BY DEF IInv, TypeInv, TypeOK
<1>7. /\ registry' \in [Buses -> Registry(0 .. MaxNodes)]
      /\ \A c \in Buses : \E m : Holds(registry'[c], m)
      /\ bus_stack' \in [Buses -> Seq(Index)] /\ \A c \in Buses : Len(bus_stack'[c]) <= StackSize
      /\ panicked' \in {"no", "full"} /\ (panicked' = "full" => Holds(registry'[b], N))
  <2>1. /\ PopTo(depth) \in [Buses -> Seq(Index)]
        /\ \A c \in Buses : Len(PopTo(depth)[c]) <= StackSize
    BY PopToType DEF IInv
  <2>2. CASE k = N /\ panicked' = "full" /\ registry' = registry /\ bus_stack' = PopTo(depth)
    BY <1>5, <1>6, <2>1, <2>2 DEF IInv, RegistryInv
  <2>3. CASE /\ k < N /\ panicked' = panicked
             /\ registry' = [registry EXCEPT ![b] = register(registry[b], nodes)]
             /\ bus_stack' = [PopTo(depth) EXCEPT ![b] = Push(@, k)]
    <3>1. /\ register(registry[b], nodes) \in Registry(0 .. MaxNodes)
          /\ Holds(register(registry[b], nodes), k + 1)
      BY <1>3, <1>5, <1>6, <2>3, RegisterHolds
    <3>2. k \in Index
      BY <1>5, <2>3, SlotInTurn
    <3>3. Push(PopTo(depth)[b], k) \in Seq(Index) /\ Len(Push(PopTo(depth)[b], k)) <= StackSize
      BY <2>1, <3>2, PushType
    <3>4. \A c \in Buses : \E m : Holds(registry'[c], m)
      BY <1>6, <2>3, <3>1 DEF IInv, RegistryInv
    <3> QED BY <1>3, <1>6, <2>1, <2>3, <3>1, <3>3, <3>4
  <2> QED BY <1>5, <2>2, <2>3
<1>8. TypeInv'
  BY <1>1, <1>2, <1>4, <1>7, RoundType DEF IInv, TypeInv, TypeOK
<1>9. RegistryInv'
  BY <1>1, <1>7 DEF IInv, RegistryInv
<1>10. ProbeInv'
  <2>1. b \notin Services /\ panicked' \notin Services
    BY <1>7, SlotsAssumption DEF Services
  <2>2. "SERIAL" \in Services /\ Slots \subseteq Services
    BY DEF Services
  <2>3. \A w \in Services : first'[w] # NULL <=> first[w] # NULL
    BY <1>4, <2>1
  <2>4. SERIALS' = SERIALS /\ CONSOLE' = CONSOLE /\ ready' = ready
    BY <1>1
  <2> QED BY <1>4, <2>1, <2>2, <2>3, <2>4 DEF IInv, ProbeInv
<1> QED BY <1>8, <1>9, <1>10 DEF IInv

(* The steps of Board::init before the loop, and the end of the loop, at   *)
(* which the console is the first serial port already.                     *)
LEMMA StageInv ==
  ASSUME IInv, init_dtb \/ SetDrivers \/ BootBegin \/ BootEnd
  PROVE  IInv'
<1>1. UNCHANGED <<devices, root_level, path, nodes, panicked, history>>
  BY DEF init_dtb, SetDrivers, BootBegin, BootEnd
<1>2. CONSOLE' = CONSOLE
  BY DEF init_dtb, SetDrivers, BootBegin, BootEnd, IInv, ProbeInv
<1>3. bus_stack' = bus_stack \/ bus_stack' = [b \in Buses |-> <<>>]
  BY DEF init_dtb, SetDrivers, BootBegin, BootEnd
<1>4. <<>> \in Seq(Index) /\ Len(<<>>) = 0 /\ StackSize \in Nat /\ MaxDepth \in Nat
  BY SizesAssumption
<1>5. /\ bus_stack' \in [Buses -> Seq(Index)]
      /\ \A b \in Buses : Len(bus_stack'[b]) <= StackSize
  <2>1. CASE bus_stack' = bus_stack
    BY <2>1 DEF IInv, TypeInv, TypeOK
  <2>2. CASE bus_stack' = [b \in Buses |-> <<>>]
    BY <1>4, <2>2
  <2> QED BY <1>3, <2>1, <2>2
<1>6. prev_level' \in 0 .. MaxDepth + 1
  BY <1>4 DEF init_dtb, SetDrivers, BootBegin, BootEnd, IInv, TypeInv, TypeOK
<1>7. /\ stage' \in {"reset", "dtb", "drivers", "walk", "done"}
      /\ stage' \in BeforeWalk => stage \in BeforeWalk
  BY DEF init_dtb, SetDrivers, BootBegin, BootEnd, BeforeWalk
<1>8. /\ SERIALS' = SERIALS /\ registry' = registry /\ ready' = ready /\ base' = base
      /\ first' = first /\ probed' = probed /\ root_level' = root_level /\ path' = path
      /\ nodes' = nodes /\ panicked' = panicked
  BY <1>1 DEF devices, history
<1>9. TypeInv'
  BY <1>2, <1>5, <1>6, <1>7, <1>8 DEF IInv, TypeInv, TypeOK
<1>10. RegistryInv'
  BY <1>8 DEF IInv, RegistryInv
<1>11. ProbeInv'
  BY <1>2, <1>8 DEF IInv, ProbeInv
<1> QED BY <1>9, <1>10, <1>11 DEF IInv

(* An accessor panics on a device that the tree has not had so far. *)
LEMMA AccessInv ==
  ASSUME IInv, NEW v \in Services, Access(v)
  PROVE  IInv'
<1>1. /\ SERIALS' = SERIALS /\ registry' = registry /\ ready' = ready /\ base' = base
      /\ first' = first /\ probed' = probed /\ root_level' = root_level /\ path' = path
      /\ nodes' = nodes /\ stage' = stage /\ CONSOLE' = CONSOLE /\ bus_stack' = bus_stack
      /\ prev_level' = prev_level /\ panicked' = v /\ Missing(v)
  BY DEF Access, devices, history
<1>2. TypeInv'
  BY <1>1 DEF IInv, TypeInv, TypeOK
<1>3. v # "full"
  BY SlotsAssumption DEF Services
<1>4. RegistryInv'
  BY <1>1, <1>3 DEF IInv, RegistryInv
<1>5. first[v] = NULL
  BY <1>1 DEF Missing, IInv, ProbeInv, Services
<1>6. ProbeInv'
  BY <1>1, <1>5 DEF IInv, ProbeInv
<1> QED BY <1>2, <1>4, <1>6 DEF IInv

(* At reset every registry is empty and nothing has been probed. *)
LEMMA InitInv == Init => IInv
<1> SUFFICES ASSUME Init PROVE IInv
  OBVIOUS
<1>1. EmptyRegistry \in Registry(SerialDrivers) /\ EmptyRegistry \in Registry(0 .. MaxNodes)
  BY SizesAssumption DEF EmptyRegistry, Registry, Index
<1>2. /\ <<>> \in Seq(Index) /\ Len(<<>>) = 0 /\ <<>> \in Seq(Bus)
      /\ StackSize \in Nat /\ MaxDepth \in Nat /\ MaxNodes \in Nat
  BY SizesAssumption
<1>3. TypeInv
  BY <1>1, <1>2 DEF Init, TypeInv, TypeOK, BeforeWalk
<1>4. RegistryInv
  BY EmptyHolds DEF Init, RegistryInv
<1>5. First(EmptyRegistry) = NULL
  BY EmptyHolds, FirstIsSlot0
<1>6. "no" \notin Services /\ Slots \subseteq Services /\ "SERIAL" \in Services
  BY SlotsAssumption DEF Services
<1>7. ProbeInv
  BY <1>5, <1>6 DEF Init, ProbeInv
<1> QED BY <1>3, <1>4, <1>7 DEF IInv

(* Every step keeps the inductive invariant. *)
LEMMA NextInv == IInv /\ [Next]_vars => IInv'
<1> SUFFICES ASSUME IInv, [Next]_vars PROVE IInv'
  OBVIOUS
<1>1. CASE Visit
  BY <1>1, OtherInv, SingleInv, SerialInv, ControllerInv DEF Visit
<1>2. CASE UNCHANGED vars
  BY <1>2 DEF vars, devices, history, IInv, TypeInv, TypeOK, RegistryInv, ProbeInv
<1> QED BY <1>1, <1>2, StageInv, AccessInv DEF Next

(* The inductive invariant holds throughout start-up. *)
THEOREM InvAlways == Spec => []IInv
  BY InitInv, NextInv, PTL DEF Spec

(* Type correctness of start-up: in particular neither a registry nor a    *)
(* bus stack is ever indexed or filled beyond its capacity.                *)
THEOREM TypeCorrect == Spec => []TypeOK
<1>1. IInv => TypeOK
  BY DEF IInv, TypeInv
<1> QED BY <1>1, InvAlways, PTL

(* DeviceRegistry::register fills the slots 0, 1, 2, ... in turn and       *)
(* overwrites none, for any capacity; probe panics only on a full one.     *)
THEOREM RegistryAlwaysFirstFit == Spec => []RegistryFirstFit
<1> DEFINE all == {SERIALS} \cup {registry[b] : b \in Buses}
<1>1. ASSUME RegistryInv, NEW r \in all
      PROVE  /\ Used(r) = 0 .. Cardinality(Used(r)) - 1
             /\ r.next = Cardinality(Used(r)) % N
  <2>1. PICK k : Holds(r, k)
    BY <1>1 DEF RegistryInv
  <2>2. Used(r) = 0 .. k - 1 /\ Cardinality(Used(r)) = k
    BY <2>1, UsedInTurn
  <2> QED BY <2>1, <2>2 DEF Holds
<1>2. ASSUME RegistryInv, panicked = "full"
      PROVE  \E r \in all : Used(r) = Index
  BY <1>2, FullHasNoFree DEF RegistryInv
<1>3. RegistryInv => RegistryFirstFit
  BY <1>1, <1>2 DEF RegistryFirstFit
<1>4. IInv => RegistryFirstFit
  BY <1>3 DEF IInv
<1> QED BY <1>4, InvAlways, PTL

(* For every device tree, boot() sets up a node's pins and clock, and its  *)
(* log is seen, exactly when the controller and a serial port come before  *)
(* it; there is a console once there is a port, the only one if it is, and *)
(* expect() fails only on a device that the tree has not had so far.       *)
THEOREM ProbeAlwaysFindsEarlier == Spec => []ProbeFindsEarlier
<1>1. ASSUME IInv PROVE ProbeFindsEarlier
  <2>1. PICK k : Holds(SERIALS, k)
    BY <1>1 DEF IInv, RegistryInv
  <2>2. Used(SERIALS) = 0 .. k - 1 /\ k \in 0 .. N
    BY <2>1, UsedInTurn DEF Holds
  <2>3. First(SERIALS) = SERIALS.slots[0] /\ (First(SERIALS) = NULL <=> k = 0)
    BY <2>1, FirstIsSlot0
  <2>4. CONSOLE = First(SERIALS)
    BY <1>1 DEF IInv, ProbeInv
  <2>5. Used(SERIALS) = {} <=> k = 0
    BY <2>2, SizesAssumption
  <2>6. ASSUME NEW i \in Index, Used(SERIALS) = {i} PROVE i = 0
    <3>1. k > 0 /\ 0 \in 0 .. k - 1
      BY <2>2, <2>6, SizesAssumption
    <3> QED BY <2>2, <2>6, <3>1
  <2>7. /\ CONSOLE = NULL <=> Used(SERIALS) = {}
        /\ \A i \in Index : Used(SERIALS) = {i} => CONSOLE = SERIALS.slots[i]
    BY <2>3, <2>4, <2>5, <2>6
  <2> QED BY <1>1, <2>7 DEF IInv, ProbeInv, ProbeFindsEarlier, Useful
<1> QED BY <1>1, InvAlways, PTL

(* The index on top of the stack of kind b stands for the device dev. *)
OnTop(b, dev) ==
  /\ bus_stack[b] # <<>>
  /\ registry[b].slots[Last(bus_stack[b])] = dev

(* With the controllers directly below the root: a node deeper down is no  *)
(* controller, the controller that the walk is below is on top of its      *)
(* stack, and a stack is never longer than its registry.                   *)
StackInv ==
  /\ \A i \in 2 .. Len(path) : path[i] = NULL
  /\ panicked = "no" /\ path # <<>> /\ path[1] # NULL => OnTop(path[1].kind, path[1].dev)
  /\ \A b \in Buses : \A k : Holds(registry[b], k) => Len(bus_stack[b]) <= k
  /\ ClientOnItsBus

(* A registry holds one number of devices. *)
LEMMA HoldsOne ==
  ASSUME NEW r, NEW k, NEW m, Holds(r, k), Holds(r, m)
  PROVE  k = m
  BY UsedInTurn

(* A node below the children of the root leaves the stacks alone. *)
LEMMA PopToDeeper ==
  ASSUME TypeInv, NEW depth \in 1 .. MaxDepth, depth # 1
  PROVE  PopTo(depth) = bus_stack
<1>1. Level(depth) \in Int /\ Level(depth) > 1
  BY SizesAssumption DEF Level, TypeInv
<1> QED BY <1>1 DEF PopTo

(* The round of a node that is no controller. *)
LEMMA StackQuiet ==
  ASSUME IInv, StackInv, NEW depth \in 1 .. MaxDepth, Round(depth, NULL),
         bus_stack' = PopTo(depth), registry' = registry, ClientOnItsBus'
  PROVE  StackInv'
<1>1. /\ path' \in Seq(Bus) /\ Len(path') = depth /\ path'[depth] = NULL
      /\ \A i \in 1 .. depth - 1 : i \in 1 .. Len(path) /\ path'[i] = path[i]
  BY RoundWalk DEF IInv, Bus
<1>2. \A i \in 2 .. Len(path') : path'[i] = NULL
  <2> SUFFICES ASSUME NEW i \in 2 .. depth PROVE path'[i] = NULL
    BY <1>1
  <2>1. CASE i = depth
    BY <1>1, <2>1
  <2>2. CASE i # depth
    <3>1. i \in 1 .. depth - 1 /\ depth \in Nat
      BY <2>2, SizesAssumption
    <3>2. i \in 2 .. Len(path)
      BY <1>1, <3>1
    <3> QED BY <1>1, <3>1, <3>2 DEF StackInv
  <2> QED BY <2>1, <2>2
<1>3. ASSUME path'[1] # NULL PROVE OnTop(path[1].kind, path[1].dev)'
  <2>1. depth # 1
    BY <1>1, <1>3
  <2>2. 1 \in 1 .. depth - 1
    BY <2>1, SizesAssumption
  <2>3. path'[1] = path[1] /\ 1 \in 1 .. Len(path)
    BY <1>1, <2>2
  <2>4. path # <<>>
    BY <2>3
  <2>5. OnTop(path[1].kind, path[1].dev)
    BY <1>3, <2>3, <2>4 DEF StackInv, Round
  <2>6. bus_stack' = bus_stack
    BY <2>1, PopToDeeper DEF IInv
  <2> QED BY <2>3, <2>5, <2>6 DEF OnTop
<1>4. ASSUME NEW b \in Buses, NEW k, Holds(registry[b], k) PROVE Len(bus_stack'[b]) <= k
  <2>1. Len(bus_stack'[b]) <= Len(bus_stack[b]) /\ Len(bus_stack[b]) <= k
    BY <1>4, PopToType DEF IInv, StackInv
  <2>2. Len(bus_stack'[b]) \in Nat /\ Len(bus_stack[b]) \in Nat /\ k \in Nat
    BY <1>4, PopToType, LenProperties, SizesAssumption DEF IInv, TypeInv, Holds
  <2> QED BY <2>1, <2>2
<1> QED BY <1>2, <1>3, <1>4 DEF StackInv

(* A client below a controller of its bus finds it on top of the stack. *)
LEMMA ClientFinds ==
  ASSUME IInv, StackInv, NEW depth \in 1 .. MaxDepth, NEW b \in Buses, VisitClient(depth, b)
  PROVE  ClientOnItsBus'
<1> DEFINE parent == Parent(depth)
<1>1. /\ client'.kind = b /\ client'.parent = parent
      /\ client'.bus = Current(b, PopTo(depth)[b])
  BY DEF VisitClient
<1> SUFFICES ASSUME parent # NULL, parent.kind = b
             PROVE  Current(b, PopTo(depth)[b]) = parent.dev
  BY <1>1 DEF ClientOnItsBus
<1>2. depth \in Nat /\ depth > 1 /\ parent = path[depth - 1]
  BY SizesAssumption DEF Parent
<1>3. depth - 1 \in 1 .. Len(path) /\ Len(path) \in Nat
  <2>1. Round(depth, NULL)
    BY DEF VisitClient
  <2>2. depth <= Len(path) + 1
    BY <2>1, RoundWalk DEF IInv, Bus
  <2>3. Len(path) \in Nat
    BY LenProperties DEF IInv, TypeInv
  <2> QED BY <1>2, <2>2, <2>3
<1>4. depth = 2
  <2>1. ASSUME depth # 2 PROVE FALSE
    <3>1. depth - 1 \in 2 .. Len(path)
      BY <1>2, <1>3, <2>1
    <3> QED BY <1>2, <3>1 DEF StackInv
  <2> QED BY <2>1
<1>5. parent = path[1] /\ path # <<>>
  BY <1>2, <1>3, <1>4
<1>6. OnTop(b, parent.dev)
  BY <1>5 DEF StackInv, VisitClient, Round
<1>7. PopTo(depth) = bus_stack
  BY <1>4, PopToDeeper DEF IInv
<1>8. Last(bus_stack[b]) \in Index
  <2>1. bus_stack[b] \in Seq(Index) /\ bus_stack[b] # <<>>
    BY <1>6 DEF IInv, TypeInv, OnTop
  <2>2. Len(bus_stack[b]) \in 1 .. Len(bus_stack[b])
    BY <2>1, LenProperties, EmptySeq
  <2> QED BY <2>1, <2>2, ElementOfSeq DEF Last
<1>9. Last(bus_stack[b]) % N = Last(bus_stack[b])
  BY <1>8, Wrap DEF Index
<1> QED BY <1>6, <1>7, <1>9 DEF Current, OnTop, get

(* A controller below the root is on top of its stack from its round on:   *)
(* the push finds room, since the registry had some.                       *)
LEMMA StackController ==
  ASSUME IInv, StackInv, BusDepth <= 1, NEW depth \in 1 .. MaxDepth, NEW b \in Buses,
         VisitBus(depth, b)
  PROVE  StackInv'
<1> DEFINE bus == [kind |-> b, dev |-> nodes]
<1>1. Round(depth, bus) /\ depth <= BusDepth /\ client' = client
  BY DEF VisitBus
<1>2. bus \in Bus /\ bus.kind = b /\ bus.dev = nodes
  BY DEF Bus, IInv, TypeInv, TypeOK
<1> HIDE DEF bus
<1>3. depth = 1
  BY <1>1, SizesAssumption
<1>4. /\ path' \in Seq(Bus) /\ Len(path') = 1 /\ path'[1] = bus
      /\ nodes # NULL /\ nodes \in 0 .. MaxNodes
  BY <1>1, <1>2, <1>3, RoundWalk DEF IInv
<1>5. PICK k : /\ Holds(registry[b], k)
               /\ \/ k = N /\ panicked' = "full" /\ registry' = registry /\ bus_stack' = PopTo(depth)
                  \/ /\ k < N /\ panicked' = panicked
                     /\ registry' = [registry EXCEPT ![b] = register(registry[b], nodes)]
                     /\ bus_stack' = [PopTo(depth) EXCEPT ![b] = Push(@, k)]
  BY BusEffect
<1>6. /\ PopTo(depth) \in [Buses -> Seq(Index)] /\ bus_stack \in [Buses -> Seq(Index)]
      /\ registry \in [Buses -> Registry(0 .. MaxNodes)]
  BY PopToType DEF IInv, TypeInv, TypeOK
<1>7. ASSUME NEW c \in Buses, NEW m, Holds(registry[c], m) PROVE Len(PopTo(depth)[c]) <= m
  <2>1. Len(PopTo(depth)[c]) <= Len(bus_stack[c]) /\ Len(bus_stack[c]) <= m
    BY <1>7, PopToType DEF IInv, StackInv
  <2>2. Len(PopTo(depth)[c]) \in Nat /\ Len(bus_stack[c]) \in Nat /\ m \in Nat
    BY <1>6, <1>7, LenProperties, SizesAssumption DEF Holds
  <2> QED BY <2>1, <2>2
<1>8. /\ panicked' = "no" => bus_stack'[b] # <<>> /\ registry'[b].slots[Last(bus_stack'[b])] = nodes
      /\ \A c \in Buses : \A m : Holds(registry'[c], m) => Len(bus_stack'[c]) <= m
  <2>1. CASE k = N /\ panicked' = "full" /\ registry' = registry /\ bus_stack' = PopTo(depth)
    BY <1>7, <2>1
  <2>2. CASE /\ k < N /\ panicked' = panicked
             /\ registry' = [registry EXCEPT ![b] = register(registry[b], nodes)]
             /\ bus_stack' = [PopTo(depth) EXCEPT ![b] = Push(@, k)]
    <3> DEFINE s == PopTo(depth)[b]
               r == register(registry[b], nodes)
    <3>0. Holds(registry[b], k) /\ k < N /\ registry[b] \in Registry(0 .. MaxNodes)
      BY <1>5, <1>6, <2>2
    <3>1. Holds(r, k + 1) /\ r.slots[k] = nodes
      <4>1. nodes \in 0 .. MaxNodes /\ nodes # NULL
        BY <1>4
      <4>2. Holds(register(registry[b], nodes), k + 1)
        BY <3>0, <4>1, RegisterHolds
      <4>3. Slot(registry[b]) = k /\ k \in Index
        BY <3>0, SlotInTurn
      <4>4. r.slots[k] = nodes
        BY <3>0, <4>3 DEF register, Registry
      <4> QED BY <4>2, <4>4
    <3>2. s \in Seq(Index) /\ Len(s) \in Nat /\ Len(s) <= k /\ k \in Index /\ k \in Nat
      <4>1. s \in Seq(Index) /\ Len(s) <= k
        BY <1>6, <1>7, <3>0
      <4>2. k \in Index /\ k \in Nat
        <5>1. k \in Index
          BY <3>0, SlotInTurn
        <5> QED BY <5>1, SizesAssumption DEF Index
      <4> QED BY <4>1, <4>2, LenProperties
    <3>3. Push(s, k) = Append(s, k)
      BY <2>2, <3>2, SizesAssumption DEF Push
    <3>4. /\ Len(Append(s, k)) = Len(s) + 1 /\ Append(s, k)[Len(s) + 1] = k
          /\ Append(s, k) # <<>>
      BY <3>2, AppendProperties
    <3>5. bus_stack'[b] = Append(s, k) /\ registry'[b] = r
      BY <1>6, <2>2, <3>3
    <3>6. ASSUME NEW c \in Buses, c # b
          PROVE  bus_stack'[c] = PopTo(depth)[c] /\ registry'[c] = registry[c]
      BY <1>6, <2>2, <3>6
    <3> HIDE DEF s, r
    <3>7. bus_stack'[b] # <<>> /\ registry'[b].slots[Last(bus_stack'[b])] = nodes
      <4>1. Last(bus_stack'[b]) = k
        BY <3>4, <3>5 DEF Last
      <4> QED BY <3>1, <3>4, <3>5, <4>1
    <3>8. ASSUME NEW c \in Buses, NEW m, Holds(registry'[c], m) PROVE Len(bus_stack'[c]) <= m
      <4>1. CASE c = b
        <5>1. m = k + 1
          BY <3>1, <3>5, <3>8, <4>1, HoldsOne
        <5> QED BY <3>2, <3>4, <3>5, <4>1, <5>1
      <4>2. CASE c # b
        BY <1>7, <3>6, <3>8, <4>2
      <4> QED BY <4>1, <4>2
    <3> QED BY <3>7, <3>8
  <2> QED BY <1>5, <2>1, <2>2
<1>9. \A i \in 2 .. Len(path') : path'[i] = NULL
  BY <1>4
<1>10. ClientOnItsBus'
  BY <1>1 DEF StackInv, ClientOnItsBus
<1>11. panicked' = "no" => OnTop(path[1].kind, path[1].dev)'
  BY <1>2, <1>4, <1>8 DEF OnTop
<1> QED BY <1>8, <1>9, <1>10, <1>11 DEF StackInv

(* Every step keeps the top of the stack the controller the walk is below. *)
LEMMA StackNext == BusDepth <= 1 /\ IInv /\ StackInv /\ [Next]_vars => StackInv'
<1> SUFFICES ASSUME BusDepth <= 1, IInv, StackInv, [Next]_vars PROVE StackInv'
  OBVIOUS
<1>1. ASSUME NEW depth \in 1 .. MaxDepth, VisitOther(depth) PROVE StackInv'
  <2>1. ClientOnItsBus'
    BY <1>1 DEF VisitOther, StackInv, ClientOnItsBus
  <2> QED BY <1>1, <2>1, StackQuiet DEF VisitOther, devices
<1>2. ASSUME NEW depth \in 1 .. MaxDepth, NEW v \in Slots, VisitSingle(depth, v) PROVE StackInv'
  <2>1. ClientOnItsBus'
    BY <1>2 DEF VisitSingle, StackInv, ClientOnItsBus
  <2> QED BY <1>2, <2>1, StackQuiet DEF VisitSingle
<1>3. ASSUME NEW depth \in 1 .. MaxDepth, NEW drv \in SerialDrivers, VisitSerial(depth, drv)
      PROVE  StackInv'
  <2>1. ClientOnItsBus'
    BY <1>3 DEF VisitSerial, StackInv, ClientOnItsBus
  <2> QED BY <1>3, <2>1, StackQuiet DEF VisitSerial
<1>4. ASSUME NEW depth \in 1 .. MaxDepth, NEW b \in Buses, VisitClient(depth, b) PROVE StackInv'
  BY <1>4, ClientFinds, StackQuiet DEF VisitClient, devices
<1>5. ASSUME init_dtb \/ SetDrivers \/ BootBegin PROVE StackInv'
  <2>1. path = <<>> /\ path' = path /\ registry' = registry /\ client' = client
    BY <1>5 DEF init_dtb, SetDrivers, BootBegin, IInv, TypeInv, BeforeWalk, devices
  <2>2. bus_stack' = bus_stack \/ bus_stack' = [b \in Buses |-> <<>>]
    BY <1>5 DEF init_dtb, SetDrivers, BootBegin
  <2>3. ASSUME NEW b \in Buses, NEW k, Holds(registry[b], k) PROVE Len(bus_stack'[b]) <= k
    <3>1. k \in Nat
      BY <2>3, SizesAssumption DEF Holds
    <3>2. CASE bus_stack' = bus_stack
      BY <2>3, <3>2 DEF StackInv
    <3>3. CASE bus_stack' = [c \in Buses |-> <<>>]
      BY <3>1, <3>3
    <3> QED BY <2>2, <3>2, <3>3
  <2>4. ClientOnItsBus'
    BY <2>1 DEF StackInv, ClientOnItsBus
  <2> QED BY <2>1, <2>3, <2>4 DEF StackInv
<1>6. ASSUME BootEnd \/ (\E v \in Services : Access(v)) \/ UNCHANGED vars PROVE StackInv'
  <2>1. /\ path' = path /\ registry' = registry /\ client' = client /\ bus_stack' = bus_stack
        /\ panicked' = "no" => panicked = "no"
    BY <1>6 DEF BootEnd, Access, vars, devices
  <2> QED BY <2>1 DEF StackInv, OnTop, ClientOnItsBus
<1> QED BY <1>1, <1>2, <1>3, <1>4, <1>5, <1>6, StackController DEF Next, Visit

(* "child probe finds its parent bus": with the controllers directly below *)
(* the root, for every tree and every capacity, a client below one gets    *)
(* that one from bus::current_i2c or current_spi.                          *)
THEOREM ClientAlwaysOnItsBus ==
  ASSUME BusDepth <= 1
  PROVE  Spec => []ClientOnItsBus
<1>1. Init => StackInv
  <2> SUFFICES ASSUME Init PROVE StackInv
    OBVIOUS
  <2>1. path = <<>> /\ client = NULL /\ bus_stack = [b \in Buses |-> <<>>]
    BY DEF Init
  <2>2. \A b \in Buses : Len(bus_stack[b]) = 0
    BY <2>1
  <2>3. \A b \in Buses : \A k : Holds(registry[b], k) => Len(bus_stack[b]) <= k
    BY <2>2, SizesAssumption DEF Holds
  <2> QED BY <2>1, <2>3 DEF StackInv, ClientOnItsBus
<1>2. StackInv => ClientOnItsBus
  BY DEF StackInv
<1>3. IInv /\ StackInv /\ [Next]_vars => StackInv'
  BY StackNext
<1> QED BY <1>1, <1>2, <1>3, InvAlways, PTL DEF Spec
===============================================================================
