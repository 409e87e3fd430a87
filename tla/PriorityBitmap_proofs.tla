------------------------- MODULE PriorityBitmap_proofs -------------------------
(* The two-level bitmap implements the ready set, for every number of      *)
(* groups and every set of priorities.                                     *)
EXTENDS TLAPS, PriorityBitmap, WellFoundedInduction

(* A non-empty set of naturals has the minimum that Min chooses. *)
LEMMA MinNat ==
  ASSUME NEW S \in SUBSET Nat, S # {}
  PROVE  Min(S) \in S /\ \A y \in S : Min(S) <= y
<1>1. PICK x \in S : \A y \in S : ~ (<<y, x>> \in OpToRel(<, Nat))
  BY NatLessThanWellFounded, WFMin
<1>2. ASSUME NEW y \in S PROVE x <= y
  <2>1. x \in Nat /\ y \in Nat
    OBVIOUS
  <2>2. y < x => <<y, x>> \in OpToRel(<, Nat)
    BY <2>1 DEF OpToRel
  <2>3. ~(y < x)
    BY <1>1, <2>2, Zenon
  <2> QED BY <2>1, <2>3
<1> QED BY <1>2 DEF Min

(* Two sets of naturals with a common least element have the same Min. *)
LEMMA MinUnique ==
  ASSUME NEW S \in SUBSET Nat, NEW x \in S, \A y \in S : x <= y
  PROVE  Min(S) = x
<1>1. Min(S) \in S /\ \A y \in S : Min(S) <= y
  BY MinNat
<1>2. Min(S) \in Nat /\ x \in Nat /\ Min(S) <= x /\ x <= Min(S)
  BY <1>1
<1> QED BY <1>2

(* Splitting a priority into group and bit. *)
LEMMA Split ==
  ASSUME NEW p \in 0 .. CAPACITY - 1
  PROVE  /\ Group(p) \in Groups /\ Bit(p) \in Bits
         /\ p = Group(p) * GROUP_BITS + Bit(p)
  BY NumGroupsAssumption DEF Group, Bit, Groups, Bits, CAPACITY, GROUP_BITS

(* Joining a group and a bit. *)
LEMMA Join ==
  ASSUME NEW g \in Groups, NEW b \in Bits
  PROVE  /\ g * GROUP_BITS + b \in 0 .. CAPACITY - 1
         /\ Group(g * GROUP_BITS + b) = g
         /\ Bit(g * GROUP_BITS + b) = b
  BY NumGroupsAssumption DEF Group, Bit, Groups, Bits, CAPACITY, GROUP_BITS

(* The priorities of an earlier group, or of an earlier bit of the same    *)
(* group, are the smaller ones.                                            *)
LEMMA Order ==
  ASSUME NEW g \in Groups, NEW h \in Groups, NEW b \in Bits, NEW c \in Bits,
         g < h \/ (g = h /\ b <= c)
  PROVE  g * GROUP_BITS + b <= h * GROUP_BITS + c
  BY NumGroupsAssumption DEF Groups, Bits, GROUP_BITS

IInv == TypeOK /\ GroupMapCoherent

(* The first bit of the first group is the least ready priority. *)
LEMMA HighestIsUrgent ==
  ASSUME IInv
  PROVE  /\ highest = IF Ready = {} THEN None ELSE Min(Ready)
         /\ Ready = {} <=> group_map = {}
         /\ group_map # {} => highest \in Ready
<1>1. ASSUME group_map = {} PROVE Ready = {}
  BY <1>1, Split DEF IInv, GroupMapCoherent, Ready
<1>2. ASSUME group_map # {}
      PROVE  highest \in Ready /\ Min(Ready) = highest
  <2> DEFINE g == Min(group_map)
             b == Min(group_table[g])
  <2>1. group_map \in SUBSET Nat /\ group_map \subseteq Groups
    BY DEF IInv, TypeOK, Groups
  <2>2. g \in group_map /\ \A h \in group_map : g <= h
    BY <1>2, <2>1, MinNat
  <2>3. g \in Groups /\ group_table[g] # {}
    BY <2>2 DEF IInv, GroupMapCoherent
  <2>4. group_table[g] \in SUBSET Nat /\ group_table[g] \subseteq Bits
    BY <2>3 DEF IInv, TypeOK, Bits
  <2>5. b \in group_table[g] /\ \A c \in group_table[g] : b <= c
    BY <2>3, <2>4, MinNat
  <2>6. highest = g * GROUP_BITS + b
    BY <1>2, <2>3 DEF highest, trailing_zeros
  <2>7. b \in Bits
    BY <2>4, <2>5
  <2> HIDE DEF g, b
  <2>8. highest \in Ready
    BY <2>3, <2>5, <2>6, <2>7, Join DEF Ready
  <2>9. ASSUME NEW p \in Ready PROVE highest <= p
    <3>1. /\ Group(p) \in Groups /\ Bit(p) \in Bits
          /\ p = Group(p) * GROUP_BITS + Bit(p)
          /\ Bit(p) \in group_table[Group(p)]
      BY <2>9, Split DEF Ready
    <3>2. Group(p) \in group_map
      BY <3>1 DEF IInv, GroupMapCoherent
    <3>3. g <= Group(p) /\ (g = Group(p) => b <= Bit(p))
      BY <2>2, <2>5, <3>1, <3>2
    <3>4. g < Group(p) \/ (g = Group(p) /\ b <= Bit(p))
      BY <2>3, <3>1, <3>3 DEF Groups
    <3> QED BY <2>3, <2>6, <2>7, <3>1, <3>4, Order
  <2>10. Ready \in SUBSET Nat
    BY DEF Ready
  <2> QED BY <2>8, <2>9, <2>10, MinUnique
<1>3. group_map = {} => highest = None
  BY DEF highest
<1> QED BY <1>1, <1>2, <1>3

(* PriorityBitmap::new has every word zero. *)
LEMMA InitInv == Init => IInv
  BY NumGroupsAssumption DEF Init, IInv, TypeOK, GroupMapCoherent, None

(* What clear() and the clearing half of pop_highest() do. *)
LEMMA ClearInv ==
  ASSUME IInv, NEW p \in 0 .. CAPACITY - 1, clearBits(p)
  PROVE  /\ group_map' \subseteq Groups
         /\ group_table' \in [Groups -> SUBSET Bits]
         /\ GroupMapCoherent'
         /\ Ready' = Ready \ {p}
<1>1. Group(p) \in Groups /\ Bit(p) \in Bits
  BY Split
<1>2. group_table' = [group_table EXCEPT ![Group(p)] = @ \ {Bit(p)}]
  BY DEF clearBits
<1>3. group_table' \in [Groups -> SUBSET Bits]
  BY <1>1, <1>2 DEF IInv, TypeOK
<1>4. group_map' \subseteq Groups /\ GroupMapCoherent'
  BY <1>1, <1>2 DEF IInv, TypeOK, GroupMapCoherent, clearBits
<1>5. ASSUME NEW q \in 0 .. CAPACITY - 1
      PROVE  Bit(q) \in group_table'[Group(q)] <=> Bit(q) \in group_table[Group(q)] /\ q # p
  <2>1. Group(q) \in Groups /\ Bit(q) \in Bits
    BY Split
  <2>2. Group(q) = Group(p) /\ Bit(q) = Bit(p) => q = p
    BY Split
  <2> QED BY <1>1, <1>2, <2>1, <2>2 DEF IInv, TypeOK
<1>6. Ready' = Ready \ {p}
  BY <1>5 DEF Ready
<1> QED BY <1>3, <1>4, <1>6

(* What set() does. *)
LEMMA SetInv ==
  ASSUME IInv, NEW p \in 0 .. CAPACITY - 1, set(p)
  PROVE  IInv' /\ Ready' = Ready \cup {p}
<1>1. Group(p) \in Groups /\ Bit(p) \in Bits
  BY Split
<1>2. group_table' = [group_table EXCEPT ![Group(p)] = @ \cup {Bit(p)}]
  BY DEF set
<1>3. TypeOK'
  BY <1>1, <1>2 DEF IInv, TypeOK, set
<1>4. GroupMapCoherent'
  BY <1>1, <1>2 DEF IInv, TypeOK, GroupMapCoherent, set
<1>5. ASSUME NEW q \in 0 .. CAPACITY - 1
      PROVE  Bit(q) \in group_table'[Group(q)] <=> Bit(q) \in group_table[Group(q)] \/ q = p
  <2>1. Group(q) \in Groups /\ Bit(q) \in Bits
    BY Split
  <2>2. Group(q) = Group(p) /\ Bit(q) = Bit(p) => q = p
    BY Split
  <2> QED BY <1>1, <1>2, <2>1, <2>2 DEF IInv, TypeOK
<1>6. Ready' = Ready \cup {p}
  BY <1>5 DEF Ready
<1> QED BY <1>3, <1>4, <1>6 DEF IInv

(* pop_highest() removes the least ready priority, if there is one. *)
LEMMA PopInv ==
  ASSUME IInv, pop_highest
  PROVE  IInv' /\ Ready' = Ready \ {highest}
<1>1. highest = None \/ highest \in Ready
  BY HighestIsUrgent
<1>2. ASSUME highest = None PROVE IInv' /\ Ready' = Ready \ {highest}
  <2>1. None \notin Ready
    BY DEF None, Ready
  <2> QED BY <1>2, <2>1 DEF pop_highest, IInv, TypeOK, GroupMapCoherent, Ready, Group, Bit
<1>3. ASSUME highest # None, highest \in Ready PROVE IInv' /\ Ready' = Ready \ {highest}
  <2>1. highest \in 0 .. CAPACITY - 1
    BY <1>3 DEF Ready
  <2>2. clearBits(highest) /\ out' = highest /\ flag' = flag
    BY <1>3 DEF pop_highest
  <2> QED BY <2>1, <2>2, ClearInv DEF IInv, TypeOK
<1> QED BY <1>1, <1>2, <1>3

(* Every operation keeps the invariant and is an operation on Ready. *)
LEMMA StepInv ==
  ASSUME IInv, [Next]_vars
  PROVE  IInv' /\ [R!Next]_(R!vars)
<1>1. ASSUME NEW p \in Prios, set(p) PROVE IInv' /\ R!Mark(p)
  BY <1>1, SetInv, PriosAssumption DEF set, R!Mark
<1>2. ASSUME NEW p \in Prios, clear(p) PROVE IInv' /\ R!Unmark(p)
  <2>1. p \in 0 .. CAPACITY - 1 /\ clearBits(p) /\ out' = out /\ flag' = flag
    BY <1>2, PriosAssumption DEF clear
  <2> QED BY <2>1, ClearInv DEF IInv, TypeOK, R!Unmark
<1>3. ASSUME NEW p \in Prios, is_set(p) PROVE IInv' /\ R!Test(p)
  <2>1. p \in 0 .. CAPACITY - 1
    BY PriosAssumption
  <2>2. (p \in Ready) = (Bit(p) \in group_table[Group(p)])
    BY <2>1 DEF Ready
  <2>3. flag' \in BOOLEAN
    BY <1>3 DEF is_set
  <2>4. IInv'
    BY <1>3, <2>3 DEF is_set, IInv, TypeOK, GroupMapCoherent
  <2>5. Ready' = Ready
    BY <1>3 DEF is_set, Ready
  <2> QED BY <1>3, <2>2, <2>4, <2>5 DEF is_set, R!Test
<1>4. CASE Highest
  <2>1. highest \in (0 .. CAPACITY - 1) \cup {None} /\ highest = R!Urgent
    BY HighestIsUrgent DEF Ready, R!Urgent, R!None, None, R!Min, Min
  <2>2. IInv' /\ Ready' = Ready
    BY <1>4, <2>1 DEF Highest, IInv, TypeOK, GroupMapCoherent, Ready
  <2>3. R!Peek
    BY <1>4, <2>1, <2>2 DEF Highest, R!Peek
  <2> QED BY <2>2, <2>3 DEF R!Next
<1>5. CASE pop_highest
  <2>1. highest = R!Urgent
    BY HighestIsUrgent DEF R!Urgent, R!None, None, R!Min, Min
  <2>2. R!TakeUrgent
    BY <1>5, <2>1, PopInv DEF pop_highest, R!TakeUrgent
  <2> QED BY <1>5, <2>2, PopInv DEF R!Next
<1>6. CASE is_empty
  <2>1. (Ready = {}) = (group_map = {})
    BY HighestIsUrgent
  <2>2. flag' \in BOOLEAN
    BY <1>6 DEF is_empty
  <2>3. IInv' /\ Ready' = Ready
    BY <1>6, <2>2 DEF is_empty, IInv, TypeOK, GroupMapCoherent, Ready
  <2>4. R!TestEmpty
    BY <1>6, <2>1, <2>3 DEF is_empty, R!TestEmpty
  <2> QED BY <2>3, <2>4 DEF R!Next
<1>7. CASE clear_all
  <2>1. IInv'
    BY <1>7 DEF clear_all, IInv, TypeOK, GroupMapCoherent
  <2>2. Ready' = {}
    BY <1>7, Split DEF clear_all, Ready
  <2>3. R!Reset
    BY <1>7, <2>2 DEF clear_all, R!Reset
  <2> QED BY <2>1, <2>3 DEF R!Next
<1>8. CASE UNCHANGED vars
  <2>1. IInv'
    BY <1>8 DEF vars, IInv, TypeOK, GroupMapCoherent
  <2>2. UNCHANGED R!vars
    BY <1>8 DEF vars, R!vars, Ready
  <2> QED BY <2>1, <2>2
<1> QED
  BY <1>1, <1>2, <1>3, <1>4, <1>5, <1>6, <1>7, <1>8 DEF Next, R!Next

(* group_map summarises the words of every reachable bitmap. *)
THEOREM InvAlways == Spec => []IInv
<1>1. IInv /\ [Next]_vars => IInv'
  BY StepInv
<1> QED BY <1>1, InitInv, PTL DEF Spec

(* PriorityBitmap's words keep their width and highest() answers with a    *)
(* priority of the bitmap.                                                 *)
THEOREM TypeCorrect == Spec => []TypeOK
<1>1. IInv => TypeOK
  BY DEF IInv
<1> QED BY <1>1, InvAlways, PTL

(* clear() and pop_highest() keep the summary word group_map exact. *)
THEOREM GroupMapAlwaysCoherent == Spec => []GroupMapCoherent
<1>1. IInv => GroupMapCoherent
  BY DEF IInv
<1> QED BY <1>1, InvAlways, PTL

(* The bitmap behaves as the plain set of ready priorities: highest() and  *)
(* pop_highest() answer with its least element for any number of groups.   *)
THEOREM Refinement == Spec => ImplementsReadySet
<1>1. Init => R!Init
  <2> SUFFICES ASSUME Init PROVE R!Init
    OBVIOUS
  <2>1. Ready = {}
    BY Split DEF Init, Ready
  <2> QED BY <2>1 DEF Init, R!Init, None, R!None
<1>2. IInv /\ [Next]_vars => [R!Next]_(R!vars)
  BY StepInv
<1> QED BY <1>1, <1>2, InvAlways, PTL DEF Spec, R!Spec, ImplementsReadySet
===============================================================================
