---------------------------- MODULE PriorityBitmap ----------------------------
(***************************************************************************)
(* The two-level bitmap of modules/executor/src/priority_bitmap.rs.  A u64 *)
(* word is the set of its one bits.  group_table has one word per group of *)
(* 64 priorities, group_map one bit per group.                             *)
(***************************************************************************)
EXTENDS Integers, FiniteSetsExt

CONSTANTS NUM_GROUPS,  \* number of groups, 1..64
          Prios        \* the priorities the callers use

GROUP_BITS == 64

Groups == 0 .. NUM_GROUPS - 1
Bits == 0 .. GROUP_BITS - 1
CAPACITY == NUM_GROUPS * GROUP_BITS

ASSUME NumGroupsAssumption == NUM_GROUPS \in 1 .. GROUP_BITS
ASSUME PriosAssumption == Prios \subseteq 0 .. CAPACITY - 1

None == -1             \* Option::None of highest() and pop_highest()

VARIABLES group_map,    \* bit g: group g has a ready priority
          group_table,  \* per group, the bits of its ready priorities
          out,          \* what the last highest() or pop_highest() returned
          flag          \* what the last is_set() or is_empty() returned

vars == <<group_map, group_table, out, flag>>

-------------------------------------------------------------------------------
Group(p) == p \div GROUP_BITS
Bit(p) == p % GROUP_BITS

trailing_zeros(word) == IF word = {} THEN GROUP_BITS ELSE Min(word)

Init ==
  /\ group_map = {}
  /\ group_table = [g \in Groups |-> {}]
  /\ out = None
  /\ flag = FALSE

set(p) ==
  /\ group_table' = [group_table EXCEPT ![Group(p)] = @ \cup {Bit(p)}]
  /\ group_map' = group_map \cup {Group(p)}
  /\ UNCHANGED <<out, flag>>

\* Mutant: the group's summary bit is left set when its last priority goes.
clearKeepsGroup(p) ==
  /\ group_table' = [group_table EXCEPT ![Group(p)] = @ \ {Bit(p)}]
  /\ group_map' = group_map

(* The state change of clear, shared with pop_highest. *)
clearBits(p) ==
  /\ group_table' = [group_table EXCEPT ![Group(p)] = @ \ {Bit(p)}]
  /\ group_map' = IF group_table'[Group(p)] = {}
                    THEN group_map \ {Group(p)}
                    ELSE group_map

clear(p) == clearBits(p) /\ UNCHANGED <<out, flag>>

\* Mutant: the least urgent bit of the group, as leading_zeros would give.
highestLeading ==
  IF group_map = {}
    THEN None
    ELSE LET g == trailing_zeros(group_map)
             b == IF group_table[g] = {} THEN GROUP_BITS ELSE Max(group_table[g])
         IN  g * GROUP_BITS + b

highest ==
  IF group_map = {}
    THEN None
    ELSE LET g == trailing_zeros(group_map)
             b == trailing_zeros(group_table[g])
         IN  g * GROUP_BITS + b

Highest == out' = highest /\ UNCHANGED <<group_map, group_table, flag>>

is_set(p) ==
  /\ flag' = (Bit(p) \in group_table[Group(p)])
  /\ UNCHANGED <<group_map, group_table, out>>

is_empty ==
  /\ flag' = (group_map = {})
  /\ UNCHANGED <<group_map, group_table, out>>

(* highest()? returns early on an empty map. *)
pop_highest ==
  /\ out' = highest
  /\ UNCHANGED flag
  /\ IF highest = None
       THEN UNCHANGED <<group_map, group_table>>
       ELSE clearBits(highest)

clear_all ==
  /\ group_map' = {}
  /\ group_table' = [g \in Groups |-> {}]
  /\ UNCHANGED <<out, flag>>

Next ==
  \/ \E p \in Prios : set(p) \/ clear(p) \/ is_set(p)
  \/ Highest \/ is_empty \/ pop_highest \/ clear_all

Spec == Init /\ [][Next]_vars

-------------------------------------------------------------------------------
(* The priorities the bitmap stands for. *)
Ready == {p \in 0 .. CAPACITY - 1 : Bit(p) \in group_table[Group(p)]}

(* Every word has only bits it can hold, and highest() and pop_highest()   *)
(* answer with a priority of the bitmap or None.                           *)
TypeOK ==
  /\ group_map \subseteq Groups
  /\ group_table \in [Groups -> SUBSET Bits]
  /\ out \in (0 .. CAPACITY - 1) \cup {None}
  /\ flag \in BOOLEAN

(* The summary word and the table agree: clear() drops a group's bit       *)
(* exactly when the last priority of the group goes, set() raises it.      *)
(* highest() trusts this without a check: a stale summary bit makes it     *)
(* return a priority of the next group.                                    *)
GroupMapCoherent == group_map = {g \in Groups : group_table[g] # {}}

R == INSTANCE ReadySet WITH ready <- Ready

(* Through set, clear, pop_highest and clear_all the two-level bitmap is   *)
(* the plain set of ready priorities of ReadySet: highest() and            *)
(* pop_highest() answer with its minimum across group boundaries.          *)
ImplementsReadySet == R!Spec
===============================================================================
