--------------------------- MODULE TimerDelay_proofs ---------------------------
(* Delays for any tasks, durations, queue capacity and word size: what the *)
(* queue operations compute, the lifetimes of the entries, the compare     *)
(* register and the accuracy of a delay.                                   *)
EXTENDS TLAPS, TimerDelay, WellFoundedInduction, SequenceTheorems

(* A non-empty set of naturals has the minimum that Min chooses. *)
LEMMA MinNat ==
  ASSUME NEW S \in SUBSET Nat, S # {}
  PROVE  Min(S) \in S /\ \A y \in S : Min(S) <= y
<1>1. PICK x \in S : \A y \in S : ~ (<<y, x>> \in OpToRel(<, Nat))
  BY NatLessThanWellFounded, WFMin
<1>2. ASSUME NEW y \in S PROVE x <= y
  <2>1. x \in Nat /\ y \in Nat
    OBVIOUS
  <2>2. y < x => <<y, x>> \in OpToRel(<, Nat)
    BY <2>1 DEF OpToRel
  <2>3. ~(y < x)
    BY <1>1, <2>2, Zenon
  <2> QED BY <2>1, <2>3
<1> QED BY <1>2 DEF Min

(* Induction over the naturals, for a set instead of a predicate. *)
LEMMA NatSetInduction ==
  ASSUME NEW S, 0 \in S, \A n \in Nat : n \in S => n + 1 \in S
  PROVE  Nat \subseteq S
<1> DEFINE T == Nat \ S
<1> SUFFICES ASSUME T # {} PROVE FALSE
  OBVIOUS
<1>1. Min(T) \in T /\ \A y \in T : Min(T) <= y
  BY MinNat
<1>2. Min(T) # 0 /\ Min(T) \in Nat
  BY <1>1
<1>3. Min(T) - 1 \in Nat /\ Min(T) - 1 \notin T
  BY <1>1, <1>2
<1> QED BY <1>1, <1>2, <1>3

Entry == [deadline : 0 .. MAX, data : Tasks]

Ents(q) == {q[i] : i \in 1 .. Len(q)}

Unique(q) == \A i, j \in 1 .. Len(q) : q[i].data = q[j].data => i = j

-------------------------------------------------------------------------------
(* The queue operations.                                                   *)

(* Vec::swap_remove: the last element takes the place of the removed one. *)
LEMMA SwapRemoveSeq ==
  ASSUME NEW q \in Seq(Entry), NEW i \in 1 .. Len(q)
  PROVE  /\ SwapRemove(q, i) \in Seq(Entry)
         /\ Len(SwapRemove(q, i)) = Len(q) - 1
         /\ \A j \in 1 .. Len(q) - 1 :
              SwapRemove(q, i)[j] = IF j = i THEN q[Len(q)] ELSE q[j]
<1> DEFINE p == [q EXCEPT ![i] = q[Len(q)]]
<1>1. p \in Seq(Entry) /\ Len(p) = Len(q) /\ \A j \in 1 .. Len(q) : p[j] = IF j = i THEN q[Len(q)] ELSE q[j]
  <2>1. Len(q) \in 1 .. Len(q) /\ q[Len(q)] \in Entry
    OBVIOUS
  <2> QED BY <2>1, ExceptSeq
<1> HIDE DEF p
<1>2. SwapRemove(q, i) = SubSeq(p, 1, Len(q) - 1)
  BY DEF SwapRemove, p
<1> QED BY <1>1, <1>2, SubSeqProperties

(* Removing one entry keeps the others and their being unique. *)
LEMMA SwapRemoveEnts ==
  ASSUME NEW q \in Seq(Entry), NEW i \in 1 .. Len(q)
  PROVE  /\ Ents(SwapRemove(q, i)) \subseteq Ents(q)
         /\ \A e \in Ents(q) : e \in Ents(SwapRemove(q, i)) \/ e = q[i]
         /\ Unique(q) => /\ Unique(SwapRemove(q, i))
                         /\ \A e \in Ents(SwapRemove(q, i)) : e.data # q[i].data
<1> DEFINE c == SwapRemove(q, i)
<1>0. Len(q) \in Nat
  OBVIOUS
<1>1. /\ c \in Seq(Entry) /\ Len(c) = Len(q) - 1 /\ Len(q) \in Nat
      /\ \A j \in 1 .. Len(q) - 1 : c[j] = IF j = i THEN q[Len(q)] ELSE q[j]
  BY <1>0, SwapRemoveSeq, Zenon
<1> HIDE DEF c
<1>2. ASSUME NEW j \in 1 .. Len(c)
      PROVE  \E k \in 1 .. Len(q) : c[j] = q[k] /\ k # i /\ k = IF j = i THEN Len(q) ELSE j
  BY <1>1
<1>3. Ents(c) \subseteq Ents(q)
  BY <1>2 DEF Ents
<1>4. ASSUME NEW k \in 1 .. Len(q), k # i PROVE q[k] \in Ents(c)
  <2>1. CASE k = Len(q)
    <3>1. i \in 1 .. Len(c) /\ c[i] = q[k]
      BY <1>1, <1>4, <2>1
    <3> QED BY <3>1 DEF Ents
  <2>2. CASE k # Len(q)
    <3>1. k \in 1 .. Len(c) /\ c[k] = q[k]
      BY <1>1, <1>4, <2>2
    <3> QED BY <3>1 DEF Ents
  <2> QED BY <2>1, <2>2
<1>5. ASSUME Unique(q) PROVE Unique(c) /\ \A e \in Ents(c) : e.data # q[i].data
  <2>1. \A j \in 1 .. Len(c) : c[j].data # q[i].data
    BY <1>2, <1>5 DEF Unique
  <2>2. Unique(c)
    <3> SUFFICES ASSUME NEW j \in 1 .. Len(c), NEW k \in 1 .. Len(c), c[j].data = c[k].data
                 PROVE  j = k
      BY DEF Unique
    <3>1. PICK j2 \in 1 .. Len(q) : c[j] = q[j2] /\ j2 = IF j = i THEN Len(q) ELSE j
      BY <1>2
    <3>2. PICK k2 \in 1 .. Len(q) : c[k] = q[k2] /\ k2 = IF k = i THEN Len(q) ELSE k
      BY <1>2
    <3>3. j2 = k2
      BY <1>5, <3>1, <3>2 DEF Unique
    <3>4. j # Len(q) /\ k # Len(q)
      BY <1>1
    <3> QED BY <3>1, <3>2, <3>3, <3>4
  <2> QED BY <2>1, <2>2 DEF Ents
<1>6. \A e \in Ents(q) : e \in Ents(c) \/ e = q[i]
  BY <1>4 DEF Ents
<1> QED BY <1>3, <1>5, <1>6 DEF c

(* Entries with the same data pointer are the same entry. *)
LEMMA UniqueEnts ==
  ASSUME NEW q, Unique(q), NEW d \in Ents(q), NEW e \in Ents(q), d.data = e.data
  PROVE  d = e
  BY DEF Ents, Unique

(* The entries of a queue are its members, typed. *)
LEMMA EntsType ==
  ASSUME NEW q \in Seq(Entry)
  PROVE  /\ Len(q) \in Nat /\ DOMAIN q = 1 .. Len(q)
         /\ \A e \in Ents(q) : e \in Entry /\ e.data \in Tasks /\ e.deadline \in 0 .. MAX
         /\ q = <<>> <=> Ents(q) = {}
<1>1. Len(q) \in Nat /\ DOMAIN q = 1 .. Len(q) /\ \A i \in 1 .. Len(q) : q[i] \in Entry
  OBVIOUS
<1>2. \A e \in Entry : e.data \in Tasks /\ e.deadline \in 0 .. MAX
  BY DEF Entry
<1>3. ASSUME Ents(q) = {} PROVE q = <<>>
  <2>1. 1 \notin 1 .. Len(q)
    BY <1>3 DEF Ents
  <2>2. Len(q) = 0
    BY <2>1, <1>1
  <2> QED BY <2>2, EmptySeq
<1>4. ASSUME q = <<>> PROVE Ents(q) = {}
  <2>1. Len(q) = 0
    BY <1>4
  <2> QED BY <2>1 DEF Ents
<1> QED BY <1>1, <1>2, <1>3, <1>4 DEF Ents

(* TimerQueue::cancel leaves the other entries, and none of f's if it had  *)
(* at most one.                                                            *)
LEMMA CancelEnts ==
  ASSUME NEW q \in Seq(Entry), NEW f
  PROVE  /\ Cancel(q, f) \in Seq(Entry) /\ Len(Cancel(q, f)) <= Len(q)
         /\ Ents(Cancel(q, f)) \subseteq Ents(q)
         /\ \A e \in Ents(q) : e.data # f => e \in Ents(Cancel(q, f))
         /\ Unique(q) => /\ Unique(Cancel(q, f))
                         /\ \A e \in Ents(Cancel(q, f)) : e.data # f
<1> DEFINE hits == {i \in DOMAIN q : q[i].data = f}
<1>0. Len(q) \in Nat /\ DOMAIN q = 1 .. Len(q)
  OBVIOUS
<1>1. CASE hits = {}
  <2>1. Cancel(q, f) = q
    BY <1>1 DEF Cancel
  <2>2. \A e \in Ents(q) : e.data # f
    BY <1>0, <1>1 DEF Ents
  <2> QED BY <1>0, <2>1, <2>2
<1>2. CASE hits # {}
  <2>1. hits \in SUBSET Nat
    BY <1>0
  <2>2. Min(hits) \in hits
    BY <1>2, <2>1, MinNat
  <2> DEFINE i == Min(hits)
  <2>3. i \in 1 .. Len(q) /\ q[i].data = f
    BY <1>0, <2>2
  <2>4. Cancel(q, f) = SwapRemove(q, i)
    BY <1>2 DEF Cancel
  <2> HIDE DEF i
  <2>5. SwapRemove(q, i) \in Seq(Entry) /\ Len(SwapRemove(q, i)) = Len(q) - 1
    BY <2>3, SwapRemoveSeq, Zenon
  <2>6. Len(SwapRemove(q, i)) <= Len(q)
    BY <1>0, <2>5
  <2> DEFINE c == SwapRemove(q, i)
  <2>7. /\ Ents(c) \subseteq Ents(q)
        /\ \A e \in Ents(q) : e \in Ents(c) \/ e = q[i]
        /\ Unique(q) => Unique(c) /\ \A e \in Ents(c) : e.data # q[i].data
    BY <2>3, SwapRemoveEnts
  <2>8. c \in Seq(Entry) /\ Len(c) <= Len(q) /\ Cancel(q, f) = c
    BY <2>4, <2>5, <2>6
  <2> HIDE DEF c
  <2> QED BY <2>3, <2>7, <2>8
<1> QED BY <1>1, <1>2

(* After k rounds of the loop of dequeue_expired: r is left of q, the      *)
(* entries before i are not due, and the callbacks of fired were called.   *)
Scanned(s, q, k, t) ==
  /\ s \in [q : Seq(Entry), i : Nat, fired : SUBSET Tasks]
  /\ s.i \in 1 .. Len(s.q) + 1 /\ s.i - 1 + Len(q) - Len(s.q) = k /\ Len(s.q) <= Len(q)
  /\ \A j \in 1 .. s.i - 1 : s.q[j].deadline > t
  /\ Ents(s.q) \subseteq Ents(q)
  /\ \A e \in Ents(q) : e \in Ents(s.q) \/ (e.deadline <= t /\ e.data \in s.fired)
  /\ \A f \in s.fired : \E e \in Ents(q) : e.data = f /\ e.deadline <= t
  /\ Unique(q) => Unique(s.q)

(* One round looks at one entry, whether it advances or removes. *)
LEMMA ScanStep ==
  ASSUME NEW q \in Seq(Entry), NEW t \in Nat, NEW k \in Nat, k < Len(q),
         NEW s, Scanned(s, q, k, t)
  PROVE  s.i <= Len(s.q) /\ Scanned(ExpireStep(s, t), q, k + 1, t)
<1> DEFINE r == s.q
           i == s.i
           fired == s.fired
<1>1. /\ r \in Seq(Entry) /\ i \in Nat /\ fired \in SUBSET Tasks
      /\ Len(q) \in Nat /\ Len(r) \in Nat
      /\ i \in 1 .. Len(r) + 1 /\ i - 1 + Len(q) - Len(r) = k /\ Len(r) <= Len(q)
  BY DEF Scanned
<1>2. i \in 1 .. Len(r)
  BY <1>1
<1>3. r[i] \in Entry /\ r[i].deadline \in Nat /\ r[i].data \in Tasks
  <2>1. r[i] \in Entry
    BY <1>1, <1>2
  <2>2. \A e \in Entry : e.deadline \in Nat /\ e.data \in Tasks
    BY DEF Entry
  <2> QED BY <2>1, <2>2, Zenon
<1>4. CASE ~(r[i].deadline <= t)
  <2> DEFINE z == [s EXCEPT !.i = @ + 1]
  <2>1. ExpireStep(s, t) = z
    BY <1>4 DEF ExpireStep
  <2>2. /\ z \in [q : Seq(Entry), i : Nat, fired : SUBSET Tasks]
        /\ z.q = r /\ z.i = i + 1 /\ z.fired = fired
    <3>1. s \in [q : Seq(Entry), i : Nat, fired : SUBSET Tasks]
      BY DEF Scanned
    <3> QED BY <3>1
  <2> HIDE DEF z
  <2>3. z.i \in 1 .. Len(z.q) + 1 /\ z.i - 1 + Len(q) - Len(z.q) = k + 1 /\ Len(z.q) <= Len(q)
    <3> HIDE DEF r, i
    <3>1. i + 1 \in 1 .. Len(r) + 1 /\ i + 1 - 1 + Len(q) - Len(r) = k + 1
      BY <1>1, <1>2
    <3>2. z.i = i + 1 /\ Len(z.q) = Len(r)
      BY <2>2, Zenon
    <3> QED BY <1>1, <1>2, <3>1, <3>2
  <2>4. \A j \in 1 .. z.i - 1 : z.q[j].deadline > t
    <3>1. \A j \in 1 .. i - 1 : r[j].deadline > t
      BY DEF Scanned
    <3>2. \A j \in 1 .. z.i - 1 : j \in 1 .. i - 1 \/ j = i
      BY <1>1, <2>2
    <3>3. r[i].deadline > t
      BY <1>3, <1>4
    <3> QED BY <2>2, <3>1, <3>2, <3>3, Zenon
  <2>5. Scanned(z, q, k + 1, t)
    <3> HIDE DEF r, i, fired
    <3> QED BY <2>2, <2>3, <2>4, Zenon DEF Scanned, r, i, fired
  <2> QED BY <1>1, <1>2, <2>1, <2>5
<1>5. CASE r[i].deadline <= t
  <2> DEFINE z == [q |-> SwapRemove(r, i), i |-> i, fired |-> fired \cup {r[i].data}]
  <2>1. ExpireStep(s, t) = z
    BY <1>5 DEF ExpireStep
  <2>2. /\ SwapRemove(r, i) \in Seq(Entry) /\ Len(SwapRemove(r, i)) = Len(r) - 1
        /\ \A j \in 1 .. Len(r) - 1 : SwapRemove(r, i)[j] = IF j = i THEN r[Len(r)] ELSE r[j]
    BY <1>1, <1>2, SwapRemoveSeq, Zenon
  <2>3. /\ z \in [q : Seq(Entry), i : Nat, fired : SUBSET Tasks]
        /\ z.q = SwapRemove(r, i) /\ z.i = i /\ z.fired = fired \cup {r[i].data}
    BY <1>1, <1>3, <2>2
  <2> HIDE DEF z
  <2>4. /\ z.q \in Seq(Entry) /\ Len(z.q) = Len(r) - 1
        /\ \A j \in 1 .. Len(r) - 1 : z.q[j] = IF j = i THEN r[Len(r)] ELSE r[j]
    BY <2>2, <2>3, Zenon
  <2>5. /\ Ents(z.q) \subseteq Ents(r)
        /\ \A e \in Ents(r) : e \in Ents(z.q) \/ e = r[i]
        /\ Unique(r) => Unique(z.q)
    <3> HIDE DEF r, i
    <3>1. /\ Ents(SwapRemove(r, i)) \subseteq Ents(r)
          /\ \A e \in Ents(r) : e \in Ents(SwapRemove(r, i)) \/ e = r[i]
          /\ Unique(r) => Unique(SwapRemove(r, i))
      BY <1>1, <1>2, SwapRemoveEnts
    <3> QED BY <2>3, <3>1, Zenon
  <2>6. z.i \in 1 .. Len(z.q) + 1 /\ z.i - 1 + Len(q) - Len(z.q) = k + 1 /\ Len(z.q) <= Len(q)
    <3> HIDE DEF r, i
    <3>1. i \in 1 .. (Len(r) - 1) + 1 /\ i - 1 + Len(q) - (Len(r) - 1) = k + 1 /\ Len(r) - 1 <= Len(q)
      BY <1>1, <1>2
    <3> QED BY <2>3, <2>4, <3>1, Zenon
  <2>7. \A j \in 1 .. z.i - 1 : z.q[j].deadline > t
    <3>1. \A j \in 1 .. i - 1 : r[j].deadline > t
      BY DEF Scanned
    <3>2. z.i = i
      BY <2>3
    <3>3. \A j \in 1 .. i - 1 : j # i /\ j \in 1 .. Len(r) - 1
      <4> HIDE DEF r, i
      <4> QED BY <1>1, <1>2
    <3>4. \A j \in 1 .. i - 1 : z.q[j] = r[j]
      BY <2>4, <3>3, Zenon
    <3> QED BY <3>1, <3>2, <3>4, Zenon
  <2>8. /\ Ents(r) \subseteq Ents(q)
        /\ \A e \in Ents(q) : e \in Ents(r) \/ (e.deadline <= t /\ e.data \in fired)
        /\ \A f \in fired : \E e \in Ents(q) : e.data = f /\ e.deadline <= t
        /\ Unique(q) => Unique(r)
    BY DEF Scanned
  <2>9. r[i] \in Ents(q)
    BY <1>2, <2>8 DEF Ents
  <2>10. \A e \in Ents(q) : e \in Ents(z.q) \/ (e.deadline <= t /\ e.data \in z.fired)
    <3> SUFFICES ASSUME NEW e \in Ents(q), e \notin Ents(z.q)
                 PROVE  e.deadline <= t /\ e.data \in z.fired
      OBVIOUS
    <3>1. e = r[i] \/ (e.deadline <= t /\ e.data \in fired)
      BY <2>5, <2>8
    <3> QED BY <1>5, <2>3, <3>1
  <2>11. \A f \in z.fired : \E e \in Ents(q) : e.data = f /\ e.deadline <= t
    BY <1>5, <2>3, <2>8, <2>9
  <2>12. Scanned(z, q, k + 1, t)
    BY <2>3, <2>5, <2>6, <2>7, <2>8, <2>10, <2>11, Zenon DEF Scanned
  <2> QED BY <1>1, <1>2, <2>1, <2>12
<1> QED BY <1>4, <1>5

(* TimerQueue::dequeue_expired: the recursive function exists, by          *)
(* induction on its domain, and its last value has looked at every entry.  *)
LEMMA DequeueScans ==
  ASSUME NEW q \in Seq(Entry), NEW t \in Nat
  PROVE  Scanned(DequeueExpired(q, t), q, Len(q), t)
<1> DEFINE L == Len(q)
           At(f, k) == IF k = 0 THEN [q |-> q, i |-> 1, fired |-> {}]
                       ELSE IF f[k - 1].i <= Len(f[k - 1].q) THEN ExpireStep(f[k - 1], t) ELSE f[k - 1]
           round == CHOOSE f : f = [k \in 0 .. L |-> At(f, k)]
           S == {m \in Nat : m <= L => \E f : f = [k \in 0 .. m |-> At(f, k)]}
           G == {m \in Nat : m <= L => Scanned(round[m], q, m, t)}
<1>0. L \in Nat
  OBVIOUS
<1>1. DequeueExpired(q, t) = round[L]
  BY DEF DequeueExpired
<1>2. \A f, g : \A k \in Nat : (k # 0 => f[k - 1] = g[k - 1]) => At(f, k) = At(g, k)
  OBVIOUS
<1>3. \E f : f = [k \in 0 .. L |-> At(f, k)]
  <2> HIDE DEF At
  <2>1. 0 \in S
    <3> DEFINE g == [k \in 0 .. 0 |-> At(<<>>, k)]
    <3>1. g = [k \in 0 .. 0 |-> At(g, k)]
      BY <1>2
    <3> QED BY <3>1
  <2>2. ASSUME NEW m \in Nat, m \in S PROVE m + 1 \in S
    <3> SUFFICES ASSUME m + 1 <= L PROVE \E f : f = [k \in 0 .. m + 1 |-> At(f, k)]
      OBVIOUS
    <3>1. PICK f : f = [k \in 0 .. m |-> At(f, k)]
      BY <2>2, <1>0
    <3> DEFINE g == [k \in 0 .. m + 1 |-> At(f, k)]
    <3>2. \A k \in 0 .. m : g[k] = f[k]
      BY <3>1
    <3>3. \A k \in 0 .. m + 1 : At(f, k) = At(g, k)
      <4> HIDE DEF g
      <4>1. \A k \in 0 .. m + 1 : k # 0 => k - 1 \in 0 .. m
        OBVIOUS
      <4> QED BY <3>2, <4>1, <1>2
    <3>4. g = [k \in 0 .. m + 1 |-> At(g, k)]
      BY <3>3
    <3> QED BY <3>4
  <2>3. L \in S
    <3> HIDE DEF S
    <3> QED BY <1>0, <2>1, <2>2, NatSetInduction
  <2> QED BY <1>0, <2>3
<1>4. round = [k \in 0 .. L |-> At(round, k)]
  <2> HIDE DEF At, L
  <2> QED BY <1>3, Zenon
<1>5. ASSUME NEW k \in 0 .. L PROVE round[k] = At(round, k)
  <2> HIDE DEF At, L, round
  <2> QED BY <1>4
<1> HIDE DEF round
<1>6. L \in G
  <2>1. 0 \in G
    <3> DEFINE z == [q |-> q, i |-> 1, fired |-> {}]
    <3>1. round[0] = z
      <4>1. 0 \in 0 .. L
        BY <1>0
      <4>2. round[0] = At(round, 0)
        BY <4>1, <1>5, Zenon
      <4> QED BY <4>2, Zenon
    <3>2. /\ z \in [q : Seq(Entry), i : Nat, fired : SUBSET Tasks]
          /\ z.q = q /\ z.i = 1 /\ z.fired = {}
      OBVIOUS
    <3> HIDE DEF z
    <3>3. z.i \in 1 .. Len(z.q) + 1 /\ z.i - 1 + Len(q) - Len(z.q) = 0 /\ Len(z.q) <= Len(q) /\ 1 .. z.i - 1 = {}
      BY <1>0, <3>2
    <3>4. Scanned(z, q, 0, t)
      BY <3>2, <3>3, Zenon DEF Scanned
    <3> QED BY <3>1, <3>4
  <2>2. ASSUME NEW m \in Nat, m \in G PROVE m + 1 \in G
    <3> SUFFICES ASSUME m + 1 <= L PROVE Scanned(round[m + 1], q, m + 1, t)
      OBVIOUS
    <3>1. Scanned(round[m], q, m, t) /\ m < L
      BY <2>2, <1>0
    <3>2. round[m].i <= Len(round[m].q) /\ Scanned(ExpireStep(round[m], t), q, m + 1, t)
      BY <3>1, ScanStep
    <3>3. round[m + 1] = IF round[m].i <= Len(round[m].q) THEN ExpireStep(round[m], t) ELSE round[m]
      BY <1>0, <1>5
    <3> QED BY <3>2, <3>3, Zenon
  <2> HIDE DEF G
  <2> QED BY <1>0, <2>1, <2>2, NatSetInduction
<1> QED BY <1>0, <1>1, <1>6

(* The handler's queue afterwards: exactly the entries that are not due    *)
(* are left, and exactly the due ones were called back.                    *)
LEMMA DequeueEnts ==
  ASSUME NEW q \in Seq(Entry), NEW t \in Nat
  PROVE  LET r == DequeueExpired(q, t)
         IN  /\ r.q \in Seq(Entry) /\ Len(r.q) <= Len(q)
             /\ Ents(r.q) = {e \in Ents(q) : e.deadline > t}
             /\ r.fired \subseteq Tasks
             /\ \A e \in Ents(q) : e.deadline <= t => e.data \in r.fired
             /\ \A f \in r.fired : \E e \in Ents(q) : e.data = f /\ e.deadline <= t
             /\ Unique(q) => Unique(r.q)
<1> DEFINE r == DequeueExpired(q, t)
<1>1. Scanned(r, q, Len(q), t)
  BY DequeueScans
<1> HIDE DEF r
<1>2. /\ r.q \in Seq(Entry) /\ r.i \in Nat /\ r.fired \subseteq Tasks
      /\ Len(q) \in Nat /\ Len(r.q) \in Nat
      /\ r.i \in 1 .. Len(r.q) + 1 /\ r.i - 1 + Len(q) - Len(r.q) = Len(q)
  BY <1>1 DEF Scanned
<1>3. r.i - 1 = Len(r.q)
  BY <1>2
<1>4. \A e \in Ents(r.q) : e.deadline > t
  BY <1>1, <1>3 DEF Scanned, Ents
<1>5. \A e \in Ents(q) : e.deadline \in Nat /\ t \in Nat
  BY EntsType
<1>6. \A e \in Ents(q) : ~(e.deadline > t /\ e.deadline <= t)
  BY <1>5
<1>7. Ents(r.q) = {e \in Ents(q) : e.deadline > t}
  BY <1>1, <1>4, <1>6 DEF Scanned
<1>8. \A e \in Ents(q) : e.deadline <= t => e.data \in r.fired
  BY <1>1, <1>6, <1>7 DEF Scanned
<1>9. Len(r.q) <= Len(q)
  BY <1>1 DEF Scanned
<1> QED BY <1>1, <1>2, <1>7, <1>8, <1>9 DEF Scanned, r

-------------------------------------------------------------------------------
(* Arithmetic of the compare register and of after().                      *)

(* Division with remainder. *)
LEMMA DivMod ==
  ASSUME NEW x \in Nat, NEW w \in Nat \ {0}
  PROVE  /\ x \div w \in Nat /\ x % w \in 0 .. w - 1
         /\ x = w * (x \div w) + (x % w)
         /\ x % w <= x
<1>1. x \div w \in Int /\ x % w \in 0 .. w - 1 /\ x = w * (x \div w) + (x % w)
  OBVIOUS
<1> DEFINE d == x \div w
           m == x % w
<1> HIDE DEF d, m
<1>2. d \in Int /\ m \in 0 .. w - 1 /\ x = w * d + m
  BY <1>1 DEF d, m
<1>3. d >= 0
  <2> SUFFICES ASSUME d <= -1 PROVE FALSE
    BY <1>2
  <2>1. w * d <= -w
    BY <1>2
  <2> QED BY <1>2, <2>1
<1>4. w * d >= 0
  BY <1>2, <1>3
<1>5. m <= x
  <2> DEFINE y == w * d
  <2>1. y \in Int /\ y >= 0 /\ x = y + m
    BY <1>2, <1>4
  <2> HIDE DEF y
  <2> QED BY <1>2, <2>1
<1> QED BY <1>1, <1>2, <1>3, <1>5 DEF d, m

(* u64::MAX is at least one word. *)
LEMMA MaxNat == MAX \in Nat /\ W <= MAX /\ W \in Nat \ {0, 1} /\ MAX + 1 = W * W
<1>1. W \in Nat /\ W >= 2
  BY BoundsAssumption
<1>2. W * W >= 2 * W
  BY <1>1
<1> QED BY <1>1, <1>2 DEF MAX

(* A deadline fits the two words of the compare register. *)
LEMMA WordsOf ==
  ASSUME NEW x \in 0 .. MAX
  PROVE  /\ x \div W \in 0 .. W - 1 /\ x % W \in 0 .. W - 1
         /\ (x \div W) * W + (x % W) = x
<1>1. x \in Nat /\ W \in Nat \ {0}
  BY MaxNat
<1> DEFINE d == x \div W
           m == x % W
<1>2. d \in Nat /\ m \in 0 .. W - 1 /\ x = W * d + m
  BY <1>1, DivMod
<1> HIDE DEF d, m
<1>3. x < W * W
  BY MaxNat
<1>4. d < W
  <2> SUFFICES ASSUME d >= W PROVE FALSE
    BY <1>1, <1>2
  <2>1. W * d >= W * W
    BY <1>1, <1>2
  <2> QED BY <1>1, <1>2, <1>3, <2>1
<1>5. d * W = W * d
  BY <1>1, <1>2
<1> QED BY <1>1, <1>2, <1>4, <1>5 DEF d, m

(* The minimum of two naturals. *)
LEMMA MinPair ==
  ASSUME NEW x \in Nat, NEW y \in Nat
  PROVE  Min({x, y}) \in {x, y} /\ Min({x, y}) <= x /\ Min({x, y}) <= y
<1>1. {x, y} \in SUBSET Nat /\ {x, y} # {}
  OBVIOUS
<1>2. Min({x, y}) \in {x, y} /\ \A z \in {x, y} : Min({x, y}) <= z
  BY <1>1, MinNat
<1> QED BY <1>2

(* What after() converts a duration to, and the deadline it stores. *)
LEMMA TicksNat ==
  ASSUME NEW d \in Durations, NEW n \in Nat
  PROVE  /\ Ticks(d) \in Nat /\ Ticks(d) <= (d * freq_hz) \div NANOS
         /\ (d * freq_hz) \div NANOS \in Nat /\ d * freq_hz \in Nat
         /\ Min({n + Ticks(d), MAX}) \in 0 .. MAX
         /\ Min({n + Ticks(d), MAX}) <= n + Ticks(d)
         /\ Min({n + Ticks(d), MAX}) \in {n + Ticks(d), MAX}
<1>1. d \in Nat /\ freq_hz \in Nat /\ NANOS \in Nat \ {0} /\ MAX \in Nat
  BY BoundsAssumption, MaxNat
<1>2. d * freq_hz \in Nat
  BY <1>1
<1> DEFINE x == (d * freq_hz) \div NANOS
<1>3. x \in Nat
  BY <1>1, <1>2, DivMod
<1>4. Ticks(d) = x % (MAX + 1)
  BY DEF Ticks
<1> HIDE DEF x
<1>5. MAX + 1 \in Nat \ {0}
  BY <1>1
<1>6. Ticks(d) \in Nat /\ Ticks(d) <= x
  <2> DEFINE M == MAX + 1
  <2>1. M \in Nat \ {0} /\ Ticks(d) = x % M
    BY <1>4, <1>5
  <2> HIDE DEF M
  <2>2. x % M \in 0 .. M - 1 /\ x % M <= x
    BY <1>3, <2>1, DivMod
  <2> QED BY <2>1, <2>2
<1>7. n + Ticks(d) \in Nat
  BY <1>6
<1>8. /\ Min({n + Ticks(d), MAX}) \in {n + Ticks(d), MAX}
      /\ Min({n + Ticks(d), MAX}) <= n + Ticks(d) /\ Min({n + Ticks(d), MAX}) <= MAX
  BY <1>1, <1>7, MinPair
<1>9. Min({n + Ticks(d), MAX}) \in 0 .. MAX
  BY <1>1, <1>7, <1>8
<1> QED BY <1>2, <1>3, <1>6, <1>8, <1>9 DEF x

-------------------------------------------------------------------------------
(* Typing.  A task in poll() has a TimerDelay.                             *)

PollAlive == \A f \in Tasks : pc[f] # "idle" => f \in alive

(* The queue after the interrupt handler, and the deadline it programs. *)
LEMMA IsrStep ==
  ASSUME TypeOK, TimerIsr
  PROVE  /\ entries \in Seq(Entry) /\ entries' \in Seq(Entry) /\ Len(entries') <= Len(entries)
         /\ Ents(entries') = {e \in Ents(entries) : e.deadline > now}
         /\ Unique(entries) => Unique(entries')
         /\ \A e \in Ents(entries) : e.deadline <= now /\ e.data \in alive => e.data \in woken'
         /\ \A f \in woken' : \/ f \in woken
                              \/ f \in alive /\ \E e \in Ents(entries) : e.data = f /\ e.deadline <= now
         /\ woken \subseteq woken'
         /\ \E d \in 0 .. MAX : /\ cmpHi' = d \div W /\ cmpLo' = d % W
                                /\ \A e \in Ents(entries') : d <= e.deadline
                                /\ Ents(entries') # {} => \E e \in Ents(entries') : d = e.deadline
<1> DEFINE r == DequeueExpired(entries, now)
           d == IF r.q = <<>> THEN MAX ELSE Min(Deadlines(r.q))
<1>1. /\ entries \in Seq(Entry) /\ now \in Nat
  BY BoundsAssumption DEF TypeOK, Entry
<1>2. /\ entries' = r.q /\ woken' = woken \cup (r.fired \cap alive)
      /\ cmpHi' = d \div W /\ cmpLo' = d % W
  BY DEF TimerIsr, SetDeadline
<1>3. /\ r.q \in Seq(Entry) /\ Len(r.q) <= Len(entries)
      /\ Ents(r.q) = {e \in Ents(entries) : e.deadline > now}
      /\ \A e \in Ents(entries) : e.deadline <= now => e.data \in r.fired
      /\ \A f \in r.fired : \E e \in Ents(entries) : e.data = f /\ e.deadline <= now
      /\ Unique(entries) => Unique(r.q)
  BY <1>1, DequeueEnts, Zenon
<1> HIDE DEF r
<1>4. /\ DOMAIN r.q = 1 .. Len(r.q) /\ (r.q = <<>> <=> Ents(r.q) = {})
      /\ \A e \in Ents(r.q) : e.deadline \in 0 .. MAX
  BY <1>3, EntsType, Zenon
<1>5. Deadlines(r.q) = {e.deadline : e \in Ents(r.q)}
  BY <1>4 DEF Deadlines, Ents
<1>6. /\ d \in 0 .. MAX /\ \A e \in Ents(r.q) : d <= e.deadline
      /\ Ents(r.q) # {} => \E e \in Ents(r.q) : d = e.deadline
  <2>1. CASE r.q = <<>>
    <3>1. d = MAX /\ Ents(r.q) = {}
      BY <1>4, <2>1
    <3> HIDE DEF d
    <3> QED BY <3>1, MaxNat
  <2>2. CASE r.q # <<>>
    <3>1. d = Min(Deadlines(r.q))
      BY <2>2
    <3> HIDE DEF d
    <3>2. Deadlines(r.q) \in SUBSET Nat /\ Deadlines(r.q) # {}
      BY <1>4, <1>5, <2>2
    <3>3. d \in Deadlines(r.q) /\ \A y \in Deadlines(r.q) : d <= y
      BY <3>1, <3>2, MinNat
    <3> QED BY <1>4, <1>5, <3>3
  <2> QED BY <2>1, <2>2
<1> HIDE DEF d
<1>7. \E x \in 0 .. MAX : /\ cmpHi' = x \div W /\ cmpLo' = x % W
                          /\ \A e \in Ents(entries') : x <= e.deadline
                          /\ Ents(entries') # {} => \E e \in Ents(entries') : x = e.deadline
  <2>1. d \in 0 .. MAX
    BY <1>6
  <2> WITNESS d \in 0 .. MAX
  <2> QED BY <1>2, <1>6, Zenon
<1>8. /\ \A e \in Ents(entries) : e.deadline <= now /\ e.data \in alive => e.data \in woken'
      /\ \A f \in woken' : \/ f \in woken
                           \/ f \in alive /\ \E e \in Ents(entries) : e.data = f /\ e.deadline <= now
      /\ woken \subseteq woken'
  BY <1>2, <1>3
<1> QED BY <1>1, <1>2, <1>3, <1>7, <1>8, Zenon

(* Schedule appends one entry, or panics and changes nothing else. *)
LEMMA ScheduleStep ==
  ASSUME TypeOK, NEW f \in Tasks, Schedule(f), ~panicked'
  PROVE  /\ entries \in Seq(Entry) /\ entries' \in Seq(Entry) /\ Len(entries') <= N
         /\ Ents(entries') = Ents(entries) \cup {[deadline |-> deadline[f], data |-> f]}
         /\ (Unique(entries) /\ \A e \in Ents(entries) : e.data # f) => Unique(entries')
         /\ Goto(f, IF IsEarliest(deadline[f]) THEN "hi" ELSE "reg")
<1> DEFINE n == [deadline |-> deadline[f], data |-> f]
<1>1. entries \in Seq(Entry) /\ n \in Entry
  BY DEF TypeOK, Entry
<1>2. Len(entries) \in Nat /\ N \in Nat /\ Len(entries) < N /\ entries' = Append(entries, n)
  BY <1>1, BoundsAssumption DEF Schedule
<1>3. n.data = f
  OBVIOUS
<1> HIDE DEF n
<1>4. /\ entries' \in Seq(Entry) /\ Len(entries') = Len(entries) + 1
      /\ entries'[Len(entries) + 1] = n /\ \A j \in 1 .. Len(entries) : entries'[j] = entries[j]
  BY <1>1, <1>2, AppendProperties
<1>5. \A j : j \in 1 .. Len(entries') <=> j \in 1 .. Len(entries) \/ j = Len(entries) + 1
  BY <1>2, <1>4
<1>6. Ents(entries') = Ents(entries) \cup {n}
  <2> SUFFICES ASSUME NEW e PROVE e \in Ents(entries') <=> e \in Ents(entries) \/ e = n
    OBVIOUS
  <2> QED BY <1>4, <1>5 DEF Ents
<1>7. ASSUME Unique(entries), \A e \in Ents(entries) : e.data # f PROVE Unique(entries')
  BY <1>3, <1>4, <1>5, <1>7 DEF Unique, Ents
<1>8. Len(entries') <= N
  BY <1>2, <1>4
<1>9. Goto(f, IF IsEarliest(deadline[f]) THEN "hi" ELSE "reg")
  BY <1>2 DEF Schedule
<1> QED BY <1>1, <1>4, <1>6, <1>7, <1>8, <1>9 DEF n

(* Every step keeps the types, the queue within its capacity and the       *)
(* compare register within its words.                                      *)
LEMMA TypeNext == TypeOK /\ PollAlive /\ [Next]_vars => (TypeOK /\ PollAlive)'
<1> SUFFICES ASSUME TypeOK, PollAlive, [Next]_vars PROVE TypeOK' /\ PollAlive'
  OBVIOUS
<1>1. CASE Tick
  BY <1>1, BoundsAssumption DEF Tick, TypeOK, PollAlive, delay
<1>2. CASE TimerIsr
  <2>1. /\ entries' \in Seq(Entry) /\ Len(entries') <= Len(entries) /\ entries \in Seq(Entry)
        /\ \A f \in woken' : f \in woken \/ f \in alive
    BY <1>2, IsrStep
  <2>2. cmpHi' \in 0 .. W - 1 /\ cmpLo' \in 0 .. W - 1
    BY <1>2, IsrStep, WordsOf
  <2>3. Len(entries') <= N
    BY <2>1, BoundsAssumption DEF TypeOK
  <2>4. UNCHANGED <<now, alive, registered, deadline, due, pc, panicked>>
    BY <1>2 DEF TimerIsr, delay
  <2> QED BY <2>1, <2>2, <2>3, <2>4 DEF TypeOK, PollAlive, Entry
<1>3. ASSUME NEW f \in Tasks, NEW d \in Durations, After(f, d) PROVE TypeOK' /\ PollAlive'
  <2>1. now \in Nat /\ d \in Nat /\ NANOS \in Nat
    BY BoundsAssumption DEF TypeOK
  <2> DEFINE x == Min({now + Ticks(d), MAX})
             y == now * NANOS + d * freq_hz
  <2>2. x \in 0 .. MAX /\ y \in Nat
    <3>1. x \in 0 .. MAX /\ d * freq_hz \in Nat
      BY <2>1, TicksNat
    <3>2. now * NANOS \in Nat
      BY <2>1
    <3> QED BY <3>1, <3>2
  <2>3. /\ deadline' = [deadline EXCEPT ![f] = x] /\ due' = [due EXCEPT ![f] = y]
        /\ alive' = alive \cup {f} /\ woken' = woken \cup {f}
        /\ UNCHANGED <<now, cmpHi, cmpLo, entries, registered, pc, panicked>>
    BY <1>3 DEF After
  <2> HIDE DEF x, y
  <2> QED BY <2>2, <2>3 DEF TypeOK, PollAlive
<1>4. ASSUME NEW f \in Tasks, Poll(f) PROVE TypeOK' /\ PollAlive'
  <2>1. CASE PollReady(f)
    BY <1>4, <2>1 DEF Poll, PollReady, TypeOK, PollAlive
  <2>2. CASE PollPending(f)
    BY <1>4, <2>2 DEF Poll, PollPending, Goto, delay, TypeOK, PollAlive
  <2> QED BY <1>4, <2>1, <2>2 DEF Poll
<1>5. ASSUME NEW f \in Tasks, Schedule(f) PROVE TypeOK' /\ PollAlive'
  <2>1. UNCHANGED <<now, cmpHi, cmpLo, alive, deadline, registered, due, woken>> /\ f \in alive
    BY <1>5 DEF Schedule, delay, PollAlive
  <2>2. CASE panicked'
    BY <1>5, <2>1, <2>2 DEF Schedule, Goto, Runs, TypeOK, PollAlive
  <2>3. CASE ~panicked'
    <3>1. entries' \in Seq(Entry) /\ Len(entries') <= N
      BY <1>5, <2>3, ScheduleStep
    <3>2. PICK l \in {"hi", "reg"} : pc' = [pc EXCEPT ![f] = l]
      BY <1>5, <2>3, ScheduleStep DEF Goto
    <3>3. panicked' \in BOOLEAN
      BY <1>5, Zenon DEF Schedule, TypeOK
    <3> QED BY <2>1, <3>1, <3>2, <3>3 DEF TypeOK, PollAlive, Entry
  <2> QED BY <2>2, <2>3
<1>6. ASSUME NEW f \in Tasks, SetHi(f) \/ SetLo(f) PROVE TypeOK' /\ PollAlive'
  <2>1. deadline[f] \div W \in 0 .. W - 1 /\ deadline[f] % W \in 0 .. W - 1
    BY WordsOf DEF TypeOK
  <2>2. cmpHi' \in 0 .. W - 1 /\ cmpLo' \in 0 .. W - 1
    BY <1>6, <2>1 DEF SetHi, SetLo, TypeOK
  <2>3. /\ UNCHANGED <<now, entries, alive, deadline, registered, due, woken, panicked>>
        /\ pc[f] # "idle"
    BY <1>6 DEF SetHi, SetLo, delay
  <2>4. pc' = [pc EXCEPT ![f] = "lo"] \/ pc' = [pc EXCEPT ![f] = "reg"]
    BY <1>6 DEF SetHi, SetLo, Goto
  <2> QED BY <2>2, <2>3, <2>4 DEF TypeOK, PollAlive
<1>7. ASSUME NEW f \in Tasks, Register(f) PROVE TypeOK' /\ PollAlive'
  BY <1>7 DEF Register, Goto, TypeOK, PollAlive
<1>8. ASSUME NEW f \in Tasks, DropDelay(f) PROVE TypeOK' /\ PollAlive'
  <2>1. entries \in Seq(Entry)
    BY DEF TypeOK, Entry
  <2>2. entries' \in Seq(Entry) /\ Len(entries') <= Len(entries)
    BY <1>8, <2>1, CancelEnts DEF DropDelay
  <2>3. Len(entries') <= N
    BY <2>1, <2>2, BoundsAssumption DEF TypeOK
  <2> QED BY <1>8, <2>2, <2>3 DEF DropDelay, TypeOK, PollAlive, Entry
<1>9. CASE UNCHANGED vars
  BY <1>9 DEF vars, delay, TypeOK, PollAlive
<1> QED BY <1>1, <1>2, <1>3, <1>4, <1>5, <1>6, <1>7, <1>8, <1>9 DEF Next, Step

(* platform::start() has pushed the deadline out to u64::MAX. *)
LEMMA TypeInit == Init => TypeOK /\ PollAlive
<1> SUFFICES ASSUME Init PROVE TypeOK /\ PollAlive
  OBVIOUS
<1>1. cmpHi \in 0 .. W - 1 /\ cmpLo \in 0 .. W - 1 /\ 0 \in 0 .. MAX
  <2>1. MAX \in 0 .. MAX /\ 0 \in 0 .. MAX
    BY MaxNat
  <2> QED BY <2>1, WordsOf DEF Init
<1>2. entries \in Seq(Entry) /\ Len(entries) = 0 /\ 0 <= N
  BY BoundsAssumption DEF Init
<1>3. entries \in Seq([deadline : 0 .. MAX, data : Tasks]) /\ Len(entries) <= N
  BY <1>2 DEF Entry
<1>4. now \in 0 .. MaxTime /\ due \in [Tasks -> Nat]
  BY BoundsAssumption DEF Init
<1>5. panicked \in BOOLEAN
  BY Zenon DEF Init
<1>6. deadline \in [Tasks -> 0 .. MAX]
  BY <1>1 DEF Init
<1> QED BY <1>1, <1>3, <1>4, <1>5, <1>6 DEF Init, TypeOK, PollAlive

(* For any application of delays the queue never exceeds its capacity, the *)
(* compare register holds two words, and every registered or woken delay   *)
(* exists.                                                                 *)
THEOREM TypeAlways == Spec => []TypeOK
<1>1. Spec => [](TypeOK /\ PollAlive)
  BY TypeInit, TypeNext, PTL DEF Spec
<1> QED BY <1>1, PTL

(* dequeue_expired with its swap_remove loop, as handle_timer_isr calls    *)
(* it: no due entry stays behind and no other is removed.                  *)
THEOREM IsrFiresExactlyDueAlways == Spec => IsrFiresExactlyDue
<1>1. ASSUME TypeOK, TimerIsr
      PROVE  {entries'[i] : i \in DOMAIN entries'}
               = {e \in {entries[i] : i \in DOMAIN entries} : e.deadline > now}
  <2>1. /\ entries \in Seq(Entry) /\ entries' \in Seq(Entry)
        /\ Ents(entries') = {e \in Ents(entries) : e.deadline > now}
    BY <1>1, IsrStep
  <2>2. DOMAIN entries = 1 .. Len(entries) /\ DOMAIN entries' = 1 .. Len(entries')
    BY <2>1
  <2> QED BY <2>1, <2>2, Zenon DEF Ents
<1>2. TypeOK => [TimerIsr => {entries'[i] : i \in DOMAIN entries'}
                   = {e \in {entries[i] : i \in DOMAIN entries} : e.deadline > now}]_vars
  BY <1>1
<1> QED BY <1>2, TypeAlways, PTL DEF IsrFiresExactlyDue, Spec

-------------------------------------------------------------------------------
(* Lifetimes.  When only a wake makes the executor poll a delay, a woken   *)
(* delay that has been through poll() is due and out of the queue, so      *)
(* Ready, which resets registered without a cancel, leaves nothing behind. *)

Queued(f) == \E e \in Ents(entries) : e.data = f

EntriesOK ==
  /\ Unique(entries)
  /\ \A e \in Ents(entries) :
       /\ e.data \in alive \ woken /\ e.deadline = deadline[e.data]
       /\ pc[e.data] # "sched" /\ (pc[e.data] = "idle" => e.data \in registered)

DelaysOK ==
  /\ \A f \in Tasks : pc[f] # "idle" => f \notin registered
  /\ \A f \in Tasks : pc[f] = "sched" => f \notin woken
  /\ \A f \in alive : pc[f] # "sched" => f \in woken \/ Queued(f)
  /\ \A f \in woken : f \in registered \/ pc[f] # "idle" => now >= deadline[f]

LifeOK == EntriesOK /\ DelaysOK

(* The interrupt handler calls back live delays and takes them out. *)
LEMMA LifeIsr ==
  ASSUME TypeOK, LifeOK, TimerIsr
  PROVE  LifeOK'
<1>1. /\ UNCHANGED <<now, alive, registered, deadline, pc>>
      /\ entries \in Seq(Entry) /\ now \in Nat
  BY BoundsAssumption DEF TimerIsr, delay, TypeOK, Entry
<1>2. /\ Ents(entries') = {e \in Ents(entries) : e.deadline > now}
      /\ Unique(entries) => Unique(entries')
      /\ \A e \in Ents(entries) : e.deadline <= now /\ e.data \in alive => e.data \in woken'
      /\ \A f \in woken' : \/ f \in woken
                           \/ f \in alive /\ \E e \in Ents(entries) : e.data = f /\ e.deadline <= now
      /\ woken \subseteq woken'
  BY IsrStep
<1>3. \A e \in Ents(entries) : e.deadline \in Nat /\ (e.deadline > now \/ e.deadline <= now)
                               /\ ~(e.deadline > now /\ e.deadline <= now)
  BY <1>1, EntsType
<1>4. EntriesOK'
  <2>1. ASSUME NEW e \in Ents(entries') PROVE e.data \notin woken'
    <3>1. e \in Ents(entries) /\ e.deadline > now /\ e.data \notin woken
      BY <1>2 DEF LifeOK, EntriesOK
    <3>2. \A d \in Ents(entries) : d.data = e.data => d = e
      BY <3>1, UniqueEnts DEF LifeOK, EntriesOK
    <3> QED BY <1>2, <1>3, <3>1, <3>2
  <2> QED BY <1>1, <1>2, <2>1 DEF LifeOK, EntriesOK
<1>5. DelaysOK'
  <2>1. ASSUME NEW f \in alive, pc[f] # "sched" PROVE f \in woken' \/ Queued(f)'
    <3>1. CASE f \in woken
      BY <1>2, <3>1
    <3>2. CASE f \notin woken
      <4>1. PICK e \in Ents(entries) : e.data = f
        BY <2>1, <3>2 DEF LifeOK, DelaysOK, Queued
      <4> QED BY <1>2, <1>3, <4>1, <2>1 DEF Queued
    <3> QED BY <3>1, <3>2
  <2>2. \A f \in Tasks : pc[f] = "sched" => f \notin woken'
    BY <1>2 DEF LifeOK, EntriesOK, DelaysOK
  <2>3. ASSUME NEW f \in woken', f \in registered \/ pc[f] # "idle" PROVE now >= deadline[f]
    <3>1. CASE f \in woken
      BY <2>3, <3>1 DEF LifeOK, DelaysOK
    <3>2. CASE f \notin woken
      <4>1. PICK e \in Ents(entries) : e.data = f /\ e.deadline <= now
        BY <1>2, <2>3, <3>2
      <4>2. e.deadline = deadline[f] /\ e.deadline \in Nat
        BY <4>1, <1>3 DEF LifeOK, EntriesOK
      <4> QED BY <1>1, <4>1, <4>2
    <3> QED BY <3>1, <3>2
  <2> QED BY <1>1, <2>1, <2>2, <2>3 DEF LifeOK, DelaysOK
<1> QED BY <1>4, <1>5 DEF LifeOK

(* Schedule queues the delay being polled, which was not queued. *)
LEMMA LifeSchedule ==
  ASSUME TypeOK, PollAlive, LifeOK, NEW f \in Tasks, Schedule(f)
  PROVE  LifeOK'
<1>1. /\ UNCHANGED <<now, alive, registered, deadline, woken>>
      /\ pc[f] = "sched" /\ f \in alive /\ f \notin woken
      /\ \A e \in Ents(entries) : e.data # f
  BY DEF Schedule, delay, PollAlive, LifeOK, DelaysOK, EntriesOK
<1>2. CASE panicked'
  <2>1. UNCHANGED <<entries, pc>>
    BY <1>2 DEF Schedule, Runs
  <2> QED BY <1>1, <2>1 DEF LifeOK, EntriesOK, DelaysOK, Queued
<1>3. CASE ~panicked'
  <2> DEFINE n == [deadline |-> deadline[f], data |-> f]
  <2>1. /\ Ents(entries') = Ents(entries) \cup {n}
        /\ (Unique(entries) /\ \A e \in Ents(entries) : e.data # f) => Unique(entries')
    BY <1>3, ScheduleStep, Zenon
  <2>2. n.data = f /\ n.deadline = deadline[f]
    OBVIOUS
  <2> HIDE DEF n
  <2>3. PICK l \in {"hi", "reg"} : pc' = [pc EXCEPT ![f] = l]
    BY <1>3, ScheduleStep DEF Goto
  <2>4. pc'[f] = l /\ \A g \in Tasks : g # f => pc'[g] = pc[g]
    BY <2>3 DEF TypeOK
  <2>5. \A e \in Ents(entries) : e.data \in Tasks
    <3>1. entries \in Seq(Entry)
      BY DEF TypeOK, Entry
    <3> QED BY <3>1, EntsType
  <2>6. EntriesOK'
    BY <1>1, <2>1, <2>2, <2>4, <2>5 DEF LifeOK, EntriesOK
  <2>7. Queued(f)' /\ \A g \in Tasks : Queued(g) => Queued(g)'
    BY <2>1, <2>2 DEF Queued
  <2>8. f \notin registered
    BY <1>1 DEF LifeOK, DelaysOK
  <2>9. DelaysOK'
    BY <1>1, <2>4, <2>7, <2>8 DEF LifeOK, DelaysOK, TypeOK
  <2> QED BY <2>6, <2>9 DEF LifeOK
<1> QED BY <1>2, <1>3

(* Drop cancels the entry of a registered delay, the only one it has. *)
LEMMA LifeDrop ==
  ASSUME TypeOK, LifeOK, NEW f \in Tasks, DropDelay(f)
  PROVE  LifeOK'
<1>1. /\ UNCHANGED <<now, deadline, pc>> /\ entries \in Seq(Entry)
      /\ pc[f] = "idle" /\ alive' = alive \ {f} /\ registered' = registered \ {f}
      /\ woken' = woken \ {f}
  BY DEF DropDelay, TypeOK, Entry
<1>2. /\ Unique(entries') /\ Ents(entries') \subseteq Ents(entries)
      /\ \A e \in Ents(entries') : e.data # f
      /\ \A e \in Ents(entries) : e.data # f => e \in Ents(entries')
  <2>1. CASE f \in registered
    BY <1>1, <2>1, CancelEnts DEF DropDelay, LifeOK, EntriesOK
  <2>2. CASE f \notin registered
    BY <1>1, <2>2 DEF DropDelay, LifeOK, EntriesOK
  <2> QED BY <2>1, <2>2
<1>3. EntriesOK'
  BY <1>1, <1>2 DEF LifeOK, EntriesOK
<1>4. DelaysOK'
  BY <1>1, <1>2 DEF LifeOK, DelaysOK, Queued
<1> QED BY <1>3, <1>4 DEF LifeOK

(* A poll after a wake completes a delay that is not queued, or goes on to *)
(* queue it.                                                               *)
LEMMA LifePoll ==
  ASSUME TypeOK, LifeOK, Spurious = {}, NEW f \in Tasks, Poll(f)
  PROVE  LifeOK'
<1>1. /\ UNCHANGED <<now, entries, deadline>> /\ f \in woken /\ pc[f] = "idle" /\ f \in alive
      /\ woken' = woken \ {f} /\ now \in Nat /\ deadline[f] \in Nat
      /\ \A e \in Ents(entries) : e.data # f
  BY BoundsAssumption DEF Poll, PollReady, PollPending, delay, TypeOK, LifeOK, EntriesOK
<1>2. CASE PollReady(f)
  <2>1. alive' = alive \ {f} /\ registered' = registered \ {f} /\ UNCHANGED pc
    BY <1>2 DEF PollReady
  <2>2. EntriesOK'
    BY <1>1, <2>1 DEF LifeOK, EntriesOK
  <2>3. DelaysOK'
    BY <1>1, <2>1 DEF LifeOK, DelaysOK, Queued
  <2> QED BY <2>2, <2>3 DEF LifeOK
<1>3. CASE PollPending(f)
  <2>1. UNCHANGED <<alive, registered>> /\ ~(now >= deadline[f])
    BY <1>1, <1>3 DEF PollPending, delay
  <2>2. f \notin registered
    BY <1>1, <2>1 DEF LifeOK, DelaysOK
  <2>3. pc' = [pc EXCEPT ![f] = "sched"]
    BY <1>3, <2>2 DEF PollPending, Goto
  <2>4. pc'[f] = "sched" /\ \A g \in Tasks : g # f => pc'[g] = pc[g]
    BY <2>3 DEF TypeOK
  <2>5. \A e \in Ents(entries) : e.data \in Tasks
    <3>1. entries \in Seq(Entry)
      BY DEF TypeOK, Entry
    <3> QED BY <3>1, EntsType
  <2>6. EntriesOK'
    BY <1>1, <2>1, <2>4, <2>5 DEF LifeOK, EntriesOK
  <2>7. DelaysOK'
    BY <1>1, <2>1, <2>2, <2>4 DEF LifeOK, DelaysOK, Queued, TypeOK
  <2> QED BY <2>6, <2>7 DEF LifeOK
<1> QED BY <1>2, <1>3 DEF Poll

(* Every step keeps the lifetimes in order. *)
LEMMA LifeNext ==
  ASSUME Spurious = {}
  PROVE  TypeOK /\ PollAlive /\ LifeOK /\ [Next]_vars => LifeOK'
<1> SUFFICES ASSUME TypeOK, PollAlive, LifeOK, [Next]_vars PROVE LifeOK'
  OBVIOUS
<1>0. \A e \in Ents(entries) : e.data \in Tasks
  <2>1. entries \in Seq(Entry)
    BY DEF TypeOK, Entry
  <2> QED BY <2>1, EntsType
<1>1. CASE Tick
  <2>1. now' = now + 1 /\ UNCHANGED <<entries, alive, deadline, registered, pc, woken>>
    BY <1>1 DEF Tick, delay
  <2>2. \A f \in woken : now \in Int /\ deadline[f] \in Int
    BY BoundsAssumption DEF TypeOK
  <2>3. \A f \in woken : now >= deadline[f] => now' >= deadline[f]
    BY <2>1, <2>2
  <2> QED BY <2>1, <2>3 DEF LifeOK, EntriesOK, DelaysOK, Queued
<1>2. CASE TimerIsr
  BY <1>2, LifeIsr
<1>3. ASSUME NEW f \in Tasks, NEW d \in Durations, After(f, d) PROVE LifeOK'
  <2>1. /\ UNCHANGED <<now, entries, registered, pc>> /\ f \notin alive
        /\ alive' = alive \cup {f} /\ woken' = woken \cup {f}
        /\ \A g \in Tasks : g # f => deadline'[g] = deadline[g]
    BY <1>3 DEF After, TypeOK
  <2>2. pc[f] = "idle" /\ f \notin registered /\ \A e \in Ents(entries) : e.data # f
    BY <2>1 DEF TypeOK, PollAlive, LifeOK, EntriesOK
  <2>3. EntriesOK'
    BY <1>0, <2>1, <2>2 DEF LifeOK, EntriesOK
  <2>4. DelaysOK'
    BY <2>1, <2>2 DEF LifeOK, DelaysOK, Queued, TypeOK
  <2> QED BY <2>3, <2>4 DEF LifeOK
<1>4. ASSUME NEW f \in Tasks, Poll(f) PROVE LifeOK'
  BY <1>4, LifePoll
<1>5. ASSUME NEW f \in Tasks, Schedule(f) PROVE LifeOK'
  BY <1>5, LifeSchedule
<1>6. ASSUME NEW f \in Tasks, SetHi(f) \/ SetLo(f) PROVE LifeOK'
  <2>1. /\ UNCHANGED <<now, entries, alive, deadline, registered, woken>>
        /\ pc[f] \in {"hi", "lo"}
    BY <1>6 DEF SetHi, SetLo, delay
  <2>2. pc' = [pc EXCEPT ![f] = "lo"] \/ pc' = [pc EXCEPT ![f] = "reg"]
    BY <1>6 DEF SetHi, SetLo, Goto
  <2>3. pc'[f] \in {"lo", "reg"} /\ \A g \in Tasks : g # f => pc'[g] = pc[g]
    BY <2>2 DEF TypeOK
  <2>4. EntriesOK'
    BY <1>0, <2>1, <2>3 DEF LifeOK, EntriesOK
  <2>5. DelaysOK'
    BY <2>1, <2>3 DEF LifeOK, DelaysOK, Queued, TypeOK
  <2> QED BY <2>4, <2>5 DEF LifeOK
<1>7. ASSUME NEW f \in Tasks, Register(f) PROVE LifeOK'
  <2>1. /\ UNCHANGED <<now, entries, alive, deadline, woken>>
        /\ registered' = registered \cup {f} /\ pc[f] = "reg"
    BY <1>7 DEF Register
  <2>2. pc'[f] = "idle" /\ \A g \in Tasks : g # f => pc'[g] = pc[g]
    BY <1>7 DEF Register, Goto, TypeOK
  <2>3. EntriesOK'
    BY <1>0, <2>1, <2>2 DEF LifeOK, EntriesOK
  <2>4. DelaysOK'
    BY <2>1, <2>2 DEF LifeOK, DelaysOK, Queued, TypeOK
  <2> QED BY <2>3, <2>4 DEF LifeOK
<1>8. ASSUME NEW f \in Tasks, DropDelay(f) PROVE LifeOK'
  BY <1>8, LifeDrop
<1>9. CASE UNCHANGED vars
  BY <1>9 DEF vars, delay, LifeOK, EntriesOK, DelaysOK, Queued
<1> QED BY <1>1, <1>2, <1>3, <1>4, <1>5, <1>6, <1>7, <1>8, <1>9 DEF Next, Step

(* Without spurious polls the lifetimes are in order in every reachable    *)
(* state.                                                                  *)
LEMMA LifeAlways ==
  ASSUME Spurious = {}
  PROVE  Spec => [](TypeOK /\ LifeOK)
<1>1. ASSUME Init PROVE LifeOK
  <2>1. Ents(entries) = {} /\ Len(entries) = 0
    BY <1>1 DEF Init, Ents
  <2> QED BY <1>1, <2>1 DEF Init, LifeOK, EntriesOK, DelaysOK, Unique
<1>2. TypeOK /\ PollAlive /\ LifeOK /\ [Next]_vars => LifeOK'
  BY LifeNext
<1> QED BY <1>1, <1>2, TypeInit, TypeNext, PTL DEF Spec

(* If a delay is only polled when its task was woken, every data pointer   *)
(* the interrupt handler dereferences is a live TimerDelay with that       *)
(* deadline, queued once: cancellation, ready and the interrupt between    *)
(* any two steps of poll() included.                                       *)
THEOREM EntriesAliveAlways ==
  ASSUME Spurious = {}
  PROVE  Spec => []EntriesAlive
<1>1. TypeOK /\ LifeOK => EntriesAlive
  <2> SUFFICES ASSUME TypeOK, LifeOK PROVE EntriesAlive
    OBVIOUS
  <2>1. entries \in Seq(Entry) /\ DOMAIN entries = 1 .. Len(entries)
    BY DEF TypeOK, Entry
  <2> QED BY <2>1 DEF LifeOK, EntriesOK, EntriesAlive, Unique, Ents
<1> QED BY <1>1, LifeAlways, PTL

(* Under the same condition no pending delay is forgotten: once its poll   *)
(* has returned it is queued or its task is woken.                         *)
THEOREM DelayWatchedAlways ==
  ASSUME Spurious = {}
  PROVE  Spec => []DelayWatched
<1>1. TypeOK /\ LifeOK => DelayWatched
  <2> SUFFICES ASSUME TypeOK, LifeOK PROVE DelayWatched
    OBVIOUS
  <2>1. entries \in Seq(Entry) /\ DOMAIN entries = 1 .. Len(entries)
    BY DEF TypeOK, Entry
  <2> QED BY <2>1 DEF LifeOK, DelaysOK, DelayWatched, Queued, Ents
<1> QED BY <1>1, LifeAlways, PTL

-------------------------------------------------------------------------------
(* The compare register.  Two things can make set_deadline() in poll()     *)
(* program it too late, both while a task is between schedule() and the    *)
(* end of its two writes; NotOvertaken and NotTorn name the states free of *)
(* them, whatever the priorities of the tasks and the size of deadlines.   *)

High(d) == d \div W

Programming(f) == pc[f] \in {"hi", "lo"}

(* No more urgent task has queued an earlier deadline than the one that is *)
(* being written.                                                          *)
NotOvertaken ==
  \A f \in Tasks : Programming(f) => \A e \in Ents(entries) : deadline[f] <= e.deadline

(* Between its two writes, the deadline has the high word of all that are  *)
(* queued: the handler, or a more urgent task, can replace the high word   *)
(* by one of theirs.                                                       *)
NotTorn ==
  \A f \in Tasks : pc[f] = "lo" => \A e \in Ents(entries) : High(e.deadline) = High(deadline[f])

Covered == \A e \in Ents(entries) : mtimecmp <= e.deadline

(* Of the tasks stacked up in poll(), one that has yet to write the low    *)
(* word finds its own high word when it resumes: it is there, or a more    *)
(* urgent task is about to write the same one.                             *)
CompareOK ==
  /\ \A f, g \in Tasks : pc[f] = "lo" /\ pc[g] = "hi" /\ TaskPrio[g] < TaskPrio[f]
                           => High(deadline[g]) = High(deadline[f])
  /\ \A f \in Tasks : pc[f] = "lo" /\ Ents(entries) # {} =>
       cmpHi = High(deadline[f]) \/ \E g \in Tasks : pc[g] = "hi" /\ TaskPrio[g] < TaskPrio[f]
  /\ (\A f \in Tasks : ~ Programming(f)) => Covered

(* A task that has the CPU is more urgent than every other in poll(). *)
LEMMA UrgentRuns ==
  ASSUME NEW f \in Tasks, Runs(f), NEW g \in Tasks, g # f, pc[g] # "idle"
  PROVE  TaskPrio[f] < TaskPrio[g] /\ ~ (TaskPrio[g] < TaskPrio[f])
<1>1. TaskPrio[f] < TaskPrio[g]
  BY DEF Runs, Polling
<1>2. TaskPrio[f] \in Nat /\ TaskPrio[g] \in Nat
  BY BoundsAssumption
<1> QED BY <1>1, <1>2

(* What is_earliest tells of the queue. *)
LEMMA EarliestEnts ==
  ASSUME TypeOK, NEW f \in Tasks
  PROVE  /\ Ents(entries) = {} => IsEarliest(deadline[f])
         /\ IsEarliest(deadline[f]) => \A e \in Ents(entries) : deadline[f] <= e.deadline
         /\ ~ IsEarliest(deadline[f]) => \E e \in Ents(entries) : e.deadline <= deadline[f]
<1>1. entries \in Seq(Entry)
  BY DEF TypeOK, Entry
<1>2. /\ DOMAIN entries = 1 .. Len(entries) /\ (entries = <<>> <=> Ents(entries) = {})
      /\ \A e \in Ents(entries) : e.deadline \in 0 .. MAX
  BY <1>1, EntsType, Zenon
<1>3. Deadlines(entries) = {e.deadline : e \in Ents(entries)}
  BY <1>2 DEF Deadlines, Ents
<1>4. /\ deadline[f] \in Nat /\ \A e \in Ents(entries) : e.deadline \in Nat
      /\ Deadlines(entries) \in SUBSET Nat
  BY <1>2, <1>3 DEF TypeOK
<1>5. ASSUME IsEarliest(deadline[f]), NEW e \in Ents(entries) PROVE deadline[f] <= e.deadline
  <2>1. Deadlines(entries) # {} /\ entries # <<>> /\ e.deadline \in Deadlines(entries)
    BY <1>2, <1>3, <1>5
  <2>2. Min(Deadlines(entries)) \in Nat /\ Min(Deadlines(entries)) <= e.deadline
    BY <1>4, <2>1, MinNat
  <2> QED BY <1>4, <1>5, <2>1, <2>2 DEF IsEarliest
<1>6. ASSUME ~ IsEarliest(deadline[f]) PROVE \E e \in Ents(entries) : e.deadline <= deadline[f]
  <2>1. Deadlines(entries) # {} /\ ~(deadline[f] < Min(Deadlines(entries)))
    BY <1>2, <1>3, <1>6 DEF IsEarliest
  <2>2. Min(Deadlines(entries)) \in Deadlines(entries)
    BY <1>4, <2>1, MinNat
  <2>3. PICK e \in Ents(entries) : Min(Deadlines(entries)) = e.deadline
    BY <1>3, <2>2
  <2>4. e.deadline <= deadline[f]
    BY <1>4, <2>1, <2>3
  <2> QED BY <2>4
<1>7. Ents(entries) = {} => IsEarliest(deadline[f])
  BY <1>2 DEF IsEarliest
<1> QED BY <1>5, <1>6, <1>7

(* The new earliest entry, or one that is not earlier than the register. *)
LEMMA CompareSchedule ==
  ASSUME TypeOK, CompareOK, NotTorn', NEW f \in Tasks, Schedule(f)
  PROVE  CompareOK'
<1>1. /\ UNCHANGED <<cmpHi, cmpLo, deadline>> /\ pc[f] = "sched" /\ Runs(f)
      /\ UNCHANGED mtimecmp
  BY DEF Schedule, delay, mtimecmp
<1>2. CASE panicked'
  <2>1. UNCHANGED <<entries, pc>>
    BY <1>2 DEF Schedule, Runs
  <2> QED BY <1>1, <2>1 DEF CompareOK, Covered, Programming
<1>3. CASE ~panicked'
  <2> DEFINE n == [deadline |-> deadline[f], data |-> f]
  <2>1. Ents(entries') = Ents(entries) \cup {n}
    BY <1>3, ScheduleStep, Zenon
  <2>2. n.deadline = deadline[f]
    OBVIOUS
  <2> HIDE DEF n
  <2>3. Goto(f, IF IsEarliest(deadline[f]) THEN "hi" ELSE "reg")
    BY <1>3, ScheduleStep
  <2>4. /\ pc'[f] = IF IsEarliest(deadline[f]) THEN "hi" ELSE "reg"
        /\ \A g \in Tasks : g # f => pc'[g] = pc[g]
    BY <2>3 DEF Goto, TypeOK
  <2>5. ASSUME NEW g \in Tasks, NEW h \in Tasks, pc'[g] = "lo", pc'[h] = "hi",
               TaskPrio[h] < TaskPrio[g]
        PROVE  High(deadline[h]) = High(deadline[g])
    <3>1. g # f /\ pc[g] = "lo"
      BY <2>4, <2>5
    <3>2. CASE h = f
      <4>1. n \in Ents(entries')
        BY <2>1
      <4>2. High(n.deadline) = High(deadline'[g])
        BY <2>5, <4>1 DEF NotTorn
      <4> QED BY <1>1, <2>2, <3>2, <4>2
    <3>3. CASE h # f
      BY <2>4, <2>5, <3>1, <3>3 DEF CompareOK
    <3> QED BY <3>2, <3>3
  <2>6. ASSUME NEW g \in Tasks, pc'[g] = "lo"
        PROVE  cmpHi = High(deadline[g]) \/ \E h \in Tasks : pc'[h] = "hi" /\ TaskPrio[h] < TaskPrio[g]
    <3>1. g # f /\ pc[g] = "lo"
      BY <2>4, <2>6
    <3>2. CASE Ents(entries) = {}
      <4>1. pc'[f] = "hi" /\ TaskPrio[f] < TaskPrio[g]
        BY <1>1, <2>4, <3>1, <3>2, EarliestEnts, UrgentRuns
      <4> QED BY <4>1
    <3>3. CASE Ents(entries) # {}
      BY <1>1, <2>4, <3>1, <3>3 DEF CompareOK
    <3> QED BY <3>2, <3>3
  <2>7. ASSUME \A g \in Tasks : ~ (pc'[g] \in {"hi", "lo"}) PROVE Covered'
    <3>1. Covered /\ ~ IsEarliest(deadline[f])
      BY <1>1, <2>4, <2>7 DEF CompareOK, Programming
    <3>2. PICK e \in Ents(entries) : e.deadline <= deadline[f]
      BY <3>1, EarliestEnts
    <3>3. mtimecmp \in Int /\ deadline[f] \in Int /\ e.deadline \in Int
      <4>1. entries \in Seq(Entry)
        BY DEF TypeOK, Entry
      <4>2. e.deadline \in 0 .. MAX
        BY <4>1, EntsType
      <4> QED BY <4>2, MaxNat DEF mtimecmp, TypeOK
    <3>4. mtimecmp <= deadline[f]
      BY <3>1, <3>2, <3>3 DEF Covered
    <3> QED BY <1>1, <2>1, <2>2, <3>1, <3>4 DEF Covered
  <2> QED BY <1>1, <2>5, <2>6, <2>7 DEF CompareOK, Programming
<1> QED BY <1>2, <1>3

(* The high word. *)
LEMMA CompareHi ==
  ASSUME TypeOK, CompareOK, NEW f \in Tasks, SetHi(f)
  PROVE  CompareOK'
<1>1. /\ UNCHANGED <<entries, deadline>> /\ Runs(f) /\ pc[f] = "hi"
      /\ cmpHi' = High(deadline[f])
      /\ pc'[f] = "lo" /\ \A g \in Tasks : g # f => pc'[g] = pc[g]
  BY DEF SetHi, delay, Goto, TypeOK, High
<1>2. ASSUME NEW g \in Tasks, NEW h \in Tasks, pc'[g] = "lo", pc'[h] = "hi",
             TaskPrio[h] < TaskPrio[g]
      PROVE  High(deadline[h]) = High(deadline[g])
  <2>1. h # f /\ pc[h] = "hi"
    BY <1>1, <1>2
  <2>2. g # f
    BY <1>1, <1>2, <2>1, UrgentRuns
  <2> QED BY <1>1, <1>2, <2>1, <2>2 DEF CompareOK
<1>3. ASSUME NEW g \in Tasks, pc'[g] = "lo" PROVE cmpHi' = High(deadline[g])
  <2>1. CASE g = f
    BY <1>1, <2>1
  <2>2. CASE g # f
    <3>1. pc[g] = "lo" /\ TaskPrio[f] < TaskPrio[g]
      BY <1>1, <1>3, <2>2, UrgentRuns
    <3> QED BY <1>1, <3>1 DEF CompareOK
  <2> QED BY <2>1, <2>2
<1>4. Programming(f)'
  BY <1>1 DEF Programming
<1> QED BY <1>1, <1>2, <1>3, <1>4 DEF CompareOK

(* The low word, with the handler and other tasks possibly since the high  *)
(* one.                                                                    *)
LEMMA CompareLo ==
  ASSUME TypeOK, CompareOK, NotOvertaken, NEW f \in Tasks, SetLo(f)
  PROVE  CompareOK'
<1>1. /\ UNCHANGED <<entries, deadline, cmpHi>> /\ pc[f] = "lo"
      /\ cmpLo' = deadline[f] % W
      /\ pc'[f] = "reg" /\ \A g \in Tasks : g # f => pc'[g] = pc[g]
  BY DEF SetLo, delay, Goto, TypeOK
<1>2. ASSUME \A g \in Tasks : ~ (pc'[g] \in {"hi", "lo"}), NEW e \in Ents(entries)
      PROVE  mtimecmp' <= e.deadline
  <2>1. \A g \in Tasks : pc[g] # "hi"
    BY <1>1, <1>2
  <2>2. cmpHi = High(deadline[f])
    BY <1>1, <1>2, <2>1 DEF CompareOK
  <2>3. deadline[f] \in 0 .. MAX
    BY DEF TypeOK
  <2>4. mtimecmp' = deadline[f]
    BY <1>1, <2>2, <2>3, WordsOf DEF mtimecmp, High
  <2>5. deadline[f] <= e.deadline
    BY <1>1 DEF NotOvertaken, Programming
  <2> QED BY <2>4, <2>5
<1>3. (\A g \in Tasks : ~ Programming(g)') => Covered'
  BY <1>1, <1>2 DEF Covered, Programming
<1>4. ASSUME NEW g \in Tasks, pc'[g] = "lo" PROVE g # f /\ pc[g] = "lo"
  BY <1>1, <1>4
<1>5. ASSUME NEW g \in Tasks PROVE pc'[g] = "hi" <=> pc[g] = "hi"
  BY <1>1
<1> QED BY <1>1, <1>3, <1>4, <1>5 DEF CompareOK

(* The handler programs the earliest entry that is left. *)
LEMMA CompareIsr ==
  ASSUME TypeOK, CompareOK, NotTorn', TimerIsr
  PROVE  CompareOK'
<1>1. UNCHANGED <<deadline, pc>>
  BY DEF TimerIsr, delay
<1>2. PICK d \in 0 .. MAX : /\ cmpHi' = d \div W /\ cmpLo' = d % W
                            /\ \A e \in Ents(entries') : d <= e.deadline
                            /\ Ents(entries') # {} => \E e \in Ents(entries') : d = e.deadline
  BY IsrStep
<1>3. mtimecmp' = d
  BY <1>2, WordsOf DEF mtimecmp
<1>4. Covered'
  BY <1>2, <1>3 DEF Covered
<1>5. ASSUME NEW f \in Tasks, pc'[f] = "lo", Ents(entries') # {} PROVE cmpHi' = High(deadline[f])
  <2>1. PICK e \in Ents(entries') : d = e.deadline
    BY <1>2, <1>5
  <2>2. High(e.deadline) = High(deadline'[f])
    BY <1>5 DEF NotTorn
  <2> QED BY <1>1, <1>2, <2>1, <2>2 DEF High
<1> QED BY <1>1, <1>4, <1>5 DEF CompareOK

(* Every step keeps the register at or before the earliest entry. *)
LEMMA CompareNext ==
  TypeOK /\ PollAlive /\ CompareOK /\ NotOvertaken /\ NotTorn' /\ [Next]_vars => CompareOK'
<1> SUFFICES ASSUME TypeOK, PollAlive, CompareOK, NotOvertaken, NotTorn', [Next]_vars
             PROVE  CompareOK'
  OBVIOUS
<1>1. CASE Tick \/ UNCHANGED vars
  <2>1. UNCHANGED <<cmpHi, cmpLo, entries, deadline, pc>>
    BY <1>1 DEF Tick, vars, delay
  <2> QED BY <2>1 DEF CompareOK, Covered, mtimecmp, Programming
<1>2. CASE TimerIsr
  BY <1>2, CompareIsr
<1>3. ASSUME NEW f \in Tasks, NEW d \in Durations, After(f, d) PROVE CompareOK'
  <2>1. /\ UNCHANGED <<cmpHi, cmpLo, entries, pc, mtimecmp>> /\ pc[f] = "idle"
        /\ \A g \in Tasks : g # f => deadline'[g] = deadline[g]
    BY <1>3 DEF After, PollAlive, TypeOK, mtimecmp
  <2> QED BY <2>1 DEF CompareOK, Covered, Programming
<1>4. ASSUME NEW f \in Tasks, Poll(f) PROVE CompareOK'
  <2>1. UNCHANGED <<cmpHi, cmpLo, entries, deadline, mtimecmp>>
    BY <1>4 DEF Poll, PollReady, PollPending, delay, mtimecmp
  <2>2. pc[f] = "idle" /\ pc'[f] \in {"idle", "sched"} /\ \A g \in Tasks : g # f => pc'[g] = pc[g]
    BY <1>4 DEF Poll, PollReady, PollPending, Goto, TypeOK
  <2>3. \A g \in Tasks : (pc'[g] = "hi" <=> pc[g] = "hi") /\ (pc'[g] = "lo" <=> pc[g] = "lo")
    BY <2>2
  <2> QED BY <2>1, <2>3 DEF CompareOK, Covered, Programming
<1>5. ASSUME NEW f \in Tasks, Schedule(f) PROVE CompareOK'
  BY <1>5, CompareSchedule
<1>6. ASSUME NEW f \in Tasks, SetHi(f) PROVE CompareOK'
  BY <1>6, CompareHi
<1>7. ASSUME NEW f \in Tasks, SetLo(f) PROVE CompareOK'
  BY <1>7, CompareLo
<1>8. ASSUME NEW f \in Tasks, Register(f) PROVE CompareOK'
  <2>1. /\ UNCHANGED <<cmpHi, cmpLo, entries, deadline, mtimecmp>> /\ pc[f] = "reg"
        /\ pc'[f] = "idle" /\ \A g \in Tasks : g # f => pc'[g] = pc[g]
    BY <1>8 DEF Register, Goto, TypeOK, mtimecmp
  <2>2. \A g \in Tasks : (pc'[g] = "hi" <=> pc[g] = "hi") /\ (pc'[g] = "lo" <=> pc[g] = "lo")
    BY <2>1
  <2> QED BY <2>1, <2>2 DEF CompareOK, Covered, Programming
<1>9. ASSUME NEW f \in Tasks, DropDelay(f) PROVE CompareOK'
  <2>1. UNCHANGED <<cmpHi, cmpLo, deadline, pc, mtimecmp>> /\ entries \in Seq(Entry)
    BY <1>9 DEF DropDelay, TypeOK, Entry, mtimecmp
  <2>2. Ents(entries') \subseteq Ents(entries)
    BY <1>9, <2>1, CancelEnts DEF DropDelay
  <2> QED BY <2>1, <2>2 DEF CompareOK, Covered, Programming
<1> QED BY <1>1, <1>2, <1>3, <1>4, <1>5, <1>6, <1>7, <1>8, <1>9 DEF Next, Step

(* The compare register lies beyond the earliest queued deadline, with no  *)
(* set_deadline() under way, only after a more urgent task overtook one    *)
(* under way with an earlier deadline or the queue held deadlines of two   *)
(* high words between its two writes: with tasks of any priorities, in any *)
(* nesting, and the handler at any point, nothing else delays a timer.     *)
THEOREM CompareCoversUndisturbed ==
  Spec /\ []NotOvertaken /\ []NotTorn => []CompareCovers
<1>1. ASSUME Init PROVE CompareOK
  <2>1. Ents(entries) = {}
    BY <1>1 DEF Init, Ents
  <2> QED BY <1>1, <2>1 DEF Init, CompareOK, Covered
<1>2. TypeOK /\ PollAlive /\ CompareOK /\ NotOvertaken /\ NotTorn' /\ [Next]_vars => CompareOK'
  BY CompareNext
<1>3. TypeOK /\ CompareOK => CompareCovers
  <2> SUFFICES ASSUME TypeOK, CompareOK, entries # <<>>, \A f \in Tasks : pc[f] \notin {"hi", "lo"}
               PROVE  mtimecmp <= Min(Deadlines(entries))
    BY DEF CompareCovers
  <2>1. entries \in Seq(Entry)
    BY DEF TypeOK, Entry
  <2>2. /\ DOMAIN entries = 1 .. Len(entries) /\ Ents(entries) # {}
        /\ \A e \in Ents(entries) : e.deadline \in 0 .. MAX
    BY <2>1, EntsType, Zenon
  <2>3. Deadlines(entries) = {e.deadline : e \in Ents(entries)}
    BY <2>2 DEF Deadlines, Ents
  <2>4. Deadlines(entries) \in SUBSET Nat /\ Deadlines(entries) # {}
    BY <2>2, <2>3
  <2>5. Min(Deadlines(entries)) \in Deadlines(entries)
    BY <2>4, MinNat
  <2> QED BY <2>3, <2>5 DEF CompareOK, Covered, Programming
<1> QED BY <1>1, <1>2, <1>3, TypeInit, TypeNext, PTL DEF Spec

OnePriority == \A f, g \in Tasks : TaskPrio[f] = TaskPrio[g]

(* Tasks of one priority are in poll() one at a time, and nobody overtakes. *)
LEMMA AloneNext ==
  ASSUME OnePriority
  PROVE  TypeOK /\ PollAlive /\ NotOvertaken /\ [Next]_vars => NotOvertaken'
<1> SUFFICES ASSUME TypeOK, PollAlive, NotOvertaken, [Next]_vars PROVE NotOvertaken'
  OBVIOUS
<1>1. ASSUME NEW f \in Tasks, Schedule(f) PROVE NotOvertaken'
  <2>1. UNCHANGED deadline /\ pc[f] = "sched" /\ Runs(f)
    BY <1>1 DEF Schedule, delay
  <2>2. ASSUME NEW g \in Tasks, g # f PROVE pc[g] = "idle"
    <3>1. TaskPrio[f] = TaskPrio[g] /\ TaskPrio[f] \in Nat
      BY BoundsAssumption DEF OnePriority
    <3> QED BY <2>1, <2>2, <3>1, UrgentRuns
  <2>3. CASE panicked'
    <3>1. UNCHANGED <<entries, pc>>
      BY <1>1, <2>3 DEF Schedule, Runs
    <3> QED BY <2>1, <3>1 DEF NotOvertaken, Programming
  <2>4. CASE ~panicked'
    <3> DEFINE n == [deadline |-> deadline[f], data |-> f]
    <3>1. Ents(entries') = Ents(entries) \cup {n}
      BY <1>1, <2>4, ScheduleStep, Zenon
    <3>2. n.deadline = deadline[f] /\ deadline[f] \in Int
      BY DEF TypeOK
    <3> HIDE DEF n
    <3>3. Goto(f, IF IsEarliest(deadline[f]) THEN "hi" ELSE "reg")
      BY <1>1, <2>4, ScheduleStep
    <3>4. /\ pc'[f] = IF IsEarliest(deadline[f]) THEN "hi" ELSE "reg"
          /\ \A g \in Tasks : g # f => pc'[g] = "idle"
      BY <2>2, <3>3 DEF Goto, TypeOK
    <3>5. ASSUME NEW g \in Tasks, Programming(g)', NEW e \in Ents(entries')
          PROVE  deadline'[g] <= e.deadline
      <4>1. g = f /\ IsEarliest(deadline[f])
        BY <3>4, <3>5 DEF Programming
      <4>2. e = n \/ (e \in Ents(entries) /\ deadline[f] <= e.deadline)
        BY <3>1, <4>1, EarliestEnts
      <4> QED BY <2>1, <3>2, <4>1, <4>2
    <3> QED BY <3>5 DEF NotOvertaken
  <2> QED BY <2>3, <2>4
<1>2. ASSUME \A f \in Tasks : ~ Schedule(f)
      PROVE  /\ Ents(entries') \subseteq Ents(entries)
             /\ \A g \in Tasks : pc'[g] \in {"hi", "lo"} =>
                  pc[g] \in {"hi", "lo"} /\ deadline'[g] = deadline[g]
  <2>1. CASE Tick \/ UNCHANGED vars
    BY <2>1 DEF Tick, vars, delay
  <2>2. CASE TimerIsr
    <3>1. Ents(entries') \subseteq Ents(entries)
      BY <2>2, IsrStep
    <3> QED BY <2>2, <3>1 DEF TimerIsr, delay
  <2>3. ASSUME NEW f \in Tasks, NEW d \in Durations, After(f, d)
        PROVE  /\ UNCHANGED <<entries, pc>> /\ pc[f] = "idle"
               /\ \A g \in Tasks : g # f => deadline'[g] = deadline[g]
    BY <2>3 DEF After, PollAlive, TypeOK
  <2>4. ASSUME NEW f \in Tasks, Poll(f)
        PROVE  /\ UNCHANGED <<entries, deadline>>
               /\ pc'[f] \in {"idle", "sched"} /\ \A g \in Tasks : g # f => pc'[g] = pc[g]
    BY <2>4 DEF Poll, PollReady, PollPending, Goto, TypeOK, delay
  <2>5. ASSUME NEW f \in Tasks, SetHi(f) \/ SetLo(f) \/ Register(f)
        PROVE  /\ UNCHANGED <<entries, deadline>>
               /\ pc'[f] \in {"idle", "reg"} \/ pc[f] = "hi"
               /\ \A g \in Tasks : g # f => pc'[g] = pc[g]
    BY <2>5 DEF SetHi, SetLo, Register, Goto, TypeOK, delay
  <2>6. ASSUME NEW f \in Tasks, DropDelay(f)
        PROVE  UNCHANGED <<deadline, pc>> /\ Ents(entries') \subseteq Ents(entries)
    <3>1. entries \in Seq(Entry)
      BY DEF TypeOK, Entry
    <3> QED BY <2>6, <3>1, CancelEnts DEF DropDelay
  <2>7. CASE \E f \in Tasks : \E d \in Durations : After(f, d)
    BY <2>3, <2>7
  <2>8. CASE \E f \in Tasks : Poll(f)
    BY <2>4, <2>8
  <2>9. CASE \E f \in Tasks : SetHi(f) \/ SetLo(f) \/ Register(f)
    BY <2>5, <2>9
  <2>10. CASE \E f \in Tasks : DropDelay(f)
    BY <2>6, <2>10
  <2> QED BY <1>2, <2>1, <2>2, <2>7, <2>8, <2>9, <2>10 DEF Next, Step
<1>3. ASSUME \A f \in Tasks : ~ Schedule(f) PROVE NotOvertaken'
  BY <1>2, <1>3 DEF NotOvertaken, Programming
<1> QED BY <1>1, <1>3

(* With tasks of one priority, as in an executor of its own, a torn write  *)
(* is all that can make the compare register too late: nobody overtakes.   *)
THEOREM CompareCoversAlways ==
  ASSUME OnePriority
  PROVE  Spec /\ []NotTorn => []CompareCovers
<1>1. Init => NotOvertaken
  BY DEF Init, NotOvertaken, Programming
<1>2. TypeOK /\ PollAlive /\ NotOvertaken /\ [Next]_vars => NotOvertaken'
  BY AloneNext
<1>3. Spec => []NotOvertaken
  BY <1>1, <1>2, TypeInit, TypeNext, PTL DEF Spec
<1> QED BY <1>3, CompareCoversUndisturbed, PTL

-------------------------------------------------------------------------------
(* Accuracy.  A duration of more than u64::MAX ticks is cut by the cast in *)
(* after(); one that fits is rounded down by less than a tick.             *)

Fits == \A d \in Durations : (d * freq_hz) \div NANOS <= MAX

Punctual == \A f \in Tasks : deadline[f] = MAX \/ (deadline[f] + 1) * NANOS > due[f]

(* The deadline after() stores for a duration that fits. *)
LEMMA AfterPunctual ==
  ASSUME Fits, NEW d \in Durations, NEW n \in Nat
  PROVE  LET x == Min({n + Ticks(d), MAX})
         IN  x = MAX \/ (x + 1) * NANOS > n * NANOS + d * freq_hz
<1> DEFINE x == Min({n + Ticks(d), MAX})
           p == d * freq_hz
           y == p \div NANOS
<1>1. NANOS \in Nat \ {0} /\ p \in Nat /\ y \in Nat /\ MAX \in Nat /\ y <= MAX
      /\ x \in {n + Ticks(d), MAX}
  BY TicksNat, BoundsAssumption, MaxNat DEF Fits
<1>2. Ticks(d) = y
  <2>1. Ticks(d) = y % (MAX + 1)
    BY DEF Ticks
  <2> HIDE DEF y
  <2> DEFINE M == MAX + 1
             k == y \div M
             m == y % M
  <2>2. M \in Nat \ {0} /\ y < M
    BY <1>1
  <2> HIDE DEF M
  <2>3. k \in Nat /\ m \in 0 .. M - 1 /\ y = M * k + m
    BY <1>1, <2>2, DivMod
  <2> HIDE DEF k, m
  <2>4. k = 0
    <3> SUFFICES ASSUME k >= 1 PROVE FALSE
      BY <2>3
    <3>1. M * k >= M
      BY <2>2, <2>3
    <3> QED BY <1>1, <2>2, <2>3, <3>1
  <2>5. M * k = 0
    BY <2>2, <2>4
  <2>6. m = y
    BY <1>1, <2>2, <2>3, <2>5
  <2> QED BY <2>1, <2>6 DEF m, M
<1>3. CASE x # MAX
  <2>1. x = n + y
    BY <1>1, <1>2, <1>3
  <2> HIDE DEF x
  <2> DEFINE m == p % NANOS
  <2>2. m \in 0 .. NANOS - 1 /\ p = NANOS * y + m
    BY <1>1, DivMod
  <2> HIDE DEF y, m, p
  <2>3. (x + 1) * NANOS = n * NANOS + NANOS * y + NANOS
    BY <1>1, <2>1
  <2>4. n * NANOS \in Int /\ NANOS * y \in Int
    BY <1>1
  <2>5. (x + 1) * NANOS > n * NANOS + p
    BY <1>1, <2>2, <2>3, <2>4
  <2> QED BY <2>5 DEF p, x
<1>4. CASE x = MAX
  BY <1>4
<1> QED BY <1>3, <1>4

(* Durations that fit u64 ticks never elapse a whole tick early, whatever  *)
(* polls a delay, when and how often: poll() compares mtime with the       *)
(* deadline after() stored, which nothing else writes.                     *)
THEOREM NeverEarlyAlways ==
  ASSUME Fits
  PROVE  Spec => NeverEarly
<1>1. ASSUME Init PROVE Punctual
  <2>1. NANOS \in Nat \ {0}
    BY BoundsAssumption
  <2>2. (0 + 1) * NANOS > 0
    BY <2>1
  <2> QED BY <1>1, <2>2 DEF Init, Punctual
<1>2. TypeOK /\ Punctual /\ [Next]_vars => Punctual'
  <2> SUFFICES ASSUME TypeOK, Punctual, [Next]_vars PROVE Punctual'
    OBVIOUS
  <2>1. CASE UNCHANGED <<deadline, due>>
    BY <2>1 DEF Punctual
  <2>2. ASSUME NEW f \in Tasks, NEW d \in Durations, After(f, d) PROVE Punctual'
    <3> DEFINE x == Min({now + Ticks(d), MAX})
               y == now * NANOS + d * freq_hz
    <3>1. now \in Nat
      BY BoundsAssumption DEF TypeOK
    <3>2. x = MAX \/ (x + 1) * NANOS > y
      BY <3>1, AfterPunctual
    <3>3. deadline' = [deadline EXCEPT ![f] = x] /\ due' = [due EXCEPT ![f] = y]
      BY <2>2 DEF After
    <3> HIDE DEF x, y
    <3> QED BY <3>2, <3>3 DEF Punctual, TypeOK
  <2>3. ASSUME ~ UNCHANGED <<deadline, due>>
        PROVE  \E f \in Tasks : \E d \in Durations : After(f, d)
    BY <2>3 DEF Next, Step, Tick, TimerIsr, Poll, PollReady, PollPending, Schedule, SetHi, SetLo,
                Register, DropDelay, vars, delay
  <2> QED BY <2>1, <2>2, <2>3
<1>3. ASSUME TypeOK, Punctual, NEW f \in Tasks, Poll(f), f \notin alive'
      PROVE  (now + 1) * NANOS > due[f]
  <2>1. now >= deadline[f]
    BY <1>3 DEF Poll, PollReady, PollPending, delay
  <2>2. /\ now \in Nat /\ now < MAX /\ deadline[f] \in Nat /\ due[f] \in Nat
        /\ NANOS \in Nat \ {0} /\ MAX \in Nat
    <3>1. now \in 0 .. MaxTime /\ deadline[f] \in 0 .. MAX /\ due[f] \in Nat
      BY <1>3 DEF TypeOK
    <3>2. MaxTime \in Nat /\ MaxTime < MAX /\ NANOS \in Nat \ {0} /\ MAX \in Nat
      BY BoundsAssumption, MaxNat
    <3> HIDE DEF MAX
    <3> QED BY <3>1, <3>2
  <2>3. (deadline[f] + 1) * NANOS > due[f]
    BY <2>1, <2>2, <1>3 DEF Punctual
  <2> DEFINE a == now + 1
             b == deadline[f] + 1
  <2>4. a \in Nat /\ b \in Nat /\ a >= b
    BY <2>1, <2>2
  <2> HIDE DEF a, b
  <2>5. a * NANOS >= b * NANOS
    BY <2>2, <2>4
  <2>6. a * NANOS \in Int /\ b * NANOS \in Int
    BY <2>2, <2>4
  <2>7. b * NANOS > due[f]
    BY <2>3 DEF b
  <2> QED BY <2>2, <2>5, <2>6, <2>7 DEF a
<1>4. TypeOK /\ Punctual
        => [\A f \in Tasks : Poll(f) /\ f \notin alive' => (now + 1) * NANOS > due[f]]_vars
  BY <1>3
<1> QED BY <1>1, <1>2, <1>4, TypeAlways, PTL DEF NeverEarly, Spec
===============================================================================
