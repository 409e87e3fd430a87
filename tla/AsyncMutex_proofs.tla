--------------------------- MODULE AsyncMutex_proofs ---------------------------
(* The async mutex for any tasks and any queue capacity: mutual exclusion, *)
(* live and distinct waiter pointers, no panic with room for every task    *)
(* but the holder, no waiter stranded without a wasted wake, FIFO order.   *)
EXTENDS TLAPS, AsyncMutex, WellFoundedInduction, SequenceTheorems, FiniteSetTheorems

(* Induction over the naturals, for a set instead of a predicate. *)
LEMMA NatSetInduction ==
  ASSUME NEW S, 0 \in S, \A n \in Nat : n \in S => n + 1 \in S
  PROVE  Nat \subseteq S
<1> DEFINE T == Nat \ S
<1> SUFFICES ASSUME T # {} PROVE FALSE
  OBVIOUS
<1>1. PICK x \in T : \A y \in T : ~ (<<y, x>> \in OpToRel(<, Nat))
  BY NatLessThanWellFounded, WFMin
<1>2. x \in Nat /\ x \notin S
  OBVIOUS
<1>3. x - 1 \in Nat /\ x - 1 < x /\ (x - 1) + 1 = x
  BY <1>2
<1>4. <<x - 1, x>> \in OpToRel(<, Nat)
  BY <1>2, <1>3 DEF OpToRel
<1>5. x - 1 \in S
  BY <1>1, <1>3, <1>4, Zenon
<1> QED BY <1>2, <1>3, <1>5

-------------------------------------------------------------------------------
(* The waiter list.                                                        *)

(* What retain computes: the entries other than t, each once if it was     *)
(* there once, and none further back than it was.                          *)
Filtered(r, s, n, t) ==
  /\ r \in Seq(Tasks) /\ Len(r) <= n
  /\ \A i \in 1 .. n : s[i] # t => \E j \in 1 .. Len(r) : j <= i /\ r[j] = s[i]
  /\ \A j \in 1 .. Len(r) : \E i \in 1 .. n : s[i] = r[j] /\ s[i] # t
  /\ (\A i, j \in 1 .. n : s[i] = s[j] => i = j)
       => \A i, j \in 1 .. Len(r) : r[i] = r[j] => i = j

(* One more entry of the list is looked at. *)
LEMMA FilteredStep ==
  ASSUME NEW s \in Seq(Tasks), NEW n \in Nat, n < Len(s), NEW t, NEW r, Filtered(r, s, n, t)
  PROVE  Filtered(IF s[n + 1] = t THEN r ELSE Append(r, s[n + 1]), s, n + 1, t)
<1>1. n + 1 \in 1 .. Len(s) /\ s[n + 1] \in Tasks /\ r \in Seq(Tasks) /\ Len(r) \in Nat
  BY DEF Filtered
<1>2. CASE s[n + 1] = t
  BY <1>1, <1>2 DEF Filtered
<1>3. CASE s[n + 1] # t
  <2> DEFINE q == Append(r, s[n + 1])
  <2>1. /\ q \in Seq(Tasks) /\ Len(q) = Len(r) + 1 /\ q[Len(r) + 1] = s[n + 1]
        /\ \A j \in 1 .. Len(r) : q[j] = r[j]
    BY <1>1, AppendProperties
  <2> HIDE DEF q
  <2>2. \A i \in 1 .. n + 1 : s[i] # t => \E j \in 1 .. Len(q) : j <= i /\ q[j] = s[i]
    BY <1>1, <2>1 DEF Filtered
  <2>3. \A j \in 1 .. Len(q) : \E i \in 1 .. n + 1 : s[i] = q[j] /\ s[i] # t
    <3>1. \A j \in 1 .. Len(r) : \E i \in 1 .. n : s[i] = r[j] /\ s[i] # t
      BY DEF Filtered
    <3>2. \A j \in 1 .. Len(r) : \E i \in 1 .. n + 1 : s[i] = q[j] /\ s[i] # t
      BY <2>1, <3>1
    <3>3. \A j \in 1 .. Len(q) : j \in 1 .. Len(r) \/ j = Len(r) + 1
      BY <1>1, <2>1
    <3>4. n + 1 \in 1 .. n + 1 /\ s[n + 1] = q[Len(r) + 1] /\ s[n + 1] # t
      BY <1>3, <2>1
    <3> QED BY <3>2, <3>3, <3>4, Zenon
  <2>4. ASSUME \A i, j \in 1 .. n + 1 : s[i] = s[j] => i = j
        PROVE  \A i, j \in 1 .. Len(q) : q[i] = q[j] => i = j
    <3>1. \A i, j \in 1 .. Len(r) : r[i] = r[j] => i = j
      BY <2>4 DEF Filtered
    <3>2. \A j \in 1 .. Len(r) : r[j] # s[n + 1]
      BY <2>4, <1>1 DEF Filtered
    <3> QED BY <1>1, <2>1, <3>1, <3>2
  <2>5. Filtered(q, s, n + 1, t)
    BY <1>1, <2>1, <2>2, <2>3, <2>4 DEF Filtered
  <2> QED BY <1>3, <2>5 DEF q
<1> QED BY <1>2, <1>3

(* Vec::retain does that: the recursive function of Retain exists, by      *)
(* induction on its domain, and each of its values filters one more entry. *)
LEMMA RetainFilters ==
  ASSUME waiters \in Seq(Tasks), NEW t
  PROVE  Filtered(Retain(t), waiters, Len(waiters), t)
<1> DEFINE w == waiters
           L == Len(waiters)
           At(f, i) == IF i = 0 THEN <<>>
                       ELSE IF w[i] = t THEN f[i - 1] ELSE Append(f[i - 1], w[i])
           kept == CHOOSE f : f = [i \in 0 .. L |-> At(f, i)]
           S == {m \in Nat : m <= L => \E f : f = [i \in 0 .. m |-> At(f, i)]}
           G == {m \in Nat : m <= L => Filtered(kept[m], w, m, t)}
<1>0. L \in Nat
  OBVIOUS
<1>1. Retain(t) = kept[L]
  BY DEF Retain
<1>2. \A f, g : \A i \in Nat : (i # 0 => f[i - 1] = g[i - 1]) => At(f, i) = At(g, i)
  OBVIOUS
<1>3. \E f : f = [i \in 0 .. L |-> At(f, i)]
  <2> HIDE DEF At
  <2>1. 0 \in S
    <3> DEFINE g == [i \in 0 .. 0 |-> At(<<>>, i)]
    <3>1. g = [i \in 0 .. 0 |-> At(g, i)]
      BY <1>2
    <3> QED BY <3>1
  <2>2. ASSUME NEW m \in Nat, m \in S PROVE m + 1 \in S
    <3> SUFFICES ASSUME m + 1 <= L PROVE \E f : f = [i \in 0 .. m + 1 |-> At(f, i)]
      OBVIOUS
    <3>1. PICK f : f = [i \in 0 .. m |-> At(f, i)]
      BY <2>2, <1>0
    <3> DEFINE g == [i \in 0 .. m + 1 |-> At(f, i)]
    <3>2. \A i \in 0 .. m : g[i] = f[i]
      BY <3>1
    <3>3. \A i \in 0 .. m + 1 : At(f, i) = At(g, i)
      <4> HIDE DEF g
      <4>1. \A i \in 0 .. m + 1 : i # 0 => i - 1 \in 0 .. m
        OBVIOUS
      <4> QED BY <3>2, <4>1, <1>2
    <3>4. g = [i \in 0 .. m + 1 |-> At(g, i)]
      BY <3>3
    <3> QED BY <3>4
  <2>3. L \in S
    <3> HIDE DEF S
    <3> QED BY <1>0, <2>1, <2>2, NatSetInduction
  <2> QED BY <1>0, <2>3
<1>4. kept = [i \in 0 .. L |-> At(kept, i)]
  <2> HIDE DEF At, L
  <2> QED BY <1>3, Zenon
<1>5. ASSUME NEW i \in 0 .. L PROVE kept[i] = At(kept, i)
  <2> HIDE DEF At, L, kept
  <2> QED BY <1>4
<1> HIDE DEF kept
<1>6. L \in G
  <2>1. kept[0] = <<>>
    BY <1>0, <1>5
  <2>2. 0 \in G
    <3>1. Filtered(<<>>, w, 0, t)
      BY DEF Filtered
    <3> QED BY <2>1, <3>1
  <2>3. ASSUME NEW m \in Nat, m \in G PROVE m + 1 \in G
    <3> SUFFICES ASSUME m + 1 <= L PROVE Filtered(kept[m + 1], w, m + 1, t)
      OBVIOUS
    <3>1. Filtered(kept[m], w, m, t) /\ m < L
      BY <2>3, <1>0
    <3>2. kept[m + 1] = IF w[m + 1] = t THEN kept[m] ELSE Append(kept[m], w[m + 1])
      BY <1>0, <1>5
    <3>3. Filtered(IF w[m + 1] = t THEN kept[m] ELSE Append(kept[m], w[m + 1]), w, m + 1, t)
      BY <3>1, FilteredStep
    <3> QED BY <3>2, <3>3, Zenon
  <2> HIDE DEF G
  <2> QED BY <1>0, <2>2, <2>3, NatSetInduction
<1> QED BY <1>0, <1>1, <1>6

-------------------------------------------------------------------------------
(* The inductive invariant.                                                *)

(* Only a pending future is queued or woken, and while the mutex is taken  *)
(* the last wake has been used by its task, unless a wake was wasted.      *)
WakeOK ==
  /\ \A t \in queued \cup woken : phase[t] = "future"
  /\ ~usurped /\ locked => woken = {}

(* After a panic the future that did not fit is in no list. *)
NotStranded == ~usurped /\ ~panicked => NoStrandedWaiter

IInv == TypeOK /\ MutualExclusion /\ WaitersAlive /\ WakeOK /\ NotStranded /\ NeverFull

(* Mutex::new: unlocked, nobody waits. *)
LEMMA InitInv == Init => IInv
<1> SUFFICES ASSUME Init PROVE IInv
  OBVIOUS
<1>1. TypeOK
  <2>1. locked \in BOOLEAN /\ panicked \in BOOLEAN /\ usurped \in BOOLEAN
    BY Zenon DEF Init
  <2>2. waiters \in Seq(Tasks) /\ Len(waiters) <= N
    BY CapacityAssumption DEF Init
  <2> QED BY <2>1, <2>2 DEF Init, TypeOK
<1>2. MutualExclusion
  BY DEF Init, MutualExclusion
<1>3. WaitersAlive
  BY DEF Init, WaitersAlive
<1>4. WakeOK /\ NotStranded /\ NeverFull
  BY DEF Init, WakeOK, NotStranded, NoStrandedWaiter, NeverFull
<1> QED BY <1>1, <1>2, <1>3, <1>4 DEF IInv

(* A future that completes or is dropped leaves the list, and only it:     *)
(* one that is not queued has no entry.                                    *)
LEMMA Leaves ==
  ASSUME TypeOK, WaitersAlive, NEW t \in Tasks,
         waiters' = IF t \in queued THEN Retain(t) ELSE waiters
  PROVE  Filtered(waiters', waiters, Len(waiters), t)
<1>1. CASE t \in queued
  BY <1>1, RetainFilters DEF TypeOK
<1>2. CASE t \notin queued
  <2>1. \A i \in 1 .. Len(waiters) : waiters[i] # t
    BY <1>2 DEF WaitersAlive
  <2> QED BY <1>2, <2>1 DEF Filtered, TypeOK
<1> QED BY <1>1, <1>2

(* What remains in the list is alive, if nothing but t changed. *)
LEMMA LeavesAlive ==
  ASSUME TypeOK, WaitersAlive, NEW t \in Tasks,
         Filtered(waiters', waiters, Len(waiters), t),
         \A u \in Tasks \ {t} : phase'[u] = phase[u],
         queued' = queued \ {t}, waker' = waker \ {t}
  PROVE  WaitersAlive'
<1>1. \A i, j \in 1 .. Len(waiters') : waiters'[i] = waiters'[j] => i = j
  BY DEF Filtered, WaitersAlive
<1>2. ASSUME NEW j \in 1 .. Len(waiters')
      PROVE  phase'[waiters'[j]] = "future" /\ waiters'[j] \in queued' \cap waker'
  <2>1. PICK i \in 1 .. Len(waiters) : waiters[i] = waiters'[j] /\ waiters[i] # t
    BY <1>2 DEF Filtered
  <2>2. waiters[i] \in Tasks
    BY DEF TypeOK
  <2> QED BY <2>1, <2>2 DEF WaitersAlive
<1> QED BY <1>1, <1>2 DEF WaitersAlive

(* A poll that finds the mutex free is the only way to a guard. *)
LEMMA AcquireInv ==
  ASSUME IInv, NEW t \in Tasks, phase[t] # "guard", ~panicked, PollAcquire(t),
         usurped' = (usurped \/ (~locked /\ woken \ {t} # {})),
         woken' = woken \ {t}
  PROVE  IInv'
<1> USE DEF IInv
<1>1. Filtered(waiters', waiters, Len(waiters), t)
  BY Leaves DEF PollAcquire
<1>2. phase' = [phase EXCEPT ![t] = "guard"] /\ phase' \in [Tasks -> {"none", "future", "guard"}]
  BY DEF PollAcquire, TypeOK
<1>3. WaitersAlive'
  BY <1>1, <1>2, LeavesAlive DEF PollAcquire, TypeOK
<1>4. TypeOK'
  <2>1. waiters' \in Seq(Tasks) /\ Len(waiters') <= N
    BY <1>1, CapacityAssumption DEF TypeOK, Filtered
  <2>2. locked' \in BOOLEAN /\ panicked' \in BOOLEAN /\ usurped' \in BOOLEAN
    BY Zenon DEF TypeOK, PollAcquire
  <2> QED BY <1>2, <2>1, <2>2 DEF TypeOK, PollAcquire
<1>5. MutualExclusion'
  BY <1>2 DEF MutualExclusion, PollAcquire, TypeOK
<1>6. WakeOK'
  <2>1. \A u \in queued' \cup woken' : u # t /\ u \in queued \cup woken /\ u \in Tasks
    BY DEF PollAcquire, TypeOK
  <2>2. ~usurped' => woken' = {}
    BY DEF PollAcquire
  <2> QED BY <1>2, <2>1, <2>2 DEF WakeOK, TypeOK
<1>7. NotStranded'
  <2> SUFFICES ASSUME ~usurped', ~panicked', NEW u \in Tasks, phase'[u] = "future"
               PROVE  u \in woken' \/ \E j \in 1 .. Len(waiters') : waiters'[j] = u
    BY DEF NotStranded, NoStrandedWaiter
  <2>1. u # t /\ phase[u] = "future" /\ ~usurped
    BY <1>2 DEF TypeOK
  <2>2. u \in woken \/ \E i \in 1 .. Len(waiters) : waiters[i] = u
    BY <2>1 DEF NotStranded, NoStrandedWaiter
  <2> QED BY <1>1, <2>1, <2>2 DEF Filtered
<1>8. NeverFull'
  BY DEF NeverFull, PollAcquire
<1> QED BY <1>3, <1>4, <1>5, <1>6, <1>7, <1>8

(* The waiters, t and the holder are distinct tasks: a full list with one  *)
(* more task to queue needs N + 2 of them.                                 *)
LEMMA FullNeedsTasks ==
  ASSUME TypeOK, MutualExclusion, WaitersAlive, locked, NEW t \in Tasks,
         t \notin queued, phase[t] # "guard", ~(Len(waiters) < N)
  PROVE  Cardinality(Tasks) > N + 1
<1>1. PICK h \in Tasks : phase[h] = "guard"
  BY DEF MutualExclusion
<1> DEFINE T == (Tasks \ {t}) \ {h}
<1>2. IsFiniteSet(Tasks) /\ Cardinality(Tasks) \in Nat
  BY TasksAssumption, FS_CardinalityType
<1>3. IsFiniteSet(Tasks \ {t}) /\ Cardinality(Tasks \ {t}) = Cardinality(Tasks) - 1
  BY <1>2, FS_RemoveElement
<1>4. IsFiniteSet(T) /\ Cardinality(T) = Cardinality(Tasks) - 2
  <2>1. h \in Tasks \ {t}
    BY <1>1
  <2>2. Cardinality(T) = Cardinality(Tasks \ {t}) - 1 /\ IsFiniteSet(T)
    BY <1>3, <2>1, FS_RemoveElement
  <2> QED BY <1>2, <1>3, <2>2
<1>5. Len(waiters) = N /\ N \in Nat
  BY CapacityAssumption DEF TypeOK
<1>6. IsFiniteSet(1 .. N) /\ Cardinality(1 .. N) = N
  BY CapacityAssumption, FS_Interval
<1> DEFINE f == [i \in 1 .. N |-> waiters[i]]
<1>7. f \in [1 .. N -> T]
  BY <1>1, <1>5 DEF WaitersAlive, TypeOK
<1>8. \A i, j \in 1 .. N : f[i] = f[j] => i = j
  BY <1>5 DEF WaitersAlive
<1>9. ~(Cardinality(T) < Cardinality(1 .. N))
  <2> DEFINE D == 1 .. N
  <2> HIDE DEF f, T, D
  <2>1. ASSUME Cardinality(T) < Cardinality(D) PROVE \E x, y \in D : x # y /\ f[x] = f[y]
    <3>1. IsFiniteSet(D) /\ IsFiniteSet(T) /\ f \in [D -> T]
      BY <1>4, <1>6, <1>7 DEF D
    <3> QED BY <2>1, <3>1, FS_PigeonHole, Zenon
  <2> QED BY <1>8, <2>1 DEF D
<1> QED BY <1>2, <1>4, <1>5, <1>6, <1>9

(* A poll that finds the mutex taken. *)
LEMMA PendInv ==
  ASSUME IInv, NEW t \in Tasks, phase[t] # "guard", ~panicked, PollPend(t),
         usurped' = (usurped \/ (~locked /\ woken \ {t} # {})),
         woken' = woken \ {t}
  PROVE  IInv'
<1> USE DEF IInv
<1>0. locked /\ locked' = locked
  BY DEF PollPend
<1>1. usurped' = usurped /\ usurped \in BOOLEAN
  BY <1>0, Zenon DEF TypeOK
<1>2. /\ phase' = [phase EXCEPT ![t] = "future"]
      /\ phase' \in [Tasks -> {"none", "future", "guard"}]
      /\ waker' = waker \cup {t}
  BY DEF PollPend, TypeOK
<1>3. MutualExclusion'
  BY <1>0, <1>2 DEF MutualExclusion, TypeOK
<1>4. woken' \subseteq woken /\ woken' \subseteq Tasks /\ (~usurped => woken = {})
  BY <1>0 DEF TypeOK, WakeOK
<1>5. CASE t \in queued
  <2>1. UNCHANGED <<waiters, queued, panicked>>
    BY <1>5 DEF PollPend
  <2>2. TypeOK'
    <3>1. locked' \in BOOLEAN /\ panicked' \in BOOLEAN /\ usurped' \in BOOLEAN
      BY <1>0, <1>1, <2>1, Zenon DEF TypeOK
    <3> QED BY <1>2, <1>4, <2>1, <3>1 DEF TypeOK
  <2>3. WaitersAlive'
    BY <1>2, <2>1 DEF WaitersAlive, TypeOK
  <2>4. WakeOK'
    BY <1>1, <1>2, <1>4, <2>1 DEF WakeOK, TypeOK
  <2>5. NotStranded'
    BY <1>1, <1>2, <1>4, <1>5, <2>1 DEF NotStranded, NoStrandedWaiter, WakeOK, TypeOK
  <2>6. NeverFull'
    BY <2>1 DEF NeverFull
  <2> QED BY <1>3, <2>2, <2>3, <2>4, <2>5, <2>6
<1>6. CASE t \notin queued /\ Len(waiters) < N
  <2>1. waiters' = Append(waiters, t) /\ queued' = queued \cup {t} /\ panicked' = panicked
    BY <1>6 DEF PollPend
  <2>2. /\ waiters' \in Seq(Tasks) /\ Len(waiters') = Len(waiters) + 1
        /\ \A i \in 1 .. Len(waiters) : waiters'[i] = waiters[i]
        /\ waiters'[Len(waiters) + 1] = t
    BY <2>1, AppendProperties DEF TypeOK
  <2>3. Len(waiters) \in Nat /\ \A i \in 1 .. Len(waiters) : waiters[i] \in Tasks /\ waiters[i] # t
    BY <1>6 DEF TypeOK, WaitersAlive
  <2>4. \A i \in 1 .. Len(waiters') : i \in 1 .. Len(waiters) \/ i = Len(waiters) + 1
    BY <2>2, <2>3
  <2>5. TypeOK'
    <3>1. locked' \in BOOLEAN /\ panicked' \in BOOLEAN /\ usurped' \in BOOLEAN
      BY <1>0, <1>1, <2>1, Zenon DEF TypeOK
    <3>2. Len(waiters') <= N
      BY <1>6, <2>2, <2>3, CapacityAssumption
    <3> QED BY <1>2, <1>4, <2>1, <2>2, <3>1, <3>2 DEF TypeOK
  <2>6. WaitersAlive'
    <3>1. \A i \in 1 .. Len(waiters') :
            phase'[waiters'[i]] = "future" /\ waiters'[i] \in queued' \cap waker'
      BY <1>2, <2>1, <2>2, <2>3, <2>4 DEF WaitersAlive, TypeOK
    <3>2. \A i, j \in 1 .. Len(waiters') : waiters'[i] = waiters'[j] => i = j
      BY <2>2, <2>3, <2>4 DEF WaitersAlive
    <3> QED BY <3>1, <3>2 DEF WaitersAlive
  <2>7. WakeOK'
    BY <1>1, <1>2, <1>4, <2>1 DEF WakeOK, TypeOK
  <2>8. NotStranded'
    <3> SUFFICES ASSUME ~usurped', ~panicked', NEW u \in Tasks, phase'[u] = "future"
                 PROVE  \E j \in 1 .. Len(waiters') : waiters'[j] = u
      BY DEF NotStranded, NoStrandedWaiter
    <3>1. CASE u = t
      BY <2>2, <2>3, <3>1
    <3>2. CASE u # t
      <4>1. phase[u] = "future" /\ ~usurped /\ woken = {}
        BY <1>1, <1>2, <1>4, <3>2 DEF TypeOK
      <4>2. PICK i \in 1 .. Len(waiters) : waiters[i] = u
        BY <4>1 DEF NotStranded, NoStrandedWaiter
      <4> QED BY <2>2, <2>3, <4>2
    <3> QED BY <3>1, <3>2
  <2>9. NeverFull'
    BY <2>1 DEF NeverFull
  <2> QED BY <1>3, <2>5, <2>6, <2>7, <2>8, <2>9
<1>7. CASE t \notin queued /\ ~(Len(waiters) < N)
  <2>1. UNCHANGED <<waiters, queued>> /\ panicked' = TRUE
    BY <1>7 DEF PollPend
  <2>2. TypeOK'
    <3>1. locked' \in BOOLEAN /\ panicked' \in BOOLEAN /\ usurped' \in BOOLEAN
      BY <1>0, <1>1, <2>1, Zenon DEF TypeOK
    <3> QED BY <1>2, <1>4, <2>1, <3>1 DEF TypeOK
  <2>3. WaitersAlive'
    BY <1>2, <2>1 DEF WaitersAlive, TypeOK
  <2>4. WakeOK'
    BY <1>1, <1>2, <1>4, <2>1 DEF WakeOK, TypeOK
  <2>5. NotStranded'
    BY <2>1 DEF NotStranded
  <2>6. NeverFull'
    <3>1. Cardinality(Tasks) > N + 1
      BY <1>0, <1>7, FullNeedsTasks
    <3>2. Cardinality(Tasks) \in Nat
      BY TasksAssumption, FS_CardinalityType
    <3> QED BY <3>1, <3>2, CapacityAssumption DEF NeverFull
  <2> QED BY <1>3, <2>2, <2>3, <2>4, <2>5, <2>6
<1> QED BY <1>5, <1>6, <1>7

(* lock() and the executor's polls. *)
LEMMA PollInv ==
  ASSUME IInv, NEW t \in Tasks, Lock(t) \/ Repoll(t)
  PROVE  IInv'
<1>1. phase[t] # "guard" /\ ~panicked /\ (PollAcquire(t) \/ PollPend(t))
  BY DEF Lock, Repoll, Poll
<1>2. usurped' = (usurped \/ (~locked /\ woken \ {t} # {}))
  BY DEF Lock, Repoll, Poll
<1>3. woken' = woken \ {t}
  <2>1. CASE Lock(t)
    BY <2>1 DEF Lock, IInv, WakeOK
  <2>2. CASE Repoll(t)
    BY <2>2 DEF Repoll
  <2> QED BY <2>1, <2>2
<1> QED BY <1>1, <1>2, <1>3, AcquireInv, PendInv

(* A future cancelled before it got the lock. *)
LEMMA DropFutureInv ==
  ASSUME IInv, NEW t \in Tasks, DropFuture(t)
  PROVE  IInv'
<1> USE DEF IInv
<1>1. Filtered(waiters', waiters, Len(waiters), t)
  BY Leaves DEF DropFuture
<1>2. /\ phase' = [phase EXCEPT ![t] = "none"] /\ phase[t] = "future"
      /\ phase' \in [Tasks -> {"none", "future", "guard"}]
  BY DEF DropFuture, TypeOK
<1>3. WaitersAlive'
  BY <1>1, <1>2, LeavesAlive DEF DropFuture, TypeOK
<1>4. TypeOK'
  <2>1. waiters' \in Seq(Tasks) /\ Len(waiters') <= N
    BY <1>1, CapacityAssumption DEF TypeOK, Filtered
  <2>2. locked' \in BOOLEAN /\ panicked' \in BOOLEAN /\ usurped' \in BOOLEAN
    BY Zenon DEF TypeOK, DropFuture
  <2> QED BY <1>2, <2>1, <2>2 DEF TypeOK, DropFuture
<1>5. MutualExclusion'
  BY <1>2 DEF MutualExclusion, DropFuture, TypeOK
<1>6. WakeOK'
  <2>1. \A u \in queued' \cup woken' : u # t /\ u \in queued \cup woken /\ u \in Tasks
    BY DEF DropFuture, TypeOK
  <2>2. ~usurped' /\ locked' => woken' = {}
    BY DEF DropFuture, WakeOK
  <2> QED BY <1>2, <2>1, <2>2 DEF WakeOK, TypeOK
<1>7. NotStranded'
  <2> SUFFICES ASSUME ~usurped', ~panicked', NEW u \in Tasks, phase'[u] = "future"
               PROVE  u \in woken' \/ \E j \in 1 .. Len(waiters') : waiters'[j] = u
    BY DEF NotStranded, NoStrandedWaiter
  <2>1. u # t /\ phase[u] = "future" /\ ~usurped /\ ~panicked /\ woken' = woken \ {t}
    BY <1>2 DEF TypeOK, DropFuture
  <2>2. u \in woken \/ \E i \in 1 .. Len(waiters) : waiters[i] = u
    BY <2>1 DEF NotStranded, NoStrandedWaiter
  <2> QED BY <1>1, <2>1, <2>2 DEF Filtered
<1>8. NeverFull'
  BY DEF NeverFull, DropFuture
<1> QED BY <1>3, <1>4, <1>5, <1>6, <1>7, <1>8

(* A release: the head waiter is alive and has a waker, so it is woken.    *)
LEMMA DropGuardInv ==
  ASSUME IInv, NEW t \in Tasks, DropGuard(t)
  PROVE  IInv'
<1> USE DEF IInv
<1>1. /\ phase' = [phase EXCEPT ![t] = "none"] /\ phase[t] = "guard" /\ locked /\ locked' = FALSE
      /\ phase' \in [Tasks -> {"none", "future", "guard"}]
      /\ UNCHANGED <<queued, waker, panicked, usurped>>
  BY DEF DropGuard, TypeOK, MutualExclusion
<1>2. MutualExclusion'
  BY <1>1 DEF MutualExclusion, TypeOK
<1>3. locked' \in BOOLEAN /\ panicked' \in BOOLEAN /\ usurped' \in BOOLEAN
  BY <1>1, Zenon DEF TypeOK
<1>4. NeverFull'
  BY <1>1 DEF NeverFull
<1>5. CASE waiters = <<>>
  <2>1. UNCHANGED <<waiters, woken>>
    BY <1>5 DEF DropGuard
  <2>2. TypeOK'
    BY <1>1, <1>3, <2>1 DEF TypeOK
  <2>3. WaitersAlive'
    BY <1>1, <2>1 DEF WaitersAlive, TypeOK
  <2>4. WakeOK'
    BY <1>1, <2>1 DEF WakeOK, TypeOK
  <2>5. NotStranded'
    BY <1>1, <2>1 DEF NotStranded, NoStrandedWaiter, TypeOK
  <2> QED BY <1>2, <1>4, <2>2, <2>3, <2>4, <2>5
<1>6. CASE waiters # <<>>
  <2>1. /\ waiters \in Seq(Tasks) /\ Len(waiters) \in Nat /\ Len(waiters) # 0
        /\ Head(waiters) = waiters[1]
    BY <1>6 DEF TypeOK
  <2>2. /\ waiters' = Tail(waiters) /\ waiters' \in Seq(Tasks)
        /\ Len(waiters') = Len(waiters) - 1
        /\ \A i \in 1 .. Len(waiters') : waiters'[i] = waiters[i + 1]
    BY <1>6, <2>1, HeadTailProperties DEF DropGuard
  <2>3. /\ Head(waiters) \in Tasks /\ phase[Head(waiters)] = "future"
        /\ Head(waiters) \in waker
    BY <2>1 DEF WaitersAlive
  <2>4. woken' = woken \cup {Head(waiters)}
    BY <1>6, <2>3 DEF DropGuard
  <2>5. TypeOK'
    <3>1. Len(waiters') <= N
      BY <2>1, <2>2, CapacityAssumption DEF TypeOK
    <3> QED BY <1>1, <1>3, <2>2, <2>3, <2>4, <3>1 DEF TypeOK
  <2>6. WaitersAlive'
    <3>1. ASSUME NEW i \in 1 .. Len(waiters')
          PROVE  /\ i + 1 \in 1 .. Len(waiters) /\ waiters'[i] = waiters[i + 1]
                 /\ waiters[i + 1] \in Tasks
      BY <2>1, <2>2
    <3>2. \A i \in 1 .. Len(waiters') :
            phase'[waiters'[i]] = "future" /\ waiters'[i] \in queued' \cap waker'
      BY <1>1, <3>1 DEF WaitersAlive, TypeOK
    <3>3. \A i, j \in 1 .. Len(waiters') : waiters'[i] = waiters'[j] => i = j
      BY <3>1 DEF WaitersAlive
    <3> QED BY <3>2, <3>3 DEF WaitersAlive
  <2>7. WakeOK'
    BY <1>1, <2>3, <2>4 DEF WakeOK, TypeOK
  <2>8. NotStranded'
    <3> SUFFICES ASSUME ~usurped', ~panicked', NEW u \in Tasks, phase'[u] = "future"
                 PROVE  u \in woken' \/ \E j \in 1 .. Len(waiters') : waiters'[j] = u
      BY DEF NotStranded, NoStrandedWaiter
    <3>1. phase[u] = "future" /\ ~usurped /\ ~panicked
      BY <1>1 DEF TypeOK
    <3>2. u \in woken \/ \E i \in 1 .. Len(waiters) : waiters[i] = u
      BY <3>1 DEF NotStranded, NoStrandedWaiter
    <3>3. ASSUME NEW i \in 1 .. Len(waiters), waiters[i] = u, i # 1
          PROVE  i - 1 \in 1 .. Len(waiters') /\ waiters'[i - 1] = u
      BY <2>1, <2>2, <3>3
    <3> QED BY <2>1, <2>4, <3>2, <3>3
  <2> QED BY <1>2, <1>4, <2>5, <2>6, <2>7, <2>8
<1> QED BY <1>5, <1>6

(* Every poll and drop keeps the invariant. *)
LEMMA NextInv == IInv /\ [Next]_vars => IInv'
<1> SUFFICES ASSUME IInv, [Next]_vars PROVE IInv'
  OBVIOUS
<1>1. CASE UNCHANGED vars
  <2>1. UNCHANGED <<locked, waiters, phase, queued, waker, woken, panicked, usurped>>
    BY <1>1 DEF vars
  <2> QED BY <2>1, Zenon
       DEF IInv, TypeOK, MutualExclusion, WaitersAlive, WakeOK, NotStranded, NoStrandedWaiter, NeverFull
<1> QED BY <1>1, PollInv, DropFutureInv, DropGuardInv DEF Next

(* The invariant holds in every reachable state. *)
LEMMA InvAlways == Spec => []IInv
  BY InitInv, NextInv, PTL DEF Spec

-------------------------------------------------------------------------------
(* In every reachable state MutexInner.locked is set exactly while one     *)
(* MutexGuard exists, whatever is cancelled, polled again or barged in.    *)
THEOREM MutualExclusionAlways == Spec => []MutualExclusion
<1>1. IInv => MutualExclusion
  BY DEF IInv
<1> QED BY <1>1, InvAlways, PTL

(* Every pointer in MutexInner.waiters points into a live, queued          *)
(* MutexLockFuture with a waker, and no two into the same: what the unsafe *)
(* dereference in MutexGuard::drop relies on.                              *)
THEOREM WaitersAliveAlways == Spec => []WaitersAlive
<1>1. IInv => WaitersAlive
  BY DEF IInv
<1> QED BY <1>1, InvAlways, PTL

(* With N at least the number of tasks less one, "mutex: waiter queue      *)
(* full" cannot happen.                                                    *)
THEOREM NeverFullAlways == Spec => []NeverFull
<1>1. IInv => NeverFull
  BY DEF IInv
<1> QED BY <1>1, InvAlways, PTL

(* In such a mutex a pending future is in the waiter list or its task is   *)
(* woken, unless a wake of MutexGuard::drop was overtaken or cancelled.    *)
THEOREM StrandedOnlyWhenUsurpedAlways ==
  ASSUME Cardinality(Tasks) <= N + 1
  PROVE  Spec => []StrandedOnlyWhenUsurped
<1>1. IInv => StrandedOnlyWhenUsurped
  BY DEF IInv, NeverFull, NotStranded, StrandedOnlyWhenUsurped
<1> QED BY <1>1, InvAlways, PTL

(* The waiter list is FIFO: no step moves an entry back, and only the      *)
(* front, a completed and a dropped future leave it.                       *)
THEOREM FifoWaitersAlways == Spec => FifoWaiters
<1> DEFINE Kept ==
      \A i \in 1 .. Len(waiters) :
        (i > 1 /\ phase'[waiters[i]] = "future")
          => \E j \in 1 .. Len(waiters') : j <= i /\ waiters'[j] = waiters[i]
<1>1. ASSUME IInv, Next PROVE Kept
  <2>1. PICK t \in Tasks : Lock(t) \/ Repoll(t) \/ DropFuture(t) \/ DropGuard(t)
    BY <1>1 DEF Next
  <2>2. /\ TypeOK /\ WaitersAlive
        /\ waiters \in Seq(Tasks) /\ Len(waiters) \in Nat /\ phase \in [Tasks -> {"none", "future", "guard"}]
    BY <1>1 DEF IInv, TypeOK
  <2>3. CASE PollAcquire(t) \/ DropFuture(t)
    <3>1. Filtered(waiters', waiters, Len(waiters), t)
      BY <2>2, <2>3, Leaves DEF PollAcquire, DropFuture
    <3>2. phase'[t] # "future"
      BY <2>2, <2>3 DEF PollAcquire, DropFuture
    <3> QED BY <3>1, <3>2 DEF Filtered
  <2>4. CASE PollPend(t)
    <3>1. waiters' = waiters \/ waiters' = Append(waiters, t)
      BY <2>4 DEF PollPend
    <3>2. /\ Len(waiters') \in Nat /\ Len(waiters') >= Len(waiters)
          /\ \A i \in 1 .. Len(waiters) : waiters'[i] = waiters[i]
      BY <2>2, <3>1, AppendProperties
    <3> QED BY <2>2, <3>2
  <2>5. CASE DropGuard(t)
    <3> SUFFICES ASSUME NEW i \in 1 .. Len(waiters), i > 1
                 PROVE  \E j \in 1 .. Len(waiters') : j <= i /\ waiters'[j] = waiters[i]
      OBVIOUS
    <3>1. waiters # <<>>
      BY <2>2
    <3>2. /\ waiters' = Tail(waiters) /\ Len(waiters') = Len(waiters) - 1
          /\ \A j \in 1 .. Len(waiters') : waiters'[j] = waiters[j + 1]
      BY <2>2, <2>5, <3>1, HeadTailProperties DEF DropGuard
    <3>3. i - 1 \in 1 .. Len(waiters') /\ waiters'[i - 1] = waiters[i]
      BY <2>2, <3>2
    <3> QED BY <3>3
  <2> QED BY <2>1, <2>3, <2>4, <2>5 DEF Lock, Repoll, Poll
<1>2. IInv /\ [Next]_vars => [Kept]_vars
  BY <1>1
<1> QED BY <1>2, InvAlways, PTL DEF Spec, FifoWaiters
===============================================================================
