--------------------------- MODULE SerialRx_proofs ---------------------------
(* The receive ring for any buffer size, any UART FIFO and any bytes: its  *)
(* indices stay in range whoever reads, and with one reader it is a FIFO   *)
(* byte channel and that reader never sleeps on data.                      *)
EXTENDS TLAPS, SerialRx, WellFoundedInduction, SequenceTheorems

(* Induction over the naturals, for a set instead of a predicate. *)
LEMMA NatSetInduction ==
  ASSUME NEW S, 0 \in S, \A n \in Nat : n \in S => n + 1 \in S
  PROVE  Nat \subseteq S
<1> DEFINE T == Nat \ S
<1> SUFFICES ASSUME T # {} PROVE FALSE
  OBVIOUS
<1>1. PICK x \in T : \A y \in T : ~ (<<y, x>> \in OpToRel(<, Nat))
  BY NatLessThanWellFounded, WFMin
<1>2. x \in Nat /\ x \notin S
  OBVIOUS
<1>3. x - 1 \in Nat /\ x - 1 < x /\ (x - 1) + 1 = x
  BY <1>2
<1>4. <<x - 1, x>> \in OpToRel(<, Nat)
  BY <1>2, <1>3 DEF OpToRel
<1>5. x - 1 \in S
  BY <1>1, <1>3, <1>4, Zenon
<1> QED BY <1>2, <1>3, <1>5

-------------------------------------------------------------------------------
(* Indices: % RX_BUF_SIZE within one turn of the ring, without division.   *)

R == RX_BUF_SIZE

(* Division with remainder is unique. *)
LEMMA ModUnique ==
  ASSUME NEW x \in Int, NEW k \in {-1, 0, 1}, x - k * R \in 0 .. R - 1
  PROVE  Wrap(x) = x - k * R
<1> DEFINE d == x \div R
           m == Wrap(x)
<1>1. R \in Nat /\ R > 0
  BY SizesAssumption DEF R
<1>2. d \in Int /\ m \in 0 .. R - 1 /\ x = R * d + m
  BY <1>1 DEF Wrap, R
<1> HIDE DEF d, m
<1>3. CASE d > k
  <2>1. R * d >= R * (k + 1)
    BY <1>1, <1>2, <1>3
  <2> QED BY <1>1, <1>2, <2>1
<1>4. CASE d < k
  <2>1. R * d <= R * (k - 1)
    BY <1>1, <1>2, <1>4
  <2> QED BY <1>1, <1>2, <2>1
<1>5. CASE d = k
  BY <1>1, <1>2, <1>5 DEF m
<1> QED BY <1>2, <1>3, <1>4, <1>5

(* Within one turn on either side. *)
LEMMA WrapIs ==
  /\ R \in Nat /\ R > 0 /\ Index = 0 .. R - 1
  /\ \A x \in 0 .. R - 1 : Wrap(x) = x
  /\ \A x \in R .. 2 * R - 1 : Wrap(x) = x - R
  /\ \A x \in -R .. -1 : Wrap(x) = x + R
<1>1. R \in Nat /\ R > 0 /\ Index = 0 .. R - 1
  BY SizesAssumption DEF R, Index
<1>2. ASSUME NEW x \in 0 .. R - 1 PROVE Wrap(x) = x
  <2>1. x - 0 * R \in 0 .. R - 1 /\ x \in Int
    BY <1>1
  <2>2. Wrap(x) = x - 0 * R
    BY <2>1, ModUnique
  <2> QED BY <1>1, <2>1, <2>2
<1>3. ASSUME NEW x \in R .. 2 * R - 1 PROVE Wrap(x) = x - R
  <2>1. x - 1 * R \in 0 .. R - 1 /\ x \in Int
    BY <1>1
  <2>2. Wrap(x) = x - 1 * R
    BY <2>1, ModUnique
  <2> QED BY <1>1, <2>1, <2>2
<1>4. ASSUME NEW x \in -R .. -1 PROVE Wrap(x) = x + R
  <2>1. x - (-1) * R \in 0 .. R - 1 /\ x \in Int
    BY <1>1
  <2>2. Wrap(x) = x - (-1) * R
    BY <2>1, ModUnique
  <2> QED BY <1>1, <2>1, <2>2
<1> QED BY <1>1, <1>2, <1>3, <1>4

(* The three places where the driver wraps: the next index, the number of  *)
(* bytes between tail and head, and the place of the i-th of them.         *)
LEMMA RingIs ==
  /\ \A i \in Index : Wrap(i + 1) = IF i = R - 1 THEN 0 ELSE i + 1
  /\ \A h, l \in Index : Wrap(h - l) = IF h >= l THEN h - l ELSE h - l + R
  /\ \A l \in Index : \A i \in 1 .. R :
       Wrap(l + i - 1) = IF l + i - 1 < R THEN l + i - 1 ELSE l + i - 1 - R
<1>1. ASSUME NEW i \in Index PROVE Wrap(i + 1) = IF i = R - 1 THEN 0 ELSE i + 1
  <2>1. CASE i = R - 1
    <3>1. i + 1 = R /\ R \in R .. 2 * R - 1
      BY <2>1, WrapIs
    <3>2. Wrap(R) = R - R
      BY <3>1, WrapIs
    <3> QED BY <2>1, <3>1, <3>2, WrapIs
  <2>2. CASE i # R - 1
    <3>1. i + 1 \in 0 .. R - 1
      BY <2>2, WrapIs
    <3> QED BY <2>2, <3>1, WrapIs
  <2> QED BY <2>1, <2>2
<1>2. ASSUME NEW h \in Index, NEW l \in Index
      PROVE  Wrap(h - l) = IF h >= l THEN h - l ELSE h - l + R
  <2>1. CASE h >= l
    <3>1. h - l \in 0 .. R - 1
      BY <2>1, WrapIs
    <3> QED BY <2>1, <3>1, WrapIs
  <2>2. CASE ~(h >= l)
    <3>1. h - l \in -R .. -1
      BY <2>2, WrapIs
    <3> QED BY <2>2, <3>1, WrapIs
  <2> QED BY <2>1, <2>2
<1>3. ASSUME NEW l \in Index, NEW i \in 1 .. R
      PROVE  Wrap(l + i - 1) = IF l + i - 1 < R THEN l + i - 1 ELSE l + i - 1 - R
  <2>1. CASE l + i - 1 < R
    <3>1. l + i - 1 \in 0 .. R - 1
      BY <2>1, WrapIs
    <3> QED BY <2>1, <3>1, WrapIs
  <2>2. CASE ~(l + i - 1 < R)
    <3>1. l + i - 1 \in R .. 2 * R - 1
      BY <2>2, WrapIs
    <3> QED BY <2>2, <3>1, WrapIs
  <2> QED BY <2>1, <2>2
<1> QED BY <1>1, <1>2, <1>3

-------------------------------------------------------------------------------
(* rx_handler.                                                             *)

Count == Wrap(head - tail)

(* The ring s after k bytes of the UART: what was in it, then as many of   *)
(* the k as fit.                                                           *)
Pushed(s, k) ==
  /\ s.head \in Index /\ s.buf \in [Index -> Bytes]
  /\ Wrap(s.head - tail) = IF Count + k < R THEN Count + k ELSE R - 1
  /\ \A i \in 1 .. Wrap(s.head - tail) :
       s.buf[Wrap(tail + i - 1)] = IF i <= Count THEN buf[Wrap(tail + i - 1)] ELSE fifo[i - Count]

(* rx_push adds the next byte, or drops it when the ring is full. *)
LEMMA PushedStep ==
  ASSUME TypeOK, NEW k \in Nat, k < Len(fifo), NEW s, Pushed(s, k)
  PROVE  Pushed(RxPush(s, fifo[k + 1]), k + 1)
<1> DEFINE h == s.head
           n == Wrap(h - tail)
           b == fifo[k + 1]
           e == RxPush(s, b)
<1>1. /\ h \in Index /\ s.buf \in [Index -> Bytes] /\ tail \in Index /\ head \in Index
      /\ b \in Bytes
  BY DEF TypeOK, Pushed
<1>2. /\ R \in Nat /\ R > 0 /\ Index = 0 .. R - 1
      /\ n \in 0 .. R - 1 /\ Count \in 0 .. R - 1
      /\ n = IF Count + k < R THEN Count + k ELSE R - 1
      /\ n = IF h >= tail THEN h - tail ELSE h - tail + R
  <2>1. R \in Nat /\ R > 0 /\ Index = 0 .. R - 1
    BY WrapIs
  <2>2. n = IF h >= tail THEN h - tail ELSE h - tail + R
    BY <1>1, RingIs
  <2>3. Count = IF head >= tail THEN head - tail ELSE head - tail + R
    BY <1>1, RingIs DEF Count
  <2>4. n = IF Count + k < R THEN Count + k ELSE R - 1
    BY DEF Pushed
  <2> HIDE DEF n, h
  <2>5. n \in 0 .. R - 1
    BY <1>1, <2>1, <2>2
  <2>6. Count \in 0 .. R - 1
    BY <1>1, <2>1, <2>3
  <2> QED BY <2>1, <2>2, <2>4, <2>5, <2>6, Zenon
<1>3. Wrap(h + 1) = IF h = R - 1 THEN 0 ELSE h + 1
  BY <1>1, RingIs
<1>4. \A i \in 1 .. n : s.buf[Wrap(tail + i - 1)]
                          = IF i <= Count THEN buf[Wrap(tail + i - 1)] ELSE fifo[i - Count]
  BY DEF Pushed
<1> HIDE DEF h, n, b
<1>5. CASE Wrap(h + 1) = tail
  <2>1. n = R - 1
    BY <1>1, <1>2, <1>3, <1>5
  <2>2. e = s
    BY <1>5 DEF RxPush, h
  <2>3. n = IF Count + (k + 1) < R THEN Count + (k + 1) ELSE R - 1
    BY <1>2, <2>1
  <2> QED BY <1>1, <1>4, <2>2, <2>3 DEF Pushed, h, n, b
<1>6. CASE Wrap(h + 1) # tail
  <2>1. e = [head |-> Wrap(h + 1), buf |-> [s.buf EXCEPT ![h] = b]]
    BY <1>6 DEF RxPush, h
  <2>2. /\ e.head = Wrap(h + 1) /\ e.head \in Index /\ e.buf = [s.buf EXCEPT ![h] = b]
        /\ e.buf \in [Index -> Bytes]
    <3>1. e.head = Wrap(h + 1) /\ e.buf = [s.buf EXCEPT ![h] = b]
      BY <2>1
    <3>2. Wrap(h + 1) \in Index
      BY <1>1, <1>2, <1>3
    <3> HIDE DEF e
    <3> QED BY <1>1, <3>1, <3>2
  <2>3. n + 1 <= R - 1 /\ Count + k < R - 1 /\ n = Count + k
    BY <1>1, <1>2, <1>3, <1>6
  <2>4. Wrap(e.head - tail) = n + 1
    <3>1. Wrap(e.head - tail) = IF e.head >= tail THEN e.head - tail ELSE e.head - tail + R
      BY <1>1, <2>2, RingIs
    <3>2. e.head \in 0 .. R - 1 /\ e.head = IF h = R - 1 THEN 0 ELSE h + 1
      BY <1>2, <1>3, <2>2
    <3> DEFINE g == e.head
    <3> HIDE DEF g
    <3>3. (IF g >= tail THEN g - tail ELSE g - tail + R) = n + 1
      <4>1. g \in 0 .. R - 1 /\ g = (IF h = R - 1 THEN 0 ELSE h + 1) /\ g # tail
        BY <1>6, <2>2, <3>2 DEF g
      <4>2. h \in Int /\ tail \in Int /\ h <= R - 1 /\ tail <= R - 1 /\ h >= 0 /\ tail >= 0
        BY <1>1, <1>2
      <4>3. CASE h = R - 1
        BY <1>2, <4>1, <4>2, <4>3
      <4>4. CASE h # R - 1 /\ h >= tail
        BY <1>2, <4>1, <4>2, <4>4
      <4>5. CASE h # R - 1 /\ ~(h >= tail)
        BY <1>2, <4>1, <4>2, <4>5
      <4> QED BY <4>3, <4>4, <4>5
    <3> QED BY <3>1, <3>3 DEF g
  <2>5. Wrap(tail + (n + 1) - 1) = h
    <3>1. n + 1 \in 1 .. R
      BY <1>2
    <3>2. Wrap(tail + (n + 1) - 1) = IF tail + (n + 1) - 1 < R THEN tail + (n + 1) - 1 ELSE tail + (n + 1) - 1 - R
      BY <1>1, <3>1, RingIs
    <3> QED BY <1>1, <1>2, <3>2
  <2>6. ASSUME NEW i \in 1 .. n
        PROVE  Wrap(tail + i - 1) # h /\ Wrap(tail + i - 1) \in Index
    <3>1. i \in 1 .. R
      BY <1>2
    <3>2. Wrap(tail + i - 1) = IF tail + i - 1 < R THEN tail + i - 1 ELSE tail + i - 1 - R
      BY <1>1, <3>1, RingIs
    <3> DEFINE q == Wrap(tail + i - 1)
    <3> HIDE DEF q
    <3>3. q = IF tail + i - 1 < R THEN tail + i - 1 ELSE tail + i - 1 - R
      BY <3>2 DEF q
    <3>4. q # h /\ q \in 0 .. R - 1
      <4> HIDE DEF h, n
      <4>1. h \in 0 .. R - 1 /\ tail \in 0 .. R - 1 /\ i \in 1 .. n
        BY <1>1, <1>2
      <4>2. CASE h >= tail
        BY <1>2, <3>3, <4>1, <4>2
      <4>3. CASE ~(h >= tail)
        BY <1>2, <3>3, <4>1, <4>3
      <4> QED BY <4>2, <4>3
    <3> QED BY <1>2, <3>4 DEF q
  <2>7. ASSUME NEW i \in 1 .. n + 1
        PROVE  e.buf[Wrap(tail + i - 1)]
                 = IF i <= Count THEN buf[Wrap(tail + i - 1)] ELSE fifo[i - Count]
    <3>1. CASE i \in 1 .. n
      BY <1>1, <1>4, <2>2, <2>6, <3>1
    <3>2. CASE i = n + 1
      <4>1. e.buf[Wrap(tail + i - 1)] = b
        BY <1>1, <2>2, <2>5, <3>2
      <4>2. ~(i <= Count) /\ i - Count = k + 1
        BY <1>2, <2>3, <3>2
      <4> QED BY <4>1, <4>2 DEF b
    <3> QED BY <1>2, <3>1, <3>2
  <2>8. n + 1 = IF Count + (k + 1) < R THEN Count + (k + 1) ELSE R - 1
    BY <1>2, <2>3
  <2> HIDE DEF e
  <2>9. Pushed(e, k + 1)
    BY <2>2, <2>4, <2>7, <2>8 DEF Pushed
  <2> QED BY <2>9 DEF e, b
<1> QED BY <1>5, <1>6

(* The loop of rx_handler pushes every byte: its recursive function exists *)
(* by induction on its domain, and each value pushes one more.             *)
LEMMA DrainedPushed ==
  ASSUME TypeOK
  PROVE  Pushed(Drained, Len(fifo))
<1> DEFINE L == Len(fifo)
           At(f, k) == IF k = 0 THEN [head |-> head, buf |-> buf] ELSE RxPush(f[k - 1], fifo[k])
           s == CHOOSE f : f = [k \in 0 .. L |-> At(f, k)]
           S == {m \in Nat : m <= L => \E f : f = [k \in 0 .. m |-> At(f, k)]}
           G == {m \in Nat : m <= L => Pushed(s[m], m)}
<1>0. L \in Nat
  BY DEF TypeOK
<1>1. Drained = s[L]
  BY DEF Drained
<1>2. \A f, g : \A k \in Nat : (k # 0 => f[k - 1] = g[k - 1]) => At(f, k) = At(g, k)
  OBVIOUS
<1>3. \E f : f = [k \in 0 .. L |-> At(f, k)]
  <2> HIDE DEF At
  <2>1. 0 \in S
    <3> DEFINE g == [k \in 0 .. 0 |-> At(<<>>, k)]
    <3>1. g = [k \in 0 .. 0 |-> At(g, k)]
      BY <1>2
    <3> QED BY <3>1
  <2>2. ASSUME NEW m \in Nat, m \in S PROVE m + 1 \in S
    <3> SUFFICES ASSUME m + 1 <= L PROVE \E f : f = [k \in 0 .. m + 1 |-> At(f, k)]
      OBVIOUS
    <3>1. PICK f : f = [k \in 0 .. m |-> At(f, k)]
      BY <2>2, <1>0
    <3> DEFINE g == [k \in 0 .. m + 1 |-> At(f, k)]
    <3>2. \A k \in 0 .. m : g[k] = f[k]
      BY <3>1
    <3>3. \A k \in 0 .. m + 1 : At(f, k) = At(g, k)
      <4> HIDE DEF g
      <4>1. \A k \in 0 .. m + 1 : k # 0 => k - 1 \in 0 .. m
        OBVIOUS
      <4> QED BY <3>2, <4>1, <1>2
    <3>4. g = [k \in 0 .. m + 1 |-> At(g, k)]
      BY <3>3
    <3> QED BY <3>4
  <2>3. L \in S
    <3> HIDE DEF S
    <3> QED BY <1>0, <2>1, <2>2, NatSetInduction
  <2> QED BY <1>0, <2>3
<1>4. s = [k \in 0 .. L |-> At(s, k)]
  <2> HIDE DEF At, L
  <2> QED BY <1>3, Zenon
<1>5. ASSUME NEW k \in 0 .. L PROVE s[k] = At(s, k)
  <2> HIDE DEF At, L, s
  <2> QED BY <1>4
<1> HIDE DEF s
<1>6. L \in G
  <2>1. 0 \in G
    <3>1. s[0] = [head |-> head, buf |-> buf]
      BY <1>0, <1>5
    <3>2. Count \in 0 .. R - 1 /\ R \in Nat
      BY WrapIs, RingIs DEF Count, TypeOK
    <3>3. Pushed([head |-> head, buf |-> buf], 0)
      <4>1. Wrap(head - tail) = IF Count + 0 < R THEN Count + 0 ELSE R - 1
        BY <3>2 DEF Count
      <4> QED BY <3>2, <4>1 DEF Pushed, TypeOK, Count
    <3> QED BY <3>1, <3>3
  <2>2. ASSUME NEW m \in Nat, m \in G PROVE m + 1 \in G
    <3> SUFFICES ASSUME m + 1 <= L PROVE Pushed(s[m + 1], m + 1)
      OBVIOUS
    <3>1. Pushed(s[m], m) /\ m < L
      BY <2>2, <1>0
    <3>2. s[m + 1] = RxPush(s[m], fifo[m + 1])
      BY <1>0, <1>5
    <3>3. Pushed(RxPush(s[m], fifo[m + 1]), m + 1)
      BY <3>1, PushedStep
    <3> QED BY <3>2, <3>3, Zenon
  <2> HIDE DEF G
  <2> QED BY <1>0, <2>1, <2>2, NatSetInduction
<1> QED BY <1>0, <1>1, <1>6

-------------------------------------------------------------------------------
(* Typing, whoever reads.                                                  *)

(* Every step keeps the indices, the ring and the readers' state in range. *)
LEMMA NextType == TypeOK /\ [Next]_vars => TypeOK'
<1> SUFFICES ASSUME TypeOK, [Next]_vars PROVE TypeOK'
  OBVIOUS
<1>0. \A i \in Index : Wrap(i + 1) \in Index
  BY WrapIs, RingIs
<1>1. CASE RxHandler
  <2>1. Drained.head \in Index /\ Drained.buf \in [Index -> Bytes]
    BY DrainedPushed DEF Pushed
  <2>2. has_waker' \in BOOLEAN
    BY <1>1, Zenon DEF RxHandler, RxWake
  <2> HIDE DEF Drained
  <2> QED BY <1>1, <2>1, <2>2 DEF RxHandler, RxWake, TypeOK
<1>2. ASSUME NEW b \in Bytes, Arrive(b) PROVE TypeOK'
  BY <1>2 DEF Arrive, TypeOK, ring, slot
<1>3. ASSUME NEW r \in Readers, PopTail(r) PROVE TypeOK'
  BY <1>3 DEF PopTail, Goto, TypeOK, ring, slot
<1>4. ASSUME NEW r \in Readers, PopHead(r) PROVE TypeOK'
  BY <1>4 DEF PopHead, Goto, TypeOK, ring, slot
<1>5. ASSUME NEW r \in Readers, PopRead(r) PROVE TypeOK'
  BY <1>5 DEF PopRead, Goto, TypeOK, ring, slot
<1>6. ASSUME NEW r \in Readers, PopStore(r) PROVE TypeOK'
  BY <1>0, <1>6 DEF PopStore, Ready, Goto, TypeOK, slot
<1>7. ASSUME NEW r \in Readers, Register(r) PROVE TypeOK'
  <2>1. CASE head = tail
    <3>1. has_waker' \in BOOLEAN
      BY <1>7, <2>1, Zenon DEF Register
    <3> QED BY <1>7, <2>1, <3>1 DEF Register, Goto, TypeOK
  <2>2. CASE head # tail
    <3>1. has_waker' \in BOOLEAN
      BY <1>7, <2>2, Zenon DEF Register
    <3> QED BY <1>0, <1>7, <2>2, <3>1 DEF Register, Ready, Goto, TypeOK
  <2> QED BY <2>1, <2>2
<1>8. CASE UNCHANGED vars
  BY <1>8 DEF vars, TypeOK, ring, slot
<1>9. ASSUME NEW r \in Readers, AwaitAgain(r) PROVE TypeOK'
  BY <1>9 DEF AwaitAgain, TypeOK, ring, slot
<1> QED BY <1>1, <1>2, <1>3, <1>4, <1>5, <1>6, <1>7, <1>8, <1>9 DEF Next, Step

(* Every index rx_push and rx_pop use is inside the buffer, in every       *)
(* interleaving of any number of readers with the interrupt.               *)
THEOREM TypeAlways == Spec => []TypeOK
<1>1. ASSUME Init PROVE TypeOK
  <2>1. has_waker \in BOOLEAN
    BY <1>1, Zenon DEF Init
  <2>2. 0 \in Index
    BY WrapIs
  <2> QED BY <1>1, <2>1, <2>2 DEF Init, TypeOK
<1> QED BY <1>1, NextType, PTL DEF Spec

-------------------------------------------------------------------------------
(* The ring as a sequence.                                                 *)

Ring(h, l, b) == [i \in 1 .. Wrap(h - l) |-> b[Wrap(l + i - 1)]]

(* The bytes from low to high, modulo the ring size, are a sequence.       *)
LEMMA RingSeq ==
  ASSUME NEW h \in Index, NEW l \in Index, NEW b \in [Index -> Bytes]
  PROVE  /\ Wrap(h - l) \in 0 .. R - 1
         /\ Ring(h, l, b) \in Seq(Bytes)
         /\ Len(Ring(h, l, b)) = Wrap(h - l)
         /\ \A i \in 1 .. Wrap(h - l) : Ring(h, l, b)[i] = b[Wrap(l + i - 1)]
<1> DEFINE n == Wrap(h - l)
<1>1. n \in 0 .. R - 1 /\ R \in Nat
  BY WrapIs, RingIs
<1>2. ASSUME NEW i \in 1 .. n PROVE Wrap(l + i - 1) \in Index
  <2>1. i \in 1 .. R
    BY <1>1
  <2> QED BY <2>1, WrapIs, RingIs
<1> HIDE DEF n
<1>3. [i \in 1 .. n |-> b[Wrap(l + i - 1)]] \in [1 .. n -> Bytes]
  BY <1>2
<1> QED BY <1>1, <1>3 DEF Ring, n

(* rx_pop takes the oldest byte. *)
LEMMA RingTail ==
  ASSUME NEW h \in Index, NEW l \in Index, NEW b \in [Index -> Bytes], h # l
  PROVE  /\ Ring(h, l, b) # <<>>
         /\ Head(Ring(h, l, b)) = b[l]
         /\ Ring(h, Wrap(l + 1), b) = Tail(Ring(h, l, b))
<1> DEFINE n == Wrap(h - l)
           k == Wrap(l + 1)
           c == Ring(h, l, b)
           d == Ring(h, k, b)
<1>1. R \in Nat /\ R > 0 /\ Index = 0 .. R - 1
  BY WrapIs
<1>2. k = (IF l = R - 1 THEN 0 ELSE l + 1) /\ k \in Index
  BY <1>1, RingIs
<1>3. n = (IF h >= l THEN h - l ELSE h - l + R) /\ n \in 1 .. R - 1
  BY <1>1, RingIs
<1>4. c \in Seq(Bytes) /\ Len(c) = n /\ \A i \in 1 .. n : c[i] = b[Wrap(l + i - 1)]
  BY RingSeq
<1> HIDE DEF k
<1>5. d \in Seq(Bytes) /\ Len(d) = Wrap(h - k) /\ \A i \in 1 .. Wrap(h - k) : d[i] = b[Wrap(k + i - 1)]
  BY <1>2, RingSeq
<1>6. Wrap(h - k) = n - 1
  <2>1. Wrap(h - k) = IF h >= k THEN h - k ELSE h - k + R
    BY <1>2, RingIs
  <2> HIDE DEF n
  <2> QED BY <1>1, <1>2, <1>3, <2>1
<1>7. ASSUME NEW i \in 1 .. n - 1 PROVE Wrap(k + i - 1) = Wrap(l + (i + 1) - 1)
  <2>1. i \in 1 .. R /\ i + 1 \in 1 .. R
    BY <1>1, <1>3
  <2>2. Wrap(k + i - 1) = IF k + i - 1 < R THEN k + i - 1 ELSE k + i - 1 - R
    BY <1>2, <2>1, RingIs
  <2>3. Wrap(l + (i + 1) - 1) = IF l + (i + 1) - 1 < R THEN l + (i + 1) - 1 ELSE l + (i + 1) - 1 - R
    BY <2>1, RingIs
  <2> HIDE DEF n
  <2>4. CASE l = R - 1
    <3>1. k = 0 /\ k + i - 1 < R /\ ~(l + (i + 1) - 1 < R)
      BY <1>1, <1>2, <1>3, <2>4
    <3> QED BY <1>1, <2>2, <2>3, <2>4, <3>1
  <2>5. CASE l # R - 1
    <3>1. k = l + 1 /\ k + i - 1 = l + (i + 1) - 1
      BY <1>1, <1>2, <2>5
    <3> QED BY <2>2, <2>3, <3>1
  <2> QED BY <2>4, <2>5
<1> HIDE DEF n, c, d
<1>8. c # <<>> /\ Head(c) = c[1] /\ c[1] = b[l]
  <2>1. c # <<>>
    BY <1>3, <1>4
  <2>2. Wrap(l + 1 - 1) = l
    <3>1. l + 1 - 1 = l /\ l \in 0 .. R - 1
      BY <1>1
    <3> QED BY <3>1, WrapIs
  <2> QED BY <1>3, <1>4, <2>1, <2>2
<1>9. Tail(c) \in Seq(Bytes) /\ Len(Tail(c)) = n - 1 /\ \A i \in 1 .. n - 1 : Tail(c)[i] = c[i + 1]
  BY <1>3, <1>4, <1>8, HeadTailProperties
<1>10. \A i \in 1 .. n - 1 : d[i] = Tail(c)[i]
  <2> SUFFICES ASSUME NEW i \in 1 .. n - 1 PROVE d[i] = Tail(c)[i]
    OBVIOUS
  <2>1. d[i] = b[Wrap(k + i - 1)] /\ Tail(c)[i] = c[i + 1]
    BY <1>5, <1>6, <1>9
  <2>2. i + 1 \in 1 .. n
    BY <1>3
  <2> QED BY <1>4, <1>7, <2>1, <2>2
<1>11. d = Tail(c)
  BY <1>3, <1>5, <1>6, <1>9, <1>10, SeqEqual
<1> QED BY <1>8, <1>11 DEF c, d, k

(* rx_handler appends as much of the UART's FIFO as there is room for. *)
LEMMA RingPush ==
  ASSUME TypeOK, NEW s, Pushed(s, Len(fifo))
  PROVE  Ring(s.head, tail, s.buf)
           = Ring(head, tail, buf) \o C!Take(fifo, R - 1 - Len(Ring(head, tail, buf)))
<1> DEFINE c == Ring(head, tail, buf)
           d == Ring(s.head, tail, s.buf)
           L == Len(fifo)
           a == R - 1 - Len(c)
           m == IF a < L THEN a ELSE L
           n == Wrap(s.head - tail)
           e == SubSeq(fifo, 1, m)
<1>1. /\ c \in Seq(Bytes) /\ Len(c) = Count /\ Count \in 0 .. R - 1
      /\ \A i \in 1 .. Count : c[i] = buf[Wrap(tail + i - 1)]
  BY RingSeq DEF TypeOK, Count
<1>2. /\ d \in Seq(Bytes) /\ Len(d) = n /\ n \in 0 .. R - 1
      /\ \A i \in 1 .. n : d[i] = s.buf[Wrap(tail + i - 1)]
  BY RingSeq DEF TypeOK, Pushed
<1>3. n = IF Count + L < R THEN Count + L ELSE R - 1
  BY DEF Pushed
<1>4. \A i \in 1 .. n : d[i] = IF i <= Count THEN c[i] ELSE fifo[i - Count]
  <2> SUFFICES ASSUME NEW i \in 1 .. n
               PROVE  d[i] = IF i <= Count THEN c[i] ELSE fifo[i - Count]
    OBVIOUS
  <2>1. s.buf[Wrap(tail + i - 1)] = IF i <= Count THEN buf[Wrap(tail + i - 1)] ELSE fifo[i - Count]
    BY DEF Pushed
  <2>2. i <= Count => i \in 1 .. Count
    BY <1>1, <1>2
  <2> HIDE DEF c, d, n
  <2> QED BY <1>1, <1>2, <2>1, <2>2
<1>5. L \in Nat /\ fifo \in Seq(Bytes) /\ R \in Nat
  BY WrapIs DEF TypeOK
<1> HIDE DEF c, d, L, n
<1>6. m \in 0 .. L /\ n = Count + m
  BY <1>1, <1>3, <1>5
<1> HIDE DEF m
<1>7. e \in Seq(Bytes) /\ Len(e) = m /\ \A i \in 1 .. m : e[i] = fifo[i]
  <2>1. 1 \in 1 .. Len(fifo) + 1 /\ m \in 0 .. Len(fifo)
    BY <1>5, <1>6 DEF L
  <2>2. \A i \in 1 .. m : fifo[i] \in Bytes
    BY <1>5, <2>1
  <2>3. /\ Len(e) = m /\ \A i \in 1 .. m : e[i] = fifo[i]
        /\ e = [i \in 1 .. m |-> fifo[i]]
    BY <1>5, <2>1
  <2>4. e \in [1 .. m -> Bytes]
    BY <2>2, <2>3
  <2> HIDE DEF e
  <2> QED BY <1>5, <1>6, <2>3, <2>4
<1> HIDE DEF e
<1>8. /\ c \o e \in Seq(Bytes) /\ Len(c \o e) = Count + m
      /\ \A i \in 1 .. Count + m : (c \o e)[i] = IF i <= Count THEN c[i] ELSE e[i - Count]
  BY <1>1, <1>7, ConcatProperties
<1>9. \A i \in 1 .. n : d[i] = (c \o e)[i]
  <2> SUFFICES ASSUME NEW i \in 1 .. n PROVE d[i] = (c \o e)[i]
    OBVIOUS
  <2>1. CASE i <= Count
    BY <1>4, <1>6, <1>8, <2>1
  <2>2. CASE ~(i <= Count)
    <3>1. i - Count \in 1 .. m
      BY <1>1, <1>6, <2>2
    <3> QED BY <1>4, <1>6, <1>7, <1>8, <2>2, <3>1
  <2> QED BY <2>1, <2>2
<1>10. d = c \o e
  BY <1>2, <1>6, <1>8, <1>9, SeqEqual
<1>11. C!Take(fifo, R - 1 - Len(c)) = e
  BY DEF C!Take, e, m, L
<1> QED BY <1>10, <1>11 DEF c, d

-------------------------------------------------------------------------------
(* One reader.                                                             *)

(* The tail a pop in progress has loaded is still the tail, once it has    *)
(* seen a byte the ring stays non-empty, and the byte it has read is still *)
(* the oldest: the interrupt only adds behind it.                          *)
PopOK ==
  /\ Len(fifo) <= FIFO_SIZE
  /\ \A r \in Readers :
       /\ pc[r] \in {"head", "read", "store"} => t[r] = tail
       /\ pc[r] \in {"read", "store"} => head # tail
       /\ pc[r] = "store" => byte[r] = buf[tail]

IInv == TypeOK /\ PopOK /\ ReaderNotAsleepOnData

(* rx_handler leaves the oldest byte of a non-empty ring where it is. *)
LEMMA HandlerKeeps ==
  ASSUME TypeOK, RxHandler, head # tail
  PROVE  head' # tail /\ buf'[tail] = buf[tail]
<1>1. Pushed(Drained, Len(fifo)) /\ head' = Drained.head /\ buf' = Drained.buf
  BY DrainedPushed DEF RxHandler
<1>2. R \in Nat /\ Index = 0 .. R - 1 /\ head \in Index /\ tail \in Index /\ Len(fifo) \in Nat
  BY WrapIs DEF TypeOK
<1>3. Count \in 1 .. R - 1
  <2>1. Count = IF head >= tail THEN head - tail ELSE head - tail + R
    BY <1>2, RingIs DEF Count
  <2> QED BY <1>2, <2>1
<1>4. Wrap(head' - tail) = IF Count + Len(fifo) < R THEN Count + Len(fifo) ELSE R - 1
  BY <1>1 DEF Pushed
<1>5. Wrap(tail - tail) = 0
  BY <1>2, RingIs
<1>6. head' # tail /\ 1 \in 1 .. Wrap(head' - tail)
  BY <1>2, <1>3, <1>4, <1>5
<1>7. Wrap(tail + 1 - 1) = tail
  <2>1. tail + 1 - 1 = tail
    BY <1>2
  <2> QED BY <1>2, <2>1, WrapIs
<1>8. buf'[Wrap(tail + 1 - 1)] = IF 1 <= Count THEN buf[Wrap(tail + 1 - 1)] ELSE fifo[1 - Count]
  BY <1>1, <1>6 DEF Pushed
<1> QED BY <1>3, <1>6, <1>7, <1>8

(* Neither the interrupt nor the reader itself leaves the reader asleep    *)
(* over a byte, or its pop with a stale view of the ring.                  *)
LEMMA NextInv ==
  ASSUME NEW r, Readers = {r}, IInv, [Next]_vars
  PROVE  IInv'
<1> USE DEF IInv
<1>1. TypeOK'
  BY NextType
<1>2. CASE RxHandler
  <2>1. PopOK'
    <3>1. Len(fifo') <= FIFO_SIZE
      BY <1>2, SizesAssumption DEF RxHandler
    <3>2. UNCHANGED <<tail, pc, t, byte>>
      BY <1>2 DEF RxHandler
    <3> QED BY <1>2, <3>1, <3>2, HandlerKeeps DEF PopOK
  <2>2. ReaderNotAsleepOnData'
    BY <1>2 DEF RxHandler, RxWake, ReaderNotAsleepOnData
  <2> QED BY <1>1, <2>1, <2>2
<1>3. ASSUME NEW b \in Bytes, Arrive(b) PROVE IInv'
  <2>1. Len(fifo') <= FIFO_SIZE
    <3>1. Len(fifo') = Len(fifo) + 1 /\ Len(fifo) \in Nat /\ Len(fifo) < FIFO_SIZE
      BY <1>3 DEF Arrive, TypeOK
    <3> QED BY <3>1, SizesAssumption
  <2> QED BY <1>1, <1>3, <2>1 DEF Arrive, PopOK, ReaderNotAsleepOnData, ring, slot
<1>4. CASE PopTail(r)
  BY <1>1, <1>4 DEF PopTail, Goto, TypeOK, PopOK, ReaderNotAsleepOnData, ring, slot
<1>5. CASE PopHead(r)
  BY <1>1, <1>5 DEF PopHead, Goto, TypeOK, PopOK, ReaderNotAsleepOnData, ring, slot
<1>6. CASE PopRead(r)
  BY <1>1, <1>6 DEF PopRead, Goto, TypeOK, PopOK, ReaderNotAsleepOnData, ring, slot
<1>7. CASE PopStore(r)
  BY <1>1, <1>7 DEF PopStore, Ready, Goto, TypeOK, PopOK, ReaderNotAsleepOnData, slot
<1>8. CASE Register(r)
  BY <1>1, <1>8 DEF Register, Ready, Goto, TypeOK, PopOK, ReaderNotAsleepOnData
<1>9. CASE UNCHANGED vars
  BY <1>1, <1>9 DEF vars, PopOK, ReaderNotAsleepOnData, ring, slot
<1>10. CASE AwaitAgain(r)
  BY <1>1, <1>10 DEF AwaitAgain, PopOK, ReaderNotAsleepOnData, ring, slot
<1> QED BY <1>2, <1>3, <1>4, <1>5, <1>6, <1>7, <1>8, <1>9, <1>10 DEF Next, Step

(* probe() has emptied the ring and the reader's first poll is to come. *)
LEMMA InitInv == Init /\ TypeOK => IInv
  BY SizesAssumption DEF Init, IInv, PopOK, ReaderNotAsleepOnData

(* With one reader the invariant holds in every reachable state.           *)
LEMMA InvAlways ==
  ASSUME NEW r, Readers = {r}
  PROVE  Spec => []IInv
<1>1. IInv /\ [Next]_vars => IInv'
  BY NextInv
<1> QED BY <1>1, InitInv, TypeAlways, PTL DEF Spec

(* The only reader is never asleep on data: between SerialRx::poll         *)
(* returning Pending and the next receive interrupt the ring is empty and  *)
(* its waker is in the slot.                                               *)
THEOREM ReaderNotAsleepAlways ==
  ASSUME NEW r, Readers = {r}
  PROVE  Spec => []ReaderNotAsleepOnData
<1>1. IInv => ReaderNotAsleepOnData
  BY DEF IInv
<1> QED BY <1>1, InvAlways, PTL

-------------------------------------------------------------------------------
(* The refinement.                                                         *)

(* An empty ring is an empty channel. *)
LEMMA InitRefines == Init => C!Init
<1> SUFFICES ASSUME Init PROVE C!Init
  OBVIOUS
<1>1. 0 \in Index /\ Wrap(0 - 0) = 0
  BY WrapIs, RingIs
<1>2. Contents = <<>>
  BY <1>1 DEF Contents, Init
<1> QED BY <1>2 DEF C!Init, Init

(* Every step is a burst received, a byte read, or nothing. *)
LEMMA NextRefines ==
  ASSUME NEW r, Readers = {r}, IInv, [Next]_vars
  PROVE  [C!Next]_<<Contents, out>>
<1> USE DEF IInv
<1>1. Contents = Ring(head, tail, buf) /\ Contents' = Ring(head', tail', buf')
  BY DEF Contents, Ring
<1>2. head \in Index /\ tail \in Index /\ buf \in [Index -> Bytes]
  BY DEF TypeOK
<1>3. ASSUME UNCHANGED <<head, tail, buf, out>> PROVE UNCHANGED <<Contents, out>>
  BY <1>1, <1>3
<1>4. CASE RxHandler
  <2>1. Contents' = Contents \o C!Take(fifo, RX_BUF_SIZE - 1 - Len(Contents)) /\ UNCHANGED out
    BY <1>1, <1>4, DrainedPushed, RingPush DEF RxHandler, R
  <2>2. CASE fifo = <<>>
    <3>1. Len(fifo) = 0 /\ Contents \in Seq(Bytes)
      BY <1>1, <1>2, <2>2, RingSeq
    <3>2. C!Take(fifo, RX_BUF_SIZE - 1 - Len(Contents)) = <<>>
      BY <2>2, <3>1, SizesAssumption DEF C!Take
    <3> QED BY <2>1, <3>1, <3>2
  <2>3. CASE fifo # <<>>
    <3>1. /\ Len(fifo) \in 1 .. FIFO_SIZE
          /\ fifo \in [1 .. Len(fifo) -> Bytes]
      BY <2>3, SizesAssumption DEF TypeOK, PopOK
    <3>2. C!Receive
      BY <2>1, <3>1 DEF C!Receive
    <3> QED BY <3>2 DEF C!Next
  <2> QED BY <2>2, <2>3
<1>5. ASSUME NEW b \in Bytes, Arrive(b) PROVE UNCHANGED <<Contents, out>>
  BY <1>3, <1>5 DEF Arrive, ring
<1>6. CASE PopTail(r) \/ PopHead(r) \/ PopRead(r)
  BY <1>3, <1>6 DEF PopTail, PopHead, PopRead, ring
<1>7. ASSUME head # tail, tail' = Wrap(tail + 1), head' = head, buf' = buf, out' = buf[tail]
      PROVE  C!Read
  <2>1. Contents # <<>> /\ Contents' = Tail(Contents) /\ out' = Head(Contents)
    BY <1>1, <1>2, <1>7, RingTail
  <2> QED BY <2>1 DEF C!Read
<1>8. CASE PopStore(r)
  <2>1. t[r] = tail /\ head # tail /\ byte[r] = buf[tail]
    BY <1>8 DEF PopStore, PopOK
  <2> QED BY <1>7, <1>8, <2>1 DEF PopStore, Ready, C!Next
<1>9. CASE Register(r)
  <2>1. CASE head = tail
    BY <1>3, <1>9, <2>1 DEF Register
  <2>2. CASE head # tail
    BY <1>7, <1>9, <2>2 DEF Register, Ready, C!Next
  <2> QED BY <2>1, <2>2
<1>10. CASE UNCHANGED vars
  BY <1>3, <1>10 DEF vars, ring
<1>11. CASE AwaitAgain(r)
  BY <1>3, <1>11 DEF AwaitAgain, ring
<1> QED BY <1>4, <1>5, <1>6, <1>8, <1>9, <1>10, <1>11 DEF Next, Step

(* With one reader the ring buffer is a FIFO of RX_BUF_SIZE - 1 bytes for  *)
(* every buffer size: the interrupt may come between any two steps of a    *)
(* pop, at either boundary and across the wrap of both indices.            *)
THEOREM RingImplementsChannel ==
  ASSUME NEW r, Readers = {r}
  PROVE  Spec => ImplementsByteChannel
<1>1. IInv /\ [Next]_vars => [C!Next]_<<Contents, out>>
  BY NextRefines
<1> QED BY <1>1, InitRefines, InvAlways, PTL DEF Spec, ImplementsByteChannel, C!Spec
===============================================================================
