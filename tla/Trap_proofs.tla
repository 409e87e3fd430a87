------------------------------ MODULE Trap_proofs ------------------------------
(* For any number of priorities, any stack and any values in the registers: *)
(* what masks interrupts is not interrupted, frames do not overlap, and a   *)
(* trap returns to the context it interrupted.                              *)
EXTENDS TLAPS, Trap

(* The way out of a trap, from the first CSR on. *)
Leaving == {"csr_mepc", "csr_mstatus", "mret"}

(* The types, without the bounds of the stack: addresses are integers. *)
Saved == [x : Int, t0 : Int, sp : Int, mie : BOOLEAN]
FramesInt == [base : Int, x : Int, t0 : Int, sp : Int, mepc : Nat,
              mie : BOOLEAN, mpie : BOOLEAN, was : Saved]
Types ==
  /\ ctx \in Seq(Activations) /\ Depth >= 1 /\ frames \in Seq(FramesInt)
  /\ regs \in [Regs -> Int] /\ sp \in Int
  /\ mepc \in Nat /\ mie \in BOOLEAN /\ mpie \in BOOLEAN

(* An activation at depth d that may be interrupted, in no critical        *)
(* section if no latch is polled in one.  Its rank: each executor is more  *)
(* urgent than the one below it.                                           *)
Interruptible(a, d) ==
  a.at \in Open /\ (~PollInCs => a.cs = <<>>) /\ a.prio + d <= N + 1

(* Where an activation can be in a critical section, and that only its     *)
(* outermost one can have been entered with interrupts on.                 *)
SectionsOK(a) ==
  /\ a.cs # <<>> => a.at \in {"main", "run", "handle", "panic", "latch"}
  /\ ~PollInCs /\ a.at = "latch" => a.cs = <<>>
  /\ \A i \in 1 .. Len(a.cs) :
       a.cs[i] => a.at \in Open \cup {"latch"} /\ (~PollInCs => i = 1)

(* Only the thread starts up, and it does nothing else. *)
PlaceOK(a, d) ==
  /\ d = 1 <=> a.kind = "thread"
  /\ a.at \in (IF d = 1 THEN {"reset", "init", "main", "idle", "panic"}
               ELSE Places \ {"reset", "init", "main", "idle"})
  /\ a.kind = "exception" => a.at = "panic"

(* How urgent an activation is at its depth: an executor, a handler on top *)
(* of executors, an exception on top of that.                              *)
RankOK(a, d) ==
  /\ a.at \in {"run", "latch"} => a.prio + d <= N + 1
  /\ a.prio + d <= IF a.kind = "exception" THEN N + 3 ELSE N + 2

(* How low the base of the k-th frame can be. *)
Lowest(k) == StackTop - k * (35 + Locals)

(* A frame returns to the activation below it, which it saved faithfully,  *)
(* and which had interrupts on only where it could be interrupted.         *)
FrameOK(f, k) ==
  /\ f.mepc = k /\ ~f.mie
  /\ f.mpie => Interruptible(ctx[k], k)
  /\ f.x = f.was.x /\ f.sp = f.was.sp /\ (f.mpie <=> f.was.mie)
  /\ f.base % 2 = 0 /\ f.base + 32 < f.was.sp
  /\ LET top == IF k = 1 THEN StackTop ELSE frames[k - 1].base
     IN  top - Locals <= f.was.sp /\ f.was.sp <= top
  /\ f.base >= Lowest(k)

(* The activations and frames below the executing one. *)
StackOK ==
  /\ Len(frames) = Depth - 1
  /\ \A d \in 1 .. Depth - 1 :
       /\ PlaceOK(ctx[d], d) /\ RankOK(ctx[d], d) /\ SectionsOK(ctx[d])
       /\ ctx[d].at \notin Leaving
       /\ ctx[d + 1].kind \in Causes => Interruptible(ctx[d], d)
       /\ FrameOK(frames[d], d)

(* The executing activation and the registers of the hart. *)
TopOK ==
  /\ PlaceOK(Here, Depth) /\ RankOK(Here, Depth) /\ SectionsOK(Here)
  /\ mie => Interruptible(Here, Depth)
  /\ Here.at \in Leaving => mepc = Depth - 1
  /\ Here.at \in {"csr_mstatus", "mret"} => (mpie <=> Frame.mpie)
  /\ Here.at = "mret" => regs["x"] = Frame.x /\ sp = Frame.sp
  /\ Here.at # "mret" => sp <= Floor
  /\ Here.at # "reset" => Floor - Locals <= sp

IInv == Types /\ StackOK /\ TopOK

-------------------------------------------------------------------------------
(* The hart is reset with interrupts off and an empty stack. *)
LEMMA InitInv == Init => IInv
<1> SUFFICES ASSUME Init PROVE IInv
  OBVIOUS
<1>1. ctx = <<Activation("thread", "reset", N)>> /\ Depth = 1
  BY DEF Init, Depth
<1>2. Here = [kind |-> "thread", at |-> "reset", prio |-> N, cs |-> <<>>]
  BY <1>1 DEF Here, Activation
<1>3. Here \in Activations
  BY <1>2, NAssumption DEF Activations, Places, Causes
<1>4. Types
  <2>1. ctx \in Seq(Activations)
    BY <1>1, <1>3 DEF Here
  <2>2. regs \in [Regs -> Int] /\ frames \in Seq(FramesInt)
    BY DEF Init
  <2>3. mie \in BOOLEAN /\ mpie \in BOOLEAN
    BY Zenon DEF Init
  <2>4. Depth >= 1 /\ sp \in Int /\ mepc \in Nat
    BY <1>1 DEF Init
  <2> QED BY <2>1, <2>2, <2>3, <2>4 DEF Types
<1>5. StackOK
  BY <1>1 DEF Init, StackOK
<1>6. TopOK
  <2>1. PlaceOK(Here, Depth) /\ RankOK(Here, Depth) /\ SectionsOK(Here)
    BY <1>1, <1>2, NAssumption DEF PlaceOK, RankOK, SectionsOK
  <2>2. sp <= Floor
    BY StackAssumption DEF Init, Floor
  <2> QED BY <1>2, <2>1, <2>2 DEF Init, TopOK, Leaving
<1> QED BY <1>4, <1>5, <1>6 DEF IInv

(* A step of the executing activation within its own part of the stack:    *)
(* only what is said of the top is left to show.                           *)
LEMMA TopStep ==
  ASSUME IInv, NEW a \in Activations, a.kind = Here.kind,
         ctx' = [ctx EXCEPT ![Depth] = a], frames' = frames,
         regs' \in [Regs -> Int], sp' \in Int,
         mepc' \in Nat, mie' \in BOOLEAN, mpie' \in BOOLEAN
  PROVE  /\ Depth' = Depth /\ Here' = a /\ Frame' = Frame /\ Floor' = Floor
         /\ TopOK' => IInv'
<1> USE DEF IInv
<1>1. /\ ctx' \in Seq(Activations) /\ Depth' = Depth /\ Here' = a
      /\ \A d \in 1 .. Depth - 1 : ctx'[d] = ctx[d]
  BY DEF Types, Depth, Here
<1>2. Frame' = Frame /\ Floor' = Floor
  BY DEF Frame, Last, Floor
<1>3. Types'
  BY <1>1 DEF Types
<1>4. \A d \in 1 .. Depth - 1 : ctx'[d + 1].kind = ctx[d + 1].kind
  <2> TAKE d \in 1 .. Depth - 1
  <2>1. Depth \in Nat
    BY DEF Types, Depth
  <2>2. CASE d + 1 = Depth
    BY <1>1, <2>1, <2>2 DEF Here
  <2>3. CASE d + 1 # Depth
    BY <1>1, <2>1, <2>3
  <2> QED BY <2>2, <2>3
<1>5. StackOK'
  <2>1. Len(frames') = Depth' - 1
    BY <1>1 DEF StackOK
  <2> SUFFICES ASSUME NEW d \in 1 .. Depth - 1
               PROVE  /\ PlaceOK(ctx'[d], d) /\ RankOK(ctx'[d], d) /\ SectionsOK(ctx'[d])
                      /\ ctx'[d].at \notin Leaving
                      /\ ctx'[d + 1].kind \in Causes => Interruptible(ctx'[d], d)
                      /\ FrameOK(frames[d], d)'
    BY <1>1, <2>1 DEF StackOK, PlaceOK, RankOK, SectionsOK, Interruptible, FrameOK
  <2>2. ctx'[d] = ctx[d] /\ ctx'[d + 1].kind = ctx[d + 1].kind
    BY <1>1, <1>4
  <2>3. FrameOK(frames[d], d)'
    BY <2>2 DEF StackOK, FrameOK, Interruptible
  <2> QED BY <2>2, <2>3 DEF StackOK
<1> QED BY <1>1, <1>2, <1>3, <1>5

(* What the top being where it is says of the rest. *)
LEMMA HereTypes ==
  ASSUME IInv
  PROVE  /\ Depth \in Nat \ {0} /\ Here \in Activations
         /\ Here.kind \in Causes \cup {"thread", "exception"} /\ Here.at \in Places
         /\ Here.prio \in 0 .. N /\ Here.cs \in Seq(BOOLEAN)
         /\ Floor \in Int /\ N \in Nat /\ Locals \in Nat
         /\ Depth > 1 => Below \in Activations /\ Below.prio \in 0 .. N
<1> USE DEF IInv
<1>1. Depth \in Nat \ {0} /\ Here \in Activations
  BY DEF Types, Depth, Here
<1>2. Floor \in Int
  <2>1. ASSUME frames # <<>> PROVE frames[Len(frames)] \in FramesInt
    BY <2>1 DEF Types
  <2>2. StackTop \in Int
    BY StackAssumption
  <2> QED BY <2>1, <2>2 DEF Floor, FramesInt
<1>3. Depth > 1 => Below \in Activations
  BY <1>1 DEF Types, Depth, Below
<1> QED BY <1>1, <1>2, <1>3, NAssumption, StackAssumption DEF Activations

(* A step that only goes on to another place of the code. *)
LEMMA GotoStep ==
  ASSUME IInv, NEW l \in Places, Goto(l), frames' = frames,
         regs' \in [Regs -> Int], sp' \in Int,
         mepc' \in Nat, mie' \in BOOLEAN, mpie' \in BOOLEAN
  PROVE  /\ Depth' = Depth /\ Frame' = Frame /\ Floor' = Floor
         /\ Here'.at = l /\ Here'.cs = Here.cs
         /\ Here'.kind = Here.kind /\ Here'.prio = Here.prio
         /\ TopOK' => IInv'
<1> DEFINE a == [Here EXCEPT !.at = l]
<1>1. /\ a \in Activations /\ a.kind = Here.kind /\ a.at = l /\ a.cs = Here.cs
      /\ a.prio = Here.prio
  BY HereTypes DEF Activations
<1>2. ctx' = [ctx EXCEPT ![Depth] = a]
  BY DEF Goto, Here
<1> HIDE DEF a
<1> QED BY <1>1, <1>2, TopStep

(* A step that leaves the activation where it is. *)
LEMMA SameStep ==
  ASSUME IInv, ctx' = ctx, frames' = frames,
         regs' \in [Regs -> Int], sp' \in Int,
         mepc' \in Nat, mie' \in BOOLEAN, mpie' \in BOOLEAN
  PROVE  /\ Depth' = Depth /\ Frame' = Frame /\ Floor' = Floor /\ Here' = Here
         /\ TopOK' => IInv'
<1>1. ctx' = [ctx EXCEPT ![Depth] = Here]
  BY DEF IInv, Types, Depth, Here
<1> QED BY <1>1, HereTypes, TopStep

(* A step that changes nothing keeps the invariant. *)
LEMMA StutterInv == IInv /\ UNCHANGED vars => IInv'
<1> SUFFICES ASSUME IInv, UNCHANGED vars PROVE IInv'
  OBVIOUS
<1>1. /\ Depth' = Depth /\ Frame' = Frame /\ Floor' = Floor /\ Here' = Here
      /\ TopOK' => IInv'
  BY SameStep DEF vars, csrs, IInv, Types
<1>2. PlaceOK(Here, Depth)' /\ RankOK(Here, Depth)' /\ SectionsOK(Here)'
  BY <1>1 DEF IInv, TopOK, PlaceOK, RankOK, SectionsOK
<1>3. mie' => Interruptible(Here, Depth)'
  BY <1>1 DEF IInv, TopOK, vars, csrs, Interruptible
<1> QED BY <1>1, <1>2, <1>3 DEF IInv, TopOK, vars, csrs

(* Start-up: interrupts stay off until the thread is idle. *)
LEMMA StartupInv ==
  ASSUME IInv, Startup
  PROVE  IInv'
<1> USE DEF IInv
<1>0. /\ Depth \in Nat \ {0} /\ Here.cs \in Seq(BOOLEAN)
      /\ Here.prio \in 0 .. N /\ N \in Nat /\ Locals \in Nat
  BY HereTypes
<1>1. CASE __start
  <2>1. sp' \in Int /\ "init" \in Places
    BY <1>1, StackAssumption DEF __start, Places
  <2>2. /\ Depth' = Depth /\ Floor' = Floor /\ Here'.at = "init" /\ Here'.cs = Here.cs
        /\ Here'.kind = Here.kind /\ Here'.prio = Here.prio
        /\ TopOK' => IInv'
    BY <1>1, <2>1, GotoStep DEF __start, csrs, Types
  <2>3. Depth = 1 /\ Floor = StackTop
    BY <1>0, <1>1 DEF __start, TopOK, PlaceOK, StackOK, Types, Floor
  <2>4. TopOK'
    BY <1>0, <1>1, <2>2, <2>3, StackAssumption
       DEF __start, csrs, TopOK, PlaceOK, RankOK, SectionsOK, Interruptible, Leaving, Open
  <2> QED BY <2>2, <2>4
<1>2. CASE init
  <2>1. "main" \in Places
    BY DEF Places
  <2>2. /\ Depth' = Depth /\ Floor' = Floor /\ Here'.at = "main" /\ Here'.cs = Here.cs
        /\ Here'.kind = Here.kind /\ Here'.prio = Here.prio
        /\ TopOK' => IInv'
    BY <1>2, <2>1, GotoStep DEF init, csrs, Types
  <2>3. TopOK'
    BY <1>0, <1>2, <2>2
       DEF init, csrs, TopOK, PlaceOK, RankOK, SectionsOK, Interruptible, Leaving, Open
  <2> QED BY <2>2, <2>3
<1>3. CASE start
  <2>1. "idle" \in Places /\ mie' \in BOOLEAN
    BY <1>3, Zenon DEF Places, start
  <2>2. /\ Depth' = Depth /\ Floor' = Floor /\ Here'.at = "idle" /\ Here'.cs = Here.cs
        /\ Here'.kind = Here.kind /\ Here'.prio = Here.prio
        /\ TopOK' => IInv'
    BY <1>3, <2>1, GotoStep DEF start, Types
  <2>3. TopOK'
    BY <1>0, <1>3, <2>2
       DEF start, TopOK, PlaceOK, RankOK, SectionsOK, Interruptible, Leaving, Open
  <2> QED BY <2>2, <2>3
<1>4. CASE idle
  BY <1>4, StutterInv DEF idle
<1> QED BY <1>1, <1>2, <1>3, <1>4 DEF Startup

(* What runs in an activation: calls, critical sections, registrations,    *)
(* and interrupts that become pending meanwhile.                           *)
LEMMA CodeInv ==
  ASSUME IInv, Code \/ \E c \in Causes : Raise(c)
  PROVE  IInv'
<1> USE DEF IInv
<1>0. /\ Depth \in Nat \ {0} /\ Here \in Activations /\ Here.cs \in Seq(BOOLEAN)
      /\ Here.at \in Places /\ Here.prio \in 0 .. N /\ Floor \in Int
      /\ N \in Nat /\ Locals \in Nat
  BY HereTypes
<1>1. CASE Compute
  <2>1. Locals \in Nat /\ Vals \subseteq Int
    BY StackAssumption
  <2>2. sp' \in Int /\ sp' <= Floor /\ Floor - Locals <= sp'
    BY <1>0, <1>1, <2>1 DEF Compute
  <2>3. regs' \in [Regs -> Int]
    BY <1>1, <2>1 DEF Compute
  <2>4. /\ Depth' = Depth /\ Frame' = Frame /\ Floor' = Floor /\ Here' = Here
        /\ TopOK' => IInv'
    BY <1>1, <2>2, <2>3, SameStep DEF Compute, csrs, Types
  <2>5. TopOK'
    BY <1>1, <2>2, <2>4
       DEF Compute, Rust, csrs, TopOK, PlaceOK, RankOK, SectionsOK, Interruptible, Leaving
  <2> QED BY <2>4, <2>5
<1>2. CASE pend \/ \E c \in Causes : Raise(c)
  <2>1. /\ Depth' = Depth /\ Frame' = Frame /\ Floor' = Floor /\ Here' = Here
        /\ TopOK' => IInv'
    BY <1>2, SameStep DEF pend, Raise, csrs, Types
  <2>2. TopOK'
    BY <1>2, <2>1 DEF pend, Raise, csrs, TopOK, PlaceOK, RankOK, SectionsOK, Interruptible
  <2> QED BY <2>1, <2>2
<1>3. CASE acquire
  <2> DEFINE c == Append(Here.cs, mie)
             a == [Here EXCEPT !.cs = c]
  <2>0. c \in Seq(BOOLEAN)
    BY <1>0 DEF Types
  <2>1. ctx' = [ctx EXCEPT ![Depth] = a]
    BY <1>3 DEF acquire, Here
  <2>2. /\ a \in Activations /\ a.kind = Here.kind /\ a.at = Here.at /\ a.prio = Here.prio
        /\ a.cs = c
    <3> HIDE DEF c
    <3> QED BY <1>0, <2>0 DEF Activations
  <2> HIDE DEF a
  <2>3. mie' \in BOOLEAN /\ ~mie'
    BY <1>3, Zenon DEF acquire
  <2>4. /\ Depth' = Depth /\ Floor' = Floor /\ Here' = a
        /\ TopOK' => IInv'
    BY <1>3, <2>2, <2>1, <2>3, TopStep DEF acquire, Types
  <2>5. /\ Len(a.cs) = Len(Here.cs) + 1 /\ a.cs[Len(a.cs)] = mie /\ a.cs # <<>>
        /\ \A i \in 1 .. Len(Here.cs) : a.cs[i] = Here.cs[i]
    BY <1>0, <2>2 DEF Types
  <2>6. SectionsOK(a)
    <3>1. SectionsOK(Here) /\ (mie => Here.at \in Open /\ (~PollInCs => Here.cs = <<>>))
      BY DEF TopOK, Interruptible
    <3> QED BY <1>0, <1>3, <2>2, <2>5, <3>1 DEF acquire, SectionsOK, Open
  <2>7. TopOK'
    BY <1>3, <2>2, <2>3, <2>4, <2>6
       DEF acquire, TopOK, SectionsOK, PlaceOK, RankOK, Interruptible, Leaving
  <2> QED BY <2>4, <2>7
<1>4. CASE release
  <2> DEFINE a == [Here EXCEPT !.cs = Front(@)]
  <2>1. Front(Here.cs) \in Seq(BOOLEAN) /\ Len(Front(Here.cs)) = Len(Here.cs) - 1
    BY <1>0, <1>4 DEF release, Front
  <2>2. \A i \in 1 .. Len(Here.cs) - 1 : Front(Here.cs)[i] = Here.cs[i]
    BY <1>0, <1>4 DEF release, Front
  <2>3. /\ a \in Activations /\ a.kind = Here.kind /\ a.at = Here.at /\ a.prio = Here.prio
        /\ a.cs = Front(Here.cs)
    BY <1>0, <2>1 DEF Activations
  <2>4. ctx' = [ctx EXCEPT ![Depth] = a]
    BY <1>4 DEF release, Here
  <2> HIDE DEF a
  <2>5. mie' \in BOOLEAN /\ (mie' <=> mie \/ Here.cs[Len(Here.cs)])
    BY <1>4 DEF release, Last
  <2>6. /\ Depth' = Depth /\ Floor' = Floor /\ Here' = a
        /\ TopOK' => IInv'
    BY <1>4, <2>3, <2>4, <2>5, TopStep DEF release, Types
  <2>7. SectionsOK(a)
    <3>1. SectionsOK(Here) /\ Here.at \in {"main", "run", "handle"}
      BY <1>4 DEF release, TopOK
    <3>2. /\ a.cs # <<>> => a.at \in {"main", "run", "handle", "panic", "latch"}
          /\ a.at # "latch"
      BY <2>3, <3>1
    <3>3. ASSUME NEW i \in 1 .. Len(a.cs), a.cs[i]
          PROVE  a.at \in Open \cup {"latch"} /\ (~PollInCs => i = 1)
      <4>1. i \in 1 .. Len(Here.cs) /\ a.cs[i] = Here.cs[i]
        BY <1>0, <2>1, <2>2, <2>3
      <4> QED BY <2>3, <3>1, <3>3, <4>1 DEF SectionsOK
    <3> QED BY <3>2, <3>3 DEF SectionsOK
  <2>8. ASSUME mie' PROVE Interruptible(a, Depth)
    <3>1. /\ SectionsOK(Here) /\ RankOK(Here, Depth)
          /\ mie => Interruptible(Here, Depth)
      BY DEF TopOK
    <3>2. Here.at = "run"
      BY <1>0, <1>4, <2>5, <2>8, <3>1 DEF release, SectionsOK, Interruptible, Open
    <3>3. ~PollInCs => a.cs = <<>>
      BY <1>0, <1>4, <2>1, <2>3, <2>5, <2>8, <3>1 DEF release, SectionsOK, Interruptible
    <3> QED BY <2>3, <3>1, <3>2, <3>3 DEF Interruptible, RankOK, Open
  <2>9. TopOK'
    BY <1>4, <2>3, <2>6, <2>7, <2>8
       DEF release, TopOK, SectionsOK, PlaceOK, RankOK, Interruptible, Leaving
  <2> QED BY <2>6, <2>9
<1>5. CASE PollDisable
  <2>1. "latch" \in Places /\ mie' \in BOOLEAN /\ ~mie'
    BY <1>5, Zenon DEF Places, PollDisable
  <2>2. /\ Depth' = Depth /\ Floor' = Floor /\ Here'.at = "latch" /\ Here'.cs = Here.cs
        /\ Here'.kind = Here.kind /\ Here'.prio = Here.prio
        /\ TopOK' => IInv'
    BY <1>5, <2>1, GotoStep DEF PollDisable, Types
  <2>3. TopOK'
    BY <1>0, <1>5, <2>1, <2>2
       DEF PollDisable, TopOK, PlaceOK, RankOK, SectionsOK, Interruptible, Leaving, Places
  <2> QED BY <2>2, <2>3
<1>6. CASE PollEnable
  <2>1. "run" \in Places /\ mie' \in BOOLEAN
    BY <1>6, Zenon DEF Places, PollEnable
  <2>2. /\ Depth' = Depth /\ Floor' = Floor /\ Here'.at = "run" /\ Here'.cs = Here.cs
        /\ Here'.kind = Here.kind /\ Here'.prio = Here.prio
        /\ TopOK' => IInv'
    BY <1>6, <2>1, GotoStep DEF PollEnable, Types
  <2>3. TopOK'
    BY <1>0, <1>6, <2>2
       DEF PollEnable, TopOK, PlaceOK, RankOK, SectionsOK,
           Interruptible, Leaving, Open, Places
  <2> QED BY <2>2, <2>3
<1> QED BY <1>1, <1>2, <1>3, <1>4, <1>5, <1>6 DEF Code

(* The handlers run masked, but for Executor::run; a panic stays in the    *)
(* state it finds.                                                         *)
LEMMA HandlerInv ==
  ASSUME IInv, Handled \/ Soft \/ Panic
  PROVE  IInv'
<1> USE DEF IInv
<1>0. /\ Depth \in Nat \ {0} /\ Here \in Activations /\ Here.cs \in Seq(BOOLEAN)
      /\ Here.at \in Places /\ Here.prio \in 0 .. N /\ Floor \in Int
      /\ N \in Nat /\ Locals \in Nat
  BY HereTypes
<1>1. CASE Handled
  <2>1. "ret" \in Places
    BY DEF Places
  <2>2. /\ Depth' = Depth /\ Frame' = Frame /\ Floor' = Floor
        /\ Here'.at = "ret" /\ Here'.cs = Here.cs
        /\ Here'.kind = Here.kind /\ Here'.prio = Here.prio
        /\ TopOK' => IInv'
    BY <1>0, <1>1, <2>1, GotoStep DEF Handled, csrs, Types
  <2>3. TopOK'
    BY <1>0, <1>1, <2>1, <2>2
       DEF Handled, csrs, TopOK, PlaceOK, RankOK, SectionsOK,
           Interruptible, Leaving, Open, Places
  <2> QED BY <2>2, <2>3
<1>2. CASE NoMore
  <2>1. "ret" \in Places
    BY DEF Places
  <2>2. /\ Depth' = Depth /\ Frame' = Frame /\ Floor' = Floor
        /\ Here'.at = "ret" /\ Here'.cs = Here.cs
        /\ Here'.kind = Here.kind /\ Here'.prio = Here.prio
        /\ TopOK' => IInv'
    BY <1>0, <1>2, <2>1, GotoStep DEF NoMore, csrs, Types
  <2>3. TopOK'
    BY <1>0, <1>2, <2>1, <2>2
       DEF NoMore, csrs, TopOK, PlaceOK, RankOK, SectionsOK,
           Interruptible, Leaving, Open, Places
  <2> QED BY <2>2, <2>3
<1>3. CASE Panic
  <2>1. "panic" \in Places
    BY DEF Places
  <2>2. /\ Depth' = Depth /\ Frame' = Frame /\ Floor' = Floor
        /\ Here'.at = "panic" /\ Here'.cs = Here.cs
        /\ Here'.kind = Here.kind /\ Here'.prio = Here.prio
        /\ TopOK' => IInv'
    BY <1>3, <2>1, GotoStep DEF Panic, csrs, Types
  <2>3. TopOK'
    BY <1>0, <1>3, <2>1, <2>2
       DEF Panic, csrs, TopOK, PlaceOK, RankOK, SectionsOK,
           Interruptible, Leaving, Open, Places, Rust
  <2> QED BY <2>2, <2>3
<1>4. CASE clear_pend
  <2> SUFFICES ASSUME NEW l \in {"sched", "ret"}, Goto(l)
               PROVE  IInv'
    BY <1>4 DEF clear_pend
  <2>1. l \in Places
    BY DEF Places
  <2>2. /\ Depth' = Depth /\ Frame' = Frame /\ Floor' = Floor
        /\ Here'.at = l /\ Here'.cs = Here.cs
        /\ Here'.kind = Here.kind /\ Here'.prio = Here.prio
        /\ TopOK' => IInv'
    BY <1>0, <1>4, <2>1, GotoStep DEF clear_pend, csrs, Types
  <2>3. TopOK'
    BY <1>0, <1>4, <2>1, <2>2
       DEF clear_pend, csrs, TopOK, PlaceOK, RankOK, SectionsOK,
           Interruptible, Leaving, Open, Places
  <2> QED BY <2>2, <2>3
<1>5. ASSUME NEW p \in 0 .. N - 1, try_preempt(p) PROVE IInv'
  <2> DEFINE a == [Here EXCEPT !.at = "run", !.prio = p]
  <2>0. p \in 0 .. N
    BY NAssumption
  <2>1. /\ a \in Activations /\ a.kind = Here.kind /\ a.at = "run" /\ a.cs = Here.cs
        /\ a.prio = p
    BY <1>0, <2>0 DEF Activations, Places
  <2>2. ctx' = [ctx EXCEPT ![Depth] = a]
    BY <1>0, <1>5 DEF try_preempt, Here, Types, Depth
  <2> HIDE DEF a
  <2>3. mie' \in BOOLEAN
    BY <1>5, Zenon DEF try_preempt
  <2>4. /\ Depth' = Depth /\ Floor' = Floor /\ Here' = a
        /\ TopOK' => IInv'
    BY <1>5, <2>1, <2>2, <2>3, TopStep DEF try_preempt, Types
  <2>5. /\ Here.at = "sched" /\ p < Here.prio /\ PlaceOK(Here, Depth)
        /\ RankOK(Here, Depth) /\ SectionsOK(Here) /\ sp <= Floor /\ Floor - Locals <= sp
    BY <1>5 DEF try_preempt, TopOK
  <2>6. PlaceOK(a, Depth) /\ SectionsOK(a) /\ a.cs = <<>>
    BY <1>0, <2>1, <2>5 DEF PlaceOK, SectionsOK, Places, Open
  <2>7. a.prio + Depth <= N + 1
    BY <1>0, <2>0, <2>1, <2>5 DEF PlaceOK, RankOK
  <2>8. RankOK(a, Depth) /\ Interruptible(a, Depth)
    BY <1>0, <2>0, <2>1, <2>6, <2>7 DEF RankOK, Interruptible, Open
  <2>9. TopOK'
    BY <1>5, <2>1, <2>4, <2>5, <2>6, <2>8
       DEF try_preempt, TopOK, PlaceOK, RankOK, SectionsOK, Interruptible, Leaving
  <2> QED BY <2>4, <2>9
<1>6. CASE RunReturns
  <2> DEFINE a == [Here EXCEPT !.at = "sched", !.prio = Below.prio]
  <2>1. Depth > 1
    BY <1>0, <1>6 DEF RunReturns, TopOK, PlaceOK
  <2>2. /\ a \in Activations /\ a.kind = Here.kind /\ a.at = "sched" /\ a.cs = Here.cs
        /\ a.prio = Below.prio
    BY <1>0, <2>1, HereTypes DEF Activations, Places
  <2>3. ctx' = [ctx EXCEPT ![Depth] = a]
    BY <1>0, <1>6 DEF RunReturns, Here, Types, Depth
  <2> HIDE DEF a
  <2>4. mie' \in BOOLEAN /\ ~mie'
    BY <1>6, Zenon DEF RunReturns
  <2>5. /\ Depth' = Depth /\ Floor' = Floor /\ Here' = a
        /\ TopOK' => IInv'
    BY <1>0, <1>6, <2>2, <2>3, <2>4, TopStep DEF RunReturns, Types
  <2>6. Here.at = "run" /\ Here.cs = <<>> /\ PlaceOK(Here, Depth)
    BY <1>6 DEF RunReturns, TopOK
  <2>7. Here.kind \in Causes
    BY <2>1, <2>6, HereTypes DEF PlaceOK
  <2>8. Below.prio + (Depth - 1) <= N + 1
    BY <1>0, <2>1, <2>7 DEF StackOK, Interruptible, Here, Below
  <2>9. Below.prio \in 0 .. N
    BY <2>1, HereTypes
  <2>10. PlaceOK(a, Depth) /\ RankOK(a, Depth) /\ SectionsOK(a)
    BY <1>0, <2>2, <2>6, <2>7, <2>8, <2>9
       DEF PlaceOK, RankOK, SectionsOK, Places, Causes
  <2>11. TopOK'
    BY <1>0, <1>6, <2>2, <2>4, <2>5, <2>10
       DEF RunReturns, TopOK, PlaceOK, RankOK, SectionsOK, Leaving
  <2> QED BY <2>5, <2>11
<1> QED BY <1>1, <1>2, <1>3, <1>4, <1>5, <1>6 DEF Soft

(* The frame of the executing handler. *)
LEMMA FrameFacts ==
  ASSUME IInv, Depth > 1
  PROVE  /\ Frame = frames[Depth - 1] /\ Frame \in FramesInt
         /\ Frame.mie \in BOOLEAN /\ Frame.mpie \in BOOLEAN /\ Frame.mepc \in Nat
         /\ Frame.x \in Int /\ Frame.t0 \in Int /\ Frame.sp \in Int /\ Frame.base \in Int
         /\ FrameOK(Frame, Depth - 1) /\ Floor = Frame.base
<1> USE DEF IInv
<1>1. Depth \in Nat \ {0} /\ Len(frames) = Depth - 1
  BY HereTypes DEF StackOK
<1>2. Frame = frames[Depth - 1] /\ frames # <<>>
  BY <1>1 DEF Frame, Last
<1>3. Frame \in FramesInt
  BY <1>1, <1>2 DEF Types
<1>4. FrameOK(Frame, Depth - 1)
  BY <1>1, <1>2 DEF StackOK
<1>5. Floor = Frame.base
  BY <1>1, <1>2 DEF Floor
<1> QED BY <1>2, <1>3, <1>4, <1>5 DEF FramesInt

(* The way out: nothing interrupts it, since MIE is off and stays off.     *)
LEMMA RestoreInv ==
  ASSUME IInv, RestoreMepc \/ RestoreMstatus \/ RestoreRegs
  PROVE  IInv'
<1> USE DEF IInv
<1>0. /\ Depth \in Nat \ {0} /\ Here \in Activations /\ Here.cs \in Seq(BOOLEAN)
      /\ Here.at \in Places /\ Here.prio \in 0 .. N /\ Floor \in Int
      /\ N \in Nat /\ Locals \in Nat
  BY HereTypes
<1>deep. Depth > 1
  BY <1>0 DEF RestoreMepc, RestoreMstatus, RestoreRegs, TopOK, PlaceOK
<1>1. CASE RestoreMepc
  <2>1. "csr_mepc" \in Places /\ mepc' \in Nat /\ regs' \in [Regs -> Int]
    BY <1>1, <1>deep, FrameFacts, StackAssumption DEF Places, RestoreMepc, Types, Regs
  <2>2. /\ Depth' = Depth /\ Frame' = Frame /\ Floor' = Floor
        /\ Here'.at = "csr_mepc" /\ Here'.cs = Here.cs
        /\ Here'.kind = Here.kind /\ Here'.prio = Here.prio
        /\ TopOK' => IInv'
    BY <1>1, <2>1, GotoStep DEF RestoreMepc, Types
  <2>3. TopOK'
    BY <1>0, <1>1, <2>1, <2>2, <1>deep, FrameFacts
       DEF RestoreMepc, FrameOK, TopOK, PlaceOK, RankOK, SectionsOK,
           Interruptible, Leaving, Open, Places
  <2> QED BY <2>2, <2>3
<1>2. CASE RestoreMstatus
  <2>1. /\ "csr_mstatus" \in Places /\ mie' \in BOOLEAN /\ mpie' \in BOOLEAN
        /\ ~mie' /\ (mpie' <=> Frame.mpie)
    BY <1>2, <1>deep, FrameFacts DEF Places, RestoreMstatus, FrameOK
  <2>2. /\ Depth' = Depth /\ Frame' = Frame /\ Floor' = Floor
        /\ Here'.at = "csr_mstatus" /\ Here'.cs = Here.cs
        /\ Here'.kind = Here.kind /\ Here'.prio = Here.prio
        /\ TopOK' => IInv'
    BY <1>2, <2>1, GotoStep DEF RestoreMstatus, Types
  <2>3. TopOK'
    BY <1>0, <1>2, <2>1, <2>2, <1>deep, FrameFacts
       DEF RestoreMstatus, TopOK, PlaceOK, RankOK, SectionsOK,
           Interruptible, Leaving, Open, Places
  <2> QED BY <2>2, <2>3
<1>3. CASE RestoreRegs
  <2>1. "mret" \in Places /\ sp' \in Int /\ regs' \in [Regs -> Int]
    BY <1>3, <1>deep, FrameFacts DEF Places, RestoreRegs, Types, Regs
  <2>2. /\ Depth' = Depth /\ Frame' = Frame /\ Floor' = Floor
        /\ Here'.at = "mret" /\ Here'.cs = Here.cs
        /\ Here'.kind = Here.kind /\ Here'.prio = Here.prio
        /\ TopOK' => IInv'
    BY <1>3, <2>1, GotoStep DEF RestoreRegs, csrs, Types
  <2>low. sp' = Frame.sp /\ Floor - Locals <= sp'
    BY <1>0, <1>3, <1>deep, FrameFacts DEF RestoreRegs, FrameOK
  <2>3. TopOK'
    BY <1>0, <1>3, <2>1, <2>2, <2>low
       DEF RestoreRegs, csrs, TopOK, PlaceOK, RankOK, SectionsOK,
           Interruptible, Leaving, Open, Places
  <2> QED BY <2>2, <2>3
<1> QED BY <1>1, <1>2, <1>3

(* What the base of a frame is, for any stack pointer. *)
LEMMA FrameBaseFacts ==
  ASSUME NEW q \in Int
  PROVE  /\ FrameBase(q) \in Int /\ FrameBase(q) % 2 = 0
         /\ FrameBase(q) + 32 < q /\ q - 35 <= FrameBase(q)
  BY DEF FrameBase

(* Entering a trap, from code that is not on its way out of one.           *)
LEMMA EnterInv ==
  ASSUME IInv, NEW act \in Activations, Enter(act), act.cs = <<>>,
         act.at \in {"hook", "handle", "panic"},
         act.kind \in Causes => Interruptible(Here, Depth),
         act.kind = "exception" => act.at = "panic" /\ Here.kind # "exception",
         act.kind # "thread", act.prio = Here.prio,
         Here.at \notin Leaving, Here.at # "reset"
  PROVE  IInv'
<1> USE DEF IInv
<1> DEFINE f == SavedFrame
<1>0. /\ Depth \in Nat \ {0} /\ Floor \in Int /\ Here.prio \in 0 .. N
      /\ N \in Nat /\ Locals \in Nat /\ StackTop \in Nat
  BY HereTypes, StackAssumption
<1>1. /\ ctx' = Append(ctx, act) /\ ctx' \in Seq(Activations) /\ Depth' = Depth + 1
      /\ Here' = act /\ ctx'[Depth] = Here /\ ctx'[Depth + 1] = act
      /\ \A d \in 1 .. Depth : ctx'[d] = ctx[d]
  BY DEF Types, Enter, Depth, Here
<1>2. /\ FrameBase(sp) \in Int /\ FrameBase(sp) % 2 = 0 /\ FrameBase(sp) + 32 < sp
      /\ sp - 35 <= FrameBase(sp)
  BY FrameBaseFacts DEF Types
<1>3. f \in FramesInt
  BY <1>0, <1>2 DEF Types, SavedFrame, SavedSp, FramesInt, Saved, Regs
<1>4. /\ f.base = FrameBase(sp) /\ f.mepc = Depth /\ ~f.mie /\ (f.mpie <=> mie)
      /\ f.x = f.was.x /\ f.sp = sp /\ f.was.sp = sp /\ (f.was.mie <=> mie)
  BY DEF SavedFrame, SavedSp
<1>5. frames' = Append(frames, f)
  BY DEF Enter
<1> HIDE DEF f
<1>6. /\ frames' \in Seq(FramesInt) /\ Len(frames') = Depth /\ frames'[Depth] = f
      /\ \A k \in 1 .. Depth - 1 : frames'[k] = frames[k]
  BY <1>0, <1>3, <1>5 DEF StackOK, Types
<1>7. mie' \in BOOLEAN /\ ~mie' /\ mpie' \in BOOLEAN
  BY Zenon DEF Enter, Types
<1>8. regs' \in [Regs -> Int] /\ sp' = FrameBase(sp) /\ mepc' \in Nat
  <2>1. regs \in [Regs -> Int] /\ regs' = [regs EXCEPT !["t0"] = 0]
    BY DEF Enter, Types
  <2>2. regs' = [r \in Regs |-> IF r = "t0" THEN 0 ELSE regs[r]]
    BY <2>1, Zenon
  <2>3. \A r \in Regs : (IF r = "t0" THEN 0 ELSE regs[r]) \in Int
    BY <2>1
  <2>4. regs' \in [Regs -> Int]
    BY <2>2, <2>3, Zenon
  <2> QED BY <1>0, <2>4 DEF Enter
<1>9. Types'
  BY <1>0, <1>1, <1>2, <1>6, <1>7, <1>8 DEF Types
<1>10. Floor - Locals <= sp /\ sp <= Floor
  BY DEF TopOK, Leaving
<1>11. StackOK'
  <2>1. Len(frames') = Depth' - 1 /\ 1 .. Depth' - 1 = 1 .. Depth
    BY <1>0, <1>1, <1>6
  <2> SUFFICES ASSUME NEW d \in 1 .. Depth
               PROVE  /\ PlaceOK(ctx'[d], d) /\ RankOK(ctx'[d], d) /\ SectionsOK(ctx'[d])
                      /\ ctx'[d].at \notin Leaving
                      /\ ctx'[d + 1].kind \in Causes => Interruptible(ctx'[d], d)
                      /\ FrameOK(frames[d], d)'
    BY <2>1 DEF StackOK, PlaceOK, RankOK, SectionsOK, Interruptible, FrameOK
  <2>2. CASE d = Depth
    <3>1. /\ PlaceOK(ctx'[d], d) /\ RankOK(ctx'[d], d) /\ SectionsOK(ctx'[d])
          /\ ctx'[d].at \notin Leaving
          /\ ctx'[d + 1].kind \in Causes => Interruptible(ctx'[d], d)
      BY <1>1, <2>2 DEF TopOK
    <3>2. mie => Interruptible(ctx'[d], d)
      BY <1>1, <2>2 DEF TopOK
    <3>3. Floor = IF d = 1 THEN StackTop ELSE frames'[d - 1].base
      BY <1>0, <1>6, <2>2 DEF Floor, StackOK, Types
    <3>4. frames'[d] = f
      BY <1>6, <2>2
    <3>5. f.base >= Lowest(d)
      <4>1. Floor >= Lowest(d - 1)
        <5>1. CASE d = 1
          BY <1>0, <3>3, <5>1 DEF Lowest
        <5>2. CASE d # 1
          BY <1>0, <1>6, <2>2, <3>3, <5>2 DEF StackOK, FrameOK
        <5> QED BY <5>1, <5>2
      <4>2. Lowest(d - 1) \in Int /\ Lowest(d) = Lowest(d - 1) - 35 - Locals
        BY <1>0 DEF Lowest
      <4> QED BY <1>0, <1>2, <1>4, <1>10, <4>1, <4>2 DEF Types
    <3>6. FrameOK(frames[d], d)'
      BY <1>2, <1>4, <1>10, <2>2, <3>2, <3>3, <3>4, <3>5 DEF FrameOK, Interruptible
    <3> QED BY <3>1, <3>6
  <2>3. CASE d # Depth
    <3>0. d \in 1 .. Depth - 1 /\ d + 1 \in 1 .. Depth
      BY <1>0, <2>3
    <3>1. d \in 1 .. Depth - 1 /\ ctx'[d] = ctx[d] /\ ctx'[d + 1] = ctx[d + 1]
      BY <1>1, <3>0
    <3>2. frames'[d] = frames[d] /\ (d # 1 => frames'[d - 1] = frames[d - 1])
      BY <1>0, <1>6, <3>0
    <3>3. FrameOK(frames[d], d)'
      BY <3>1, <3>2 DEF StackOK, FrameOK, Interruptible
    <3> QED BY <3>1, <3>3 DEF StackOK
  <2> QED BY <2>2, <2>3
<1>12. Floor' = sp'
  BY <1>0, <1>4, <1>6, <1>8 DEF Floor
<1>13. TopOK'
  <2>1. PlaceOK(Here, Depth)' /\ SectionsOK(Here)'
    BY <1>0, <1>1 DEF PlaceOK, SectionsOK, Places
  <2>2. act.kind \in Causes \cup {"exception"}
    BY DEF Activations
  <2>3. RankOK(act, Depth + 1)
    BY <1>0, <2>2 DEF TopOK, RankOK, Interruptible
  <2>4. RankOK(Here, Depth)'
    BY <1>1, <2>3 DEF RankOK
  <2>5. Here'.at \notin Leaving /\ sp' <= Floor' /\ Floor' - Locals <= sp'
    BY <1>0, <1>1, <1>2, <1>8, <1>12 DEF Leaving
  <2> QED BY <1>7, <2>1, <2>4, <2>5 DEF TopOK, Leaving
<1> QED BY <1>9, <1>11, <1>13

(* mret: the activation below goes on, with the mask it had. *)
LEMMA MretInv ==
  ASSUME IInv, Mret
  PROVE  IInv'
<1> USE DEF IInv
<1>0. Depth \in Nat \ {0} /\ Depth > 1
  BY HereTypes DEF Mret, TopOK, PlaceOK
<1>1. /\ mepc = Depth - 1 /\ (mpie <=> Frame.mpie) /\ sp = Frame.sp
  BY DEF Mret, TopOK, Leaving
<1>2. /\ ctx' \in Seq(Activations) /\ Depth' = Depth - 1
      /\ \A d \in 1 .. Depth - 1 : ctx'[d] = ctx[d]
  BY <1>0, <1>1 DEF Mret, Types, Depth
<1>3. /\ frames' \in Seq(FramesInt) /\ Len(frames') = Depth - 2
      /\ \A k \in 1 .. Depth - 2 : frames'[k] = frames[k]
  BY <1>0 DEF Mret, Front, Types, StackOK
<1>4. mie' \in BOOLEAN /\ mpie' \in BOOLEAN /\ (mie' <=> mpie)
  BY Zenon DEF Mret, Types
<1>5. Types'
  BY <1>0, <1>2, <1>3, <1>4 DEF Types, Mret
<1>6. StackOK'
  <2>1. Len(frames') = Depth' - 1 /\ 1 .. Depth' - 1 = 1 .. Depth - 2
    BY <1>0, <1>2, <1>3
  <2> SUFFICES ASSUME NEW d \in 1 .. Depth - 2
               PROVE  /\ PlaceOK(ctx'[d], d) /\ RankOK(ctx'[d], d) /\ SectionsOK(ctx'[d])
                      /\ ctx'[d].at \notin Leaving
                      /\ ctx'[d + 1].kind \in Causes => Interruptible(ctx'[d], d)
                      /\ FrameOK(frames[d], d)'
    BY <2>1 DEF StackOK, PlaceOK, RankOK, SectionsOK, Interruptible, FrameOK
  <2>2. d \in 1 .. Depth - 1 /\ ctx'[d] = ctx[d] /\ ctx'[d + 1] = ctx[d + 1]
    BY <1>0, <1>2
  <2>3. frames'[d] = frames[d] /\ (d # 1 => frames'[d - 1] = frames[d - 1])
    BY <1>0, <1>3
  <2>4. FrameOK(frames[d], d)'
    BY <2>2, <2>3 DEF StackOK, FrameOK, Interruptible
  <2> QED BY <2>2, <2>4 DEF StackOK
<1>7. Here' = Below
  BY <1>0, <1>2 DEF Here, Below
<1>8. /\ PlaceOK(Below, Depth - 1) /\ RankOK(Below, Depth - 1) /\ SectionsOK(Below)
      /\ Below.at \notin Leaving
  BY <1>0 DEF StackOK, Below
<1>9. Frame.mpie => Interruptible(Below, Depth - 1)
  BY <1>0, FrameFacts DEF FrameOK, Below
<1>10. sp <= Floor' /\ Floor' - Locals <= sp
  <2>1. LET top == IF Depth - 1 = 1 THEN StackTop ELSE frames[Depth - 2].base
        IN  sp <= top /\ top - Locals <= sp
    BY <1>0, <1>1, FrameFacts DEF FrameOK
  <2> QED BY <1>0, <1>3, <2>1 DEF Floor
<1>11. TopOK'
  <2>1. PlaceOK(Here, Depth)' /\ RankOK(Here, Depth)' /\ SectionsOK(Here)'
    BY <1>2, <1>7, <1>8 DEF PlaceOK, RankOK, SectionsOK
  <2>2. mie' => Interruptible(Here, Depth)'
    BY <1>1, <1>2, <1>4, <1>7, <1>9 DEF Interruptible
  <2>3. sp' = sp /\ Here'.at \notin Leaving
    BY <1>7, <1>8 DEF Mret
  <2> QED BY <1>10, <2>1, <2>2, <2>3 DEF TopOK, Leaving
<1> QED BY <1>5, <1>6, <1>11

(* Every step keeps the invariant. *)
LEMMA NextInv == IInv /\ [Next]_vars => IInv'
<1> SUFFICES ASSUME IInv, [Next]_vars PROVE IInv'
  OBVIOUS
<1>0. Here.prio \in 0 .. N
  BY HereTypes
<1>1. ASSUME NEW c \in Causes, Interrupt(c) PROVE IInv'
  <2> DEFINE act == Activation(c, trap_handler(c), Here.prio)
  <2>1. trap_handler(c) \in {"hook", "handle"}
    BY DEF trap_handler, Causes
  <2>2. act \in Activations /\ act.cs = <<>> /\ act.at = trap_handler(c)
        /\ act.kind = c /\ act.prio = Here.prio
    BY <1>0, <2>1 DEF Activation, Activations, Places
  <2>3. Interruptible(Here, Depth)
    BY <1>1 DEF Interrupt, IInv, TopOK
  <2>4. Here.at \notin Leaving /\ Here.at # "reset"
    BY <2>3 DEF Interruptible, Open, Leaving
  <2>5. Enter(act)
    BY <1>1 DEF Interrupt
  <2> HIDE DEF act
  <2> QED BY <2>1, <2>2, <2>3, <2>4, <2>5, EnterInv DEF Causes
<1>2. ASSUME Exception PROVE IInv'
  <2> DEFINE act == Activation("exception", trap_handler("exception"), Here.prio)
  <2>1. trap_handler("exception") = "panic"
    BY DEF trap_handler, Causes
  <2>2. /\ act \in Activations /\ act.cs = <<>> /\ act.at = "panic"
        /\ act.kind = "exception" /\ act.kind \notin Causes /\ act.prio = Here.prio
    BY <1>0, <2>1 DEF Activation, Activations, Places, Causes
  <2>3. /\ Here.at \notin Leaving /\ Here.at # "reset" /\ Here.kind # "exception"
        /\ Enter(act)
    BY <1>2 DEF Exception, Rust, Leaving, IInv, TopOK, PlaceOK
  <2> HIDE DEF act
  <2> QED BY <2>2, <2>3, EnterInv
<1>3. CASE Return
  BY <1>3, RestoreInv, MretInv DEF Return
<1>4. CASE Spin \/ UNCHANGED vars
  BY <1>4, StutterInv DEF Spin
<1> QED BY <1>1, <1>2, <1>3, <1>4, StartupInv, CodeInv, HandlerInv DEF Next

-------------------------------------------------------------------------------
(* Whoever masks interrupts, be it main(), a handler, a critical section,  *)
(* a registration or the way out of __trap_entry, is not interrupted, in   *)
(* any nesting of traps, as long as no latch is polled inside a critical   *)
(* section.                                                                *)
THEOREM MaskedUndisturbedAlways ==
  ASSUME ~PollInCs
  PROVE  Spec => []MaskedUndisturbed
<1>1. IInv => MaskedUndisturbed
  BY DEF IInv, StackOK, Interruptible, MaskedUndisturbed
<1> QED BY <1>1, InitInv, NextInv, PTL DEF Spec

(* The frames __trap_entry lays down are aligned and overlap neither each  *)
(* other nor the stack of the code they interrupt, wherever sp is.         *)
THEOREM FramesDisjointAlways == Spec => []FramesDisjoint
<1>1. IInv => FramesDisjoint
  BY DEF IInv, StackOK, FrameOK, FramesDisjoint
<1> QED BY <1>1, InitInv, NextInv, PTL DEF Spec

(* However traps nest, the stack holds at most N + 2 frames, the last of   *)
(* them for an exception, within the words StackBounded counts.            *)
THEOREM StackBoundedAlways == Spec => []StackBounded
<1>1. IInv => StackBounded
  <2> SUFFICES ASSUME IInv PROVE StackBounded
    OBVIOUS
  <2>1. Depth \in Nat /\ Here.prio \in 0 .. N /\ N \in Nat
    BY HereTypes
  <2>2. Depth <= N + 3
    BY <2>1 DEF IInv, TopOK, RankOK
  <2> QED BY <2>2 DEF StackBounded, IInv, StackOK, FrameOK, Lowest
<1> QED BY <1>1, InitInv, NextInv, PTL DEF Spec

(* Every mret goes back to the interrupted code with its stack pointer,    *)
(* its mask and its registers but t0.                                      *)
THEOREM ContextRestoredAlways == Spec => ContextRestored
<1> DEFINE Restored ==
      Len(frames') < Len(frames) =>
        /\ Len(ctx') = Depth - 1
        /\ regs'["x"] = Frame.was.x /\ sp' = Frame.was.sp /\ mie' = Frame.was.mie
<1>1. IInv /\ [Next]_vars => [Restored]_vars
  <2> SUFFICES ASSUME IInv, Next, Len(frames') < Len(frames)
               PROVE  Restored
    OBVIOUS
  <2>1. Depth \in Nat \ {0} /\ frames \in Seq(FramesInt)
    BY HereTypes DEF IInv, Types
  <2>2. ASSUME NEW act, Enter(act) PROVE FALSE
    BY <2>1, <2>2 DEF Enter
  <2>3. frames' # frames
    BY <2>1
  <2>4. CASE Mret
    <3>1. Depth > 1
      BY <2>1, <2>4 DEF IInv, Mret, TopOK, PlaceOK
    <3>2. Len(ctx') = Depth - 1
      BY <2>1, <2>4 DEF IInv, Mret, TopOK, Types, Leaving, Depth
    <3>3. regs'["x"] = Frame.was.x /\ sp' = Frame.was.sp
      BY <2>4, <3>1, FrameFacts DEF IInv, Mret, TopOK, FrameOK
    <3>4. mie' = Frame.was.mie
      <4>1. Frame.was.mie \in BOOLEAN /\ mpie \in BOOLEAN
        BY <3>1, FrameFacts DEF IInv, Types, FramesInt, Saved
      <4>2. mpie <=> Frame.was.mie
        BY <2>4, <3>1, FrameFacts DEF IInv, Mret, TopOK, FrameOK
      <4> QED BY <2>4, <4>1, <4>2 DEF Mret
    <3> QED BY <3>2, <3>3, <3>4
  <2> QED
    <3>1. ~Startup /\ ~Code /\ ~Handled /\ ~Soft /\ ~Panic /\ ~Spin
      BY <2>3 DEF Startup, __start, init, start, idle, Code, Compute, pend, acquire,
           release, PollDisable, PollEnable, Handled, Soft, clear_pend, RunReturns,
           NoMore, try_preempt, Panic, Spin, vars
    <3>2. ~Exception /\ \A c \in Causes : ~Interrupt(c) /\ ~Raise(c)
      BY <2>2, <2>3 DEF Exception, Interrupt, Raise
    <3>3. ~RestoreMepc /\ ~RestoreMstatus /\ ~RestoreRegs
      BY <2>3 DEF RestoreMepc, RestoreMstatus, RestoreRegs
    <3> QED BY <2>4, <3>1, <3>2, <3>3 DEF Next, Return
<1> QED BY <1>1, InitInv, NextInv, PTL DEF Spec, ContextRestored
===============================================================================
