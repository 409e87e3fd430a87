----------------------------- MODULE Kernel_proofs -----------------------------
(* What the scheduling core guarantees for any number of priorities and    *)
(* tasks, in six parts:                                                    *)
(*   1. types and the priority stack            TypeCorrect,               *)
(*                                              StackAlwaysSorted          *)
(*   2. the ready bitmap and the pending MSI    ReadyBitsAlways,           *)
(*                                              NoLostReadyAlways          *)
(*   3. the run queues and the wakes            LinkedOnceAlways,          *)
(*                                              NoLostWakeAlways           *)
(*   4. the life of a task                      PollsLiveFutureAlways,     *)
(*                                              LiveTaskWakeableAlways,    *)
(*                                              CompletedTaskInertAlways   *)
(*   5. awaiting a task                         ResultAlwaysReachesJoiner  *)
(*   6. waking the joiner                       JoinerNeverStranded        *)
(* Parts 1 to 3 hold for every application, parts 4 to 6 for those that    *)
(* keep to Disciplined, OneJoiner and JoinsDown.  The inductive invariants *)
(* and these disciplines are in KernelInv.                                 *)
EXTENDS KernelInv, TLAPS, WellFoundedInduction, SequenceTheorems, FiniteSetTheorems

(* A non-empty set of naturals has the minimum that Min chooses. *)
LEMMA MinNat ==
  ASSUME NEW S \in SUBSET Nat, S # {}
  PROVE  Min(S) \in S /\ \A y \in S : Min(S) <= y
<1>1. PICK x \in S : \A y \in S : ~ (<<y, x>> \in OpToRel(<, Nat))
  BY NatLessThanWellFounded, WFMin
<1>2. ASSUME NEW y \in S PROVE x <= y
  <2>1. x \in Nat /\ y \in Nat
    OBVIOUS
  <2>2. y < x => <<y, x>> \in OpToRel(<, Nat)
    BY <2>1 DEF OpToRel
  <2>3. ~(y < x)
    BY <1>1, <2>2, Zenon
  <2> QED BY <2>1, <2>3
<1> QED BY <1>2 DEF Min

(* Part 1.  Types and the priority stack.                                  *)

(* Init has no frame and an empty stack. *)
LEMMA InitInv == Init => IInv
<1> SUFFICES ASSUME Init PROVE IInv
  OBVIOUS
<1>1. SlotType
  BY DEF Init, SlotType
<1>2. QueueType
  BY DEF Init, QueueType
<1>3. JoinType
  BY DEF Init, JoinType
<1>4. PendingType
  BY DEF Init, PendingType
<1>5. FrameType
  BY DEF Init, FrameType, PC
<1>6. FrameOK
  BY DEF Init, FrameOK, InWake, InSpawn
<1>7. StackOK
  BY DEF Init, StackOK, OnStack
<1> QED BY <1>1, <1>2, <1>3, <1>4, <1>5, <1>6, <1>7 DEF IInv, FrameInv

(* What a frame must hold at place l. *)
Holds(l, t, u, q) ==
  /\ l \in PC \ {"off"}
  /\ t \in {NULL} \cup Tasks /\ u \in {NULL} \cup Tasks /\ q \in {NULL} \cup Prio
  /\ l \in InWake \cup InSpawn => u \in Tasks /\ q \in Prio
  /\ l = "j_store" => u \in Tasks
  /\ l \notin {"loop", "returned"} => t \in Tasks

(* A step of one frame that stays on the stack. *)
LEMMA FrameStep ==
  ASSUME FrameInv, NEW p \in Prio, NEW l, NEW t, NEW u, NEW q,
         pc[p] # "off", Holds(l, t, u, q),
         prio_stack' = prio_stack,
         pc' = [pc EXCEPT ![p] = l],
         polling' = [polling EXCEPT ![p] = t],
         arg' = [arg EXCEPT ![p] = u],
         to' = [to EXCEPT ![p] = q]
  PROVE  FrameInv'
<1>1. FrameType'
  BY DEF FrameInv, FrameType, Holds
<1>2. FrameOK'
  BY DEF FrameInv, FrameType, FrameOK, Holds
<1>3. StackOK'
  BY DEF FrameInv, FrameType, StackOK, OnStack, Holds
<1> QED BY <1>1, <1>2, <1>3 DEF FrameInv

(* Goto keeps what the frame holds. *)
LEMMA GotoInv ==
  ASSUME FrameInv, NEW p \in Prio, NEW l, pc[p] # "off",
         Holds(l, polling[p], arg[p], to[p]), Goto(p, l), prio_stack' = prio_stack
  PROVE  FrameInv'
<1>1. /\ polling' = [polling EXCEPT ![p] = polling[p]]
      /\ arg' = [arg EXCEPT ![p] = arg[p]]
      /\ to' = [to EXCEPT ![p] = to[p]]
  BY DEF Goto, FrameInv, FrameType
<1> QED BY <1>1, FrameStep DEF Goto

(* Entering a wake, spawn or join records its task and executor. *)
LEMMA CallInv ==
  ASSUME FrameInv, NEW p \in Prio, NEW l, NEW u, NEW q, pc[p] # "off",
         Holds(l, polling[p], u, q), Call(p, l, u, q), prio_stack' = prio_stack
  PROVE  FrameInv'
<1>1. polling' = [polling EXCEPT ![p] = polling[p]]
  BY DEF Call, FrameInv, FrameType
<1> QED BY <1>1, FrameStep DEF Call

(* Returning to the future forgets them. *)
LEMMA ReturnInv ==
  ASSUME FrameInv, NEW p \in Prio, pc[p] \notin {"off", "loop", "returned"},
         Return(p), prio_stack' = prio_stack
  PROVE  FrameInv'
<1>1. Holds("body", polling[p], NULL, NULL)
  BY DEF Holds, FrameInv, FrameOK, PC, InWake, InSpawn
<1> QED BY <1>1, CallInv DEF Return

(* The end of a poll forgets the task as well. *)
LEMMA EndPollInv ==
  ASSUME FrameInv, NEW p \in Prio, pc[p] # "off", EndPoll(p), prio_stack' = prio_stack
  PROVE  FrameInv'
<1>1. Holds("loop", NULL, NULL, NULL)
  BY DEF Holds, PC, InRun, InWake, InSpawn
<1> QED BY <1>1, FrameStep DEF EndPoll

(* A step of no frame at all. *)
LEMMA IdleInv ==
  ASSUME FrameInv, UNCHANGED <<frame, prio_stack>>
  PROVE  FrameInv'
  BY DEF FrameInv, FrameType, FrameOK, StackOK, OnStack, frame

(* A step that leaves a group of variables alone keeps its type. *)
LEMMA SlotSame == ASSUME SlotType, UNCHANGED slot PROVE SlotType'
  BY DEF SlotType, slot

(* The same for the run queues. *)
LEMMA QueueSame == ASSUME QueueType, UNCHANGED <<queues, owed>> PROVE QueueType'
  BY DEF QueueType, queues

(* The same for the JoinState and the futures. *)
LEMMA JoinSame == ASSUME JoinType, UNCHANGED <<join, app>> PROVE JoinType'
  BY DEF JoinType, join, app

(* The same for the pending interrupt. *)
LEMMA PendingSame == ASSUME PendingType, UNCHANGED <<pending, started>> PROVE PendingType'
  BY DEF PendingType, pending

(* The pieces that actions share. *)
LEMMA PendType == ASSUME PendingType, Pend, UNCHANGED started PROVE PendingType'
  BY DEF PendingType, Pend

(* The closure of Executor::enqueue keeps the types of the queues. *)
LEMMA PushType ==
  ASSUME QueueType, NEW u \in Tasks, NEW q \in Prio, PushTask(u, q),
         run_queued' \subseteq Tasks, owed' \subseteq Tasks
  PROVE  QueueType'
<1>1. run_queue[q] \in Seq(Tasks)
  BY DEF QueueType
<1>2. Append(run_queue[q], u) \in Seq(Tasks)
  BY <1>1
<1>3. run_queue' \in [Prio -> Seq(Tasks)]
  BY <1>2 DEF QueueType, PushTask
<1> QED BY <1>3 DEF QueueType, PushTask

(* So does wake_task with interrupts off. *)
LEMMA WakeNowType ==
  ASSUME QueueType, PendingType, NEW u \in Tasks, WakeNow(u), UNCHANGED started
  PROVE  QueueType' /\ PendingType'
<1>1. owed' \subseteq Tasks
  BY DEF WakeNow, QueueType
<1>2. CASE executor_ptr[u] # NULL /\ FirstEnqueue(u)
  <2>1. executor_ptr[u] \in Prio
    BY <1>2 DEF QueueType
  <2>2. PushTask(u, executor_ptr[u]) /\ Pend /\ run_queued' \subseteq Tasks
    BY <1>2 DEF WakeNow, QueueType
  <2> QED BY <1>1, <2>1, <2>2, PushType, PendType
<1>3. CASE ~(executor_ptr[u] # NULL /\ FirstEnqueue(u))
  <2>1. UNCHANGED <<queues, pending>>
    BY <1>3 DEF WakeNow
  <2> QED BY <1>1, <2>1, PendingSame DEF QueueType, queues
<1> QED BY <1>2, <1>3

(* What the frame at l holds, read off FrameOK. *)
LEMMA AtHolds ==
  ASSUME FrameInv, NEW p \in Prio, NEW l, At(p, l), l # "off"
  PROVE  /\ pc[p] = l /\ Holds(l, polling[p], arg[p], to[p])
         /\ l \notin {"loop", "returned"} => polling[p] \in Tasks
  BY DEF At, FrameInv, FrameType, FrameOK, Holds

(* Waking from a future. *)
LEMMA WakeInv ==
  ASSUME IInv, NEW p \in Prio,
         \/ \E u \in Tasks : WakeLoad(p, u)
         \/ WakeOr(p) \/ WakePush(p) \/ PendMark(p) \/ PendSend(p)
  PROVE  IInv'
<1> USE DEF IInv
<1>1. ASSUME NEW u \in Tasks, WakeLoad(p, u) PROVE IInv'
  <2>1. Holds("wake_or", polling[p], u, executor_ptr[u]) /\ pc[p] # "off"
    BY <1>1, AtHolds DEF WakeLoad, QueueType, Holds, PC, InWake, InSpawn
  <2>2. FrameInv'
    BY <1>1, <2>1, CallInv DEF WakeLoad
  <2> QED BY <1>1, <2>2, SlotSame, QueueSame, JoinSame, PendingSame DEF WakeLoad
<1>2. CASE WakeOr(p)
  <2>1. pc[p] = "wake_or" /\ Holds("wake_or", polling[p], arg[p], to[p])
    BY <1>2, AtHolds DEF WakeOr
  <2>2. FrameInv'
    <3>1. CASE Goto(p, "wake_push")
      <4>1. Holds("wake_push", polling[p], arg[p], to[p])
        BY <2>1 DEF Holds, PC, InWake, InSpawn
      <4> QED BY <1>2, <2>1, <3>1, <4>1, GotoInv DEF WakeOr
    <3>2. CASE Return(p)
      BY <1>2, <2>1, <3>2, ReturnInv DEF WakeOr
    <3> QED BY <1>2, <3>1, <3>2 DEF WakeOr
  <2>3. QueueType'
    BY <1>2, <2>1 DEF WakeOr, QueueType, Holds, InWake
  <2> QED BY <1>2, <2>2, <2>3, SlotSame, JoinSame, PendingSame DEF WakeOr
<1>3. CASE WakePush(p)
  <2>1. pc[p] = "wake_push" /\ Holds("wake_push", polling[p], arg[p], to[p])
    BY <1>3, AtHolds DEF WakePush
  <2>2. Holds("mark", polling[p], arg[p], to[p])
    BY <2>1 DEF Holds, PC, InWake, InSpawn
  <2>3. FrameInv'
    BY <1>3, <2>1, <2>2, GotoInv DEF WakePush
  <2>4. arg[p] \in Tasks /\ to[p] \in Prio
    BY <2>1 DEF Holds, InWake
  <2>5. QueueType'
    BY <1>3, <2>4, PushType DEF WakePush, QueueType
  <2> QED BY <1>3, <2>3, <2>5, SlotSame, JoinSame, PendingSame DEF WakePush
<1>4. CASE PendMark(p)
  <2>1. pc[p] = "mark" /\ Holds("mark", polling[p], arg[p], to[p])
    BY <1>4, AtHolds DEF PendMark
  <2>2. Holds("send", polling[p], arg[p], to[p])
    BY <2>1 DEF Holds, PC, InWake, InSpawn
  <2>3. FrameInv'
    BY <1>4, <2>1, <2>2, GotoInv DEF PendMark
  <2>4. PendingType'
    BY <1>4 DEF PendMark, PendingType
  <2> QED BY <1>4, <2>3, <2>4, SlotSame, QueueSame, JoinSame DEF PendMark
<1>5. CASE PendSend(p)
  <2>1. pc[p] = "send"
    BY <1>5 DEF PendSend, At
  <2>2. FrameInv'
    BY <1>5, <2>1, ReturnInv DEF PendSend
  <2>3. PendingType'
    BY <1>5 DEF PendSend, PendingType
  <2> QED BY <1>5, <2>2, <2>3, SlotSame, QueueSame, JoinSame DEF PendSend
<1> QED BY <1>1, <1>2, <1>3, <1>4, <1>5

(* TaskStorage::spawn, step by step: the slot and the JoinState. *)
LEMMA SpawnSlotInv ==
  ASSUME IInv, NEW p \in Prio,
         \/ \E u \in Tasks, q \in Prio : SpawnBegin(p, u, q)
         \/ SpawnResult(p) \/ SpawnWaker(p) \/ SpawnFn(p) \/ SpawnFut(p)
  PROVE  IInv'
<1> USE DEF IInv
<1>1. ASSUME NEW u \in Tasks, NEW q \in Prio, SpawnBegin(p, u, q) PROVE IInv'
  <2>1. Holds("s_result", polling[p], u, q) /\ pc[p] # "off"
    BY <1>1, AtHolds DEF SpawnBegin, Holds, PC, InWake, InSpawn
  <2>2. FrameInv'
    BY <1>1, <2>1, CallInv DEF SpawnBegin
  <2>3. SlotType'
    BY <1>1 DEF SpawnBegin, SlotType
  <2> QED BY <1>1, <2>2, <2>3, QueueSame, JoinSame, PendingSame DEF SpawnBegin
<1>2. CASE SpawnResult(p)
  <2>1. pc[p] = "s_result" /\ Holds("s_result", polling[p], arg[p], to[p])
    BY <1>2, AtHolds DEF SpawnResult
  <2>2. Holds("s_waker", polling[p], arg[p], to[p])
    BY <2>1 DEF Holds, PC, InWake, InSpawn
  <2>3. FrameInv'
    BY <1>2, <2>1, <2>2, GotoInv DEF SpawnResult
  <2>4. JoinType'
    BY <1>2 DEF SpawnResult, JoinType, app
  <2> QED BY <1>2, <2>3, <2>4, SlotSame, QueueSame, PendingSame DEF SpawnResult
<1>3. CASE SpawnWaker(p)
  <2>1. pc[p] = "s_waker" /\ Holds("s_waker", polling[p], arg[p], to[p])
    BY <1>3, AtHolds DEF SpawnWaker
  <2>2. Holds("s_fn", polling[p], arg[p], to[p])
    BY <2>1 DEF Holds, PC, InWake, InSpawn
  <2>3. FrameInv'
    BY <1>3, <2>1, <2>2, GotoInv DEF SpawnWaker
  <2>4. JoinType'
    BY <1>3 DEF SpawnWaker, JoinType, app
  <2> QED BY <1>3, <2>3, <2>4, SlotSame, QueueSame, PendingSame DEF SpawnWaker
<1>4. CASE SpawnFn(p)
  <2>1. pc[p] = "s_fn" /\ Holds("s_fn", polling[p], arg[p], to[p])
    BY <1>4, AtHolds DEF SpawnFn
  <2>2. Holds("s_fut", polling[p], arg[p], to[p])
    BY <2>1 DEF Holds, PC, InWake, InSpawn
  <2>3. FrameInv'
    BY <1>4, <2>1, <2>2, GotoInv DEF SpawnFn
  <2>4. SlotType'
    BY <1>4 DEF SpawnFn, SlotType
  <2> QED BY <1>4, <2>3, <2>4, QueueSame, JoinSame, PendingSame DEF SpawnFn
<1>5. CASE SpawnFut(p)
  <2>1. pc[p] = "s_fut" /\ Holds("s_fut", polling[p], arg[p], to[p])
    BY <1>5, AtHolds DEF SpawnFut
  <2>2. Holds("s_or", polling[p], arg[p], to[p])
    BY <2>1 DEF Holds, PC, InWake, InSpawn
  <2>3. FrameInv'
    BY <1>5, <2>1, <2>2, GotoInv DEF SpawnFut
  <2>4. SlotType'
    BY <1>5 DEF SpawnFut, WriteFut, SlotType
  <2> QED BY <1>5, <2>3, <2>4, QueueSame, JoinSame, PendingSame DEF SpawnFut
<1> QED BY <1>1, <1>2, <1>3, <1>4, <1>5

(* Spawner::spawn, from a future and from main(). *)
LEMMA SpawnQueueInv ==
  ASSUME IInv, NEW p \in Prio, SpawnOr(p) \/ SpawnPush(p) \/ SpawnPend(p)
  PROVE  IInv'
<1> USE DEF IInv
<1>1. CASE SpawnOr(p)
  <2>1. /\ pc[p] = "s_or" /\ Holds("s_or", polling[p], arg[p], to[p])
        /\ polling[p] \in Tasks /\ arg[p] \in Tasks
    BY <1>1, AtHolds DEF SpawnOr, Holds, InSpawn
  <2>2. FrameInv'
    <3>1. CASE Goto(p, "s_push")
      <4>1. Holds("s_push", polling[p], arg[p], to[p])
        BY <2>1 DEF Holds, PC, InWake, InSpawn
      <4> QED BY <1>1, <2>1, <3>1, <4>1, GotoInv DEF SpawnOr
    <3>2. CASE Return(p)
      BY <1>1, <2>1, <3>2, ReturnInv DEF SpawnOr
    <3> QED BY <1>1, <3>1, <3>2 DEF SpawnOr
  <2>3. QueueType'
    BY <1>1, <2>1 DEF SpawnOr, QueueType
  <2>4. JoinType'
    BY <1>1, <2>1 DEF SpawnOr, GiveHandle, JoinType, join
  <2> QED BY <1>1, <2>2, <2>3, <2>4, SlotSame, PendingSame DEF SpawnOr
<1>2. CASE SpawnPush(p)
  <2>1. pc[p] = "s_push" /\ Holds("s_push", polling[p], arg[p], to[p])
    BY <1>2, AtHolds DEF SpawnPush
  <2>2. Holds("s_pend", polling[p], arg[p], to[p])
    BY <2>1 DEF Holds, PC, InWake, InSpawn
  <2>3. FrameInv'
    BY <1>2, <2>1, <2>2, GotoInv DEF SpawnPush
  <2>4. arg[p] \in Tasks /\ to[p] \in Prio
    BY <2>1 DEF Holds, InSpawn
  <2>5. QueueType'
    BY <1>2, <2>4, PushType DEF SpawnPush, QueueType
  <2> QED BY <1>2, <2>3, <2>5, SlotSame, JoinSame, PendingSame DEF SpawnPush
<1>3. CASE SpawnPend(p)
  <2>1. pc[p] = "s_pend" /\ polling[p] \in Tasks
    BY <1>3, AtHolds DEF SpawnPend
  <2>2. FrameInv'
    BY <1>3, <2>1, ReturnInv DEF SpawnPend
  <2>3. PendingType'
    BY <1>3, PendType, PendingSame DEF SpawnPend
  <2>4. JoinType'
    BY <1>3, <2>1 DEF SpawnPend, GiveHandle, JoinType, join
  <2> QED BY <1>3, <2>2, <2>3, <2>4, SlotSame, QueueSame DEF SpawnPend
<1> QED BY <1>1, <1>2, <1>3

(* TaskStorage::spawn and Spawner::spawn from main(), and its end. *)
LEMMA BootInv ==
  ASSUME IInv, Start \/ \E t \in Tasks, q \in Prio : BootSpawn(t, q)
  PROVE  IInv'
<1> USE DEF IInv
<1>1. CASE Start
  <2>1. PendingType'
    BY <1>1 DEF Start, PendingType, pending
  <2> QED BY <1>1, <2>1, SlotSame, QueueSame, JoinSame, IdleInv DEF Start
<1>2. ASSUME NEW t \in Tasks, NEW q \in Prio, BootSpawn(t, q) PROVE IInv'
  <2>1. SlotType'
    BY <1>2 DEF BootSpawn, WriteFut, SlotType
  <2>2. QueueType'
    BY <1>2, PushType DEF BootSpawn, QueueType
  <2>3. JoinType'
    BY <1>2 DEF BootSpawn, JoinType, app
  <2> QED BY <1>2, <2>1, <2>2, <2>3, PendType, IdleInv DEF BootSpawn
<1> QED BY <1>1, <1>2

(* JoinHandle::poll takes the result or stores the waker. *)
LEMMA JoinInv ==
  ASSUME IInv, NEW p \in Prio, JoinStore(p) \/ \E u \in Tasks : JoinTake(p, u)
  PROVE  IInv'
<1> USE DEF IInv
<1>1. CASE JoinStore(p)
  <2>1. pc[p] = "j_store" /\ polling[p] \in Tasks
    BY <1>1, AtHolds DEF JoinStore
  <2>2. FrameInv'
    BY <1>1, <2>1, EndPollInv DEF JoinStore
  <2>3. JoinType'
    BY <1>1, <2>1 DEF JoinStore, JoinType, app
  <2> QED BY <1>1, <2>2, <2>3, SlotSame, QueueSame, PendingSame DEF JoinStore
<1>2. ASSUME NEW u \in Tasks, JoinTake(p, u) PROVE IInv'
  <2>1. pc[p] = "body" /\ polling[p] \in Tasks
    BY <1>2, AtHolds DEF JoinTake
  <2>2. CASE result[u]
    <3>1. JoinType'
      BY <1>2, <2>1, <2>2 DEF JoinTake, JoinType
    <3> QED BY <1>2, <2>2, <3>1, SlotSame, QueueSame, PendingSame, IdleInv DEF JoinTake
  <2>3. CASE ~result[u]
    <3>1. JoinType'
      BY <1>2, <2>1, <2>3 DEF JoinTake, JoinType
    <3>2. Holds("j_store", polling[p], u, NULL)
      BY <2>1 DEF Holds, PC, InWake, InSpawn
    <3>3. FrameInv'
      BY <1>2, <2>1, <2>3, <3>2, CallInv DEF JoinTake
    <3> QED BY <1>2, <3>1, <3>3, SlotSame, QueueSame, PendingSame DEF JoinTake
  <2> QED BY <2>2, <2>3
<1> QED BY <1>1, <1>2

(* The run loop up to the future. *)
LEMMA RunInv ==
  ASSUME IInv, NEW p \in Prio, Dequeue(p) \/ CallPollFn(p) \/ PollPending(p)
  PROVE  IInv'
<1> USE DEF IInv
<1>1. CASE Dequeue(p) /\ run_queue[p] = <<>>
  <2>1. pc[p] = "loop" /\ Holds("loop", polling[p], arg[p], to[p])
    BY <1>1, AtHolds DEF Dequeue
  <2>2. Holds("returned", polling[p], arg[p], to[p])
    BY <2>1 DEF Holds, PC, InRun, InWake, InSpawn
  <2>3. FrameInv'
    BY <1>1, <2>1, <2>2, GotoInv DEF Dequeue
  <2>4. QueueType'
    BY <1>1 DEF Dequeue, QueueType
  <2> QED BY <1>1, <2>3, <2>4, SlotSame, JoinSame, PendingSame DEF Dequeue
<1>2. CASE Dequeue(p) /\ run_queue[p] # <<>>
  <2>1. pc[p] = "loop" /\ Holds("loop", polling[p], arg[p], to[p])
    BY <1>2, AtHolds DEF Dequeue
  <2>2. run_queue[p] \in Seq(Tasks)
    BY DEF QueueType
  <2>3. Head(run_queue[p]) \in Tasks /\ Tail(run_queue[p]) \in Seq(Tasks)
    BY <1>2, <2>2
  <2>4. Holds("dequeued", Head(run_queue[p]), arg[p], to[p])
    BY <2>1, <2>3 DEF Holds, PC, InRun, InWake, InSpawn
  <2>5. /\ arg' = [arg EXCEPT ![p] = arg[p]] /\ to' = [to EXCEPT ![p] = to[p]]
    BY <1>2 DEF Dequeue, FrameInv, FrameType
  <2>6. FrameInv'
    BY <1>2, <2>1, <2>4, <2>5, FrameStep DEF Dequeue
  <2>7. QueueType'
    BY <1>2, <2>3 DEF Dequeue, PopFront, RunDequeue, QueueType
  <2> QED BY <1>2, <2>6, <2>7, SlotSame, JoinSame, PendingSame DEF Dequeue
<1>3. CASE CallPollFn(p)
  <2>1. pc[p] = "dequeued" /\ Holds("dequeued", polling[p], arg[p], to[p])
    BY <1>3, AtHolds DEF CallPollFn
  <2>2. Holds("body", polling[p], arg[p], to[p])
    BY <2>1 DEF Holds, PC, InRun, InWake, InSpawn
  <2>3. FrameInv'
    BY <1>3, <2>1, <2>2, GotoInv, EndPollInv DEF CallPollFn
  <2>4. QueueType'
    BY <1>3 DEF CallPollFn, QueueType, queues
  <2> QED BY <1>3, <2>3, <2>4, SlotSame, JoinSame, PendingSame DEF CallPollFn
<1>4. CASE PollPending(p)
  <2>1. pc[p] = "body"
    BY <1>4 DEF PollPending, At
  <2> QED BY <1>4, <2>1, EndPollInv, SlotSame, QueueSame, JoinSame, PendingSame DEF PollPending
<1> QED BY <1>1, <1>2, <1>3, <1>4

(* TaskStorage::poll after the future is ready. *)
LEMMA ReadyInv ==
  ASSUME IInv, NEW p \in Prio,
         PollReady(p) \/ ReadyPtr(p) \/ ReadyDrop(p) \/ ReadyFn(p) \/ ReadyDespawn(p)
  PROVE  IInv'
<1> USE DEF IInv
<1>1. CASE PollReady(p)
  <2>1. pc[p] = "body" /\ Holds("body", polling[p], arg[p], to[p])
    BY <1>1, AtHolds DEF PollReady
  <2>2. Holds("r_ptr", polling[p], arg[p], to[p])
    BY <2>1 DEF Holds, PC, InReady, InWake, InSpawn
  <2>3. FrameInv'
    BY <1>1, <2>1, <2>2, GotoInv DEF PollReady
  <2>4. JoinType'
    BY <1>1 DEF PollReady, JoinType
  <2> QED BY <1>1, <2>3, <2>4, SlotSame, QueueSame, PendingSame DEF PollReady
<1>2. CASE ReadyPtr(p)
  <2>1. pc[p] = "r_ptr" /\ Holds("r_ptr", polling[p], arg[p], to[p])
    BY <1>2, AtHolds DEF ReadyPtr
  <2>2. Holds("r_drop", polling[p], arg[p], to[p])
    BY <2>1 DEF Holds, PC, InReady, InWake, InSpawn
  <2>3. FrameInv'
    BY <1>2, <2>1, <2>2, GotoInv DEF ReadyPtr
  <2>4. QueueType'
    BY <1>2 DEF ReadyPtr, QueueType
  <2> QED BY <1>2, <2>3, <2>4, SlotSame, JoinSame, PendingSame DEF ReadyPtr
<1>3. CASE ReadyDrop(p)
  <2>1. pc[p] = "r_drop" /\ Holds("r_drop", polling[p], arg[p], to[p])
    BY <1>3, AtHolds DEF ReadyDrop
  <2>2. Holds("r_fn", polling[p], arg[p], to[p])
    BY <2>1 DEF Holds, PC, InReady, InWake, InSpawn
  <2>3. FrameInv'
    BY <1>3, <2>1, <2>2, GotoInv DEF ReadyDrop
  <2>4. SlotType'
    BY <1>3 DEF ReadyDrop, WriteFut, SlotType
  <2> QED BY <1>3, <2>3, <2>4, QueueSame, JoinSame, PendingSame DEF ReadyDrop
<1>4. CASE ReadyFn(p)
  <2>1. pc[p] = "r_fn" /\ Holds("r_fn", polling[p], arg[p], to[p])
    BY <1>4, AtHolds DEF ReadyFn
  <2>2. Holds("r_cs", polling[p], arg[p], to[p])
    BY <2>1 DEF Holds, PC, InReady, InWake, InSpawn
  <2>3. FrameInv'
    BY <1>4, <2>1, <2>2, GotoInv DEF ReadyFn
  <2>4. SlotType'
    BY <1>4 DEF ReadyFn, SlotType
  <2> QED BY <1>4, <2>3, <2>4, QueueSame, JoinSame, PendingSame DEF ReadyFn
<1>5. CASE ReadyDespawn(p)
  <2>1. pc[p] = "r_cs" /\ polling[p] \in Tasks
    BY <1>5, AtHolds DEF ReadyDespawn
  <2>2. FrameInv'
    BY <1>5, <2>1, EndPollInv DEF ReadyDespawn
  <2>3. SlotType'
    BY <1>5 DEF ReadyDespawn, Despawn, SlotType
  <2>4. JoinType'
    BY <1>5 DEF ReadyDespawn, JoinType, app
  <2>5. waker[polling[p]] # NULL => waker[polling[p]] \in Tasks
    BY <2>1 DEF JoinType
  <2>6. QueueType' /\ PendingType'
    <3>1. CASE waker[polling[p]] # NULL
      BY <1>5, <2>5, <3>1, WakeNowType DEF ReadyDespawn
    <3>2. CASE waker[polling[p]] = NULL
      BY <1>5, <3>2, QueueSame, PendingSame DEF ReadyDespawn
    <3> QED BY <3>1, <3>2
  <2> QED BY <2>2, <2>3, <2>4, <2>6
<1> QED BY <1>1, <1>2, <1>3, <1>4, <1>5

(* StackOK of a stack and frames that need not be the current ones. *)
StackFor(s, f) ==
  /\ \A i, j \in 1 .. Len(s) : i < j => s[j] < s[i]
  /\ {s[i] : i \in 1 .. Len(s)} = {p \in Prio : f[p] # "off"}
  /\ \A i \in 1 .. Len(s) : s[i] + i <= N

(* The most urgent ready priority. *)
LEMMA MinReady ==
  ASSUME QueueType, bitmap # {}
  PROVE  Min(bitmap) \in Prio
<1>1. bitmap \in SUBSET Nat /\ bitmap \subseteq Prio
  BY DEF QueueType, Prio
<1> QED BY <1>1, MinNat

(* try_preempt pushes a priority below every one on the stack, which has   *)
(* room for it: this is where a more urgent priority cannot be refused.    *)
LEMMA ScheduleStack ==
  ASSUME QueueType, NEW s \in Seq(Prio), NEW f \in [Prio -> PC], StackFor(s, f),
         Schedule(s, f)
  PROVE  StackFor(prio_stack', pc') /\ prio_stack' \in Seq(Prio) /\ pc' \in [Prio -> PC]
<1>1. CASE TryPreempt(s) = s
  BY <1>1 DEF Schedule
<1>2. CASE TryPreempt(s) # s
  <2> DEFINE m == Min(bitmap)
  <2>1. /\ bitmap # {} /\ (s = <<>> \/ m < Top(s)) /\ Len(s) < N
        /\ TryPreempt(s) = Append(s, m)
    BY <1>2 DEF TryPreempt
  <2>2. m \in Prio /\ m \in 0 .. N - 1
    BY <2>1, MinReady DEF Prio
  <2> HIDE DEF m
  <2>3. /\ Append(s, m) \in Seq(Prio) /\ Len(Append(s, m)) = Len(s) + 1
        /\ \A i \in 1 .. Len(s) : Append(s, m)[i] = s[i]
        /\ Append(s, m)[Len(s) + 1] = m
    BY <2>2
  <2>4. Len(s) \in Nat /\ \A i \in 1 .. Len(s) : s[i] \in 0 .. N - 1
    <3>1. Len(s) \in Nat /\ \A i \in 1 .. Len(s) : s[i] \in Prio
      BY LenProperties, ElementOfSeq
    <3> QED BY <3>1 DEF Prio
  <2>5. \A i \in 1 .. Len(s) : m < s[i]
    <3> SUFFICES ASSUME NEW i \in 1 .. Len(s) PROVE m < s[i]
      OBVIOUS
    <3>1. m < s[Len(s)]
      BY <2>1, <2>4 DEF Top
    <3>2. i = Len(s) \/ s[Len(s)] < s[i]
      BY <2>4 DEF StackFor
    <3> QED BY <2>2, <2>4, <3>1, <3>2, NAssumption
  <2>6. m + Len(s) + 1 <= N
    <3>1. CASE s = <<>>
      BY <2>2, <3>1, NAssumption
    <3>2. CASE s # <<>>
      <4>1. Len(s) \in 1 .. Len(s)
        BY <2>4, <3>2
      <4>2. s[Len(s)] + Len(s) <= N /\ m < s[Len(s)]
        BY <2>5, <4>1 DEF StackFor
      <4> QED BY <2>2, <2>4, <4>1, <4>2, NAssumption
    <3> QED BY <3>1, <3>2
  <2>7. prio_stack' = Append(s, m) /\ pc' = [f EXCEPT ![m] = "loop"]
    BY <1>2, <2>1, <2>3, <2>4 DEF Schedule, Top
  <2>8. \A i, j \in 1 .. Len(s) + 1 : i < j => Append(s, m)[j] < Append(s, m)[i]
    <3> SUFFICES ASSUME NEW i \in 1 .. Len(s) + 1, NEW j \in 1 .. Len(s) + 1, i < j
                 PROVE  Append(s, m)[j] < Append(s, m)[i]
      OBVIOUS
    <3>1. i \in 1 .. Len(s)
      BY <2>4
    <3>2. CASE j = Len(s) + 1
      BY <2>3, <2>5, <3>1, <3>2
    <3>3. CASE j # Len(s) + 1
      <4>1. j \in 1 .. Len(s)
        BY <2>4, <3>3
      <4> QED BY <2>3, <3>1, <4>1 DEF StackFor
    <3> QED BY <3>2, <3>3
  <2>9. {Append(s, m)[i] : i \in 1 .. Len(s) + 1} = {s[i] : i \in 1 .. Len(s)} \cup {m}
    BY <2>3, <2>4
  <2>10. {q \in Prio : pc'[q] # "off"} = {q \in Prio : f[q] # "off"} \cup {m}
    BY <2>2, <2>7
  <2>11. \A i \in 1 .. Len(s) + 1 : Append(s, m)[i] + i <= N
    <3> SUFFICES ASSUME NEW i \in 1 .. Len(s) + 1 PROVE Append(s, m)[i] + i <= N
      OBVIOUS
    <3>1. CASE i = Len(s) + 1
      BY <2>2, <2>3, <2>4, <2>6, <3>1, NAssumption
    <3>2. CASE i # Len(s) + 1
      <4>1. i \in 1 .. Len(s)
        BY <2>4, <3>2
      <4> QED BY <2>3, <4>1 DEF StackFor
    <3> QED BY <3>1, <3>2
  <2>12. pc' \in [Prio -> PC]
    BY <2>7 DEF PC, InRun
  <2> QED BY <2>3, <2>7, <2>8, <2>9, <2>10, <2>11, <2>12 DEF StackFor
<1> QED BY <1>1, <1>2

(* A frame that Schedule starts or leaves alone holds what it should. *)
LEMMA ScheduleInv ==
  ASSUME QueueType, FrameInv, NEW s \in Seq(Prio), NEW f \in [Prio -> PC], StackFor(s, f),
         \A p \in Prio : f[p] \in {pc[p], "off"},
         Schedule(s, f)
  PROVE  FrameInv'
<1>1. StackFor(prio_stack', pc') /\ prio_stack' \in Seq(Prio) /\ pc' \in [Prio -> PC]
  BY ScheduleStack
<1>2. FrameType'
  BY <1>1 DEF FrameInv, FrameType, Schedule
<1>3. \A p \in Prio : pc'[p] \in {pc[p], "off", "loop"}
  BY DEF Schedule
<1>4. FrameOK'
  BY <1>3 DEF FrameInv, FrameOK, Schedule, InWake, InSpawn
<1>5. StackOK'
  BY <1>1 DEF StackFor, StackOK, OnStack
<1> QED BY <1>2, <1>4, <1>5 DEF FrameInv

(* Interrupts. *)
LEMMA InterruptInv ==
  ASSUME IInv, MachineSoft \/ Interrupt
  PROVE  IInv'
<1> USE DEF IInv
<1>1. CASE MachineSoft
  <2>1. StackFor(prio_stack, pc)
    BY DEF FrameInv, StackOK, StackFor, OnStack
  <2>2. FrameInv'
    <3>1. CASE marker
      BY <1>1, <2>1, <3>1, ScheduleInv DEF MachineSoft, FrameInv, FrameType
    <3>2. CASE ~marker
      BY <1>1, <3>2, IdleInv DEF MachineSoft
    <3> QED BY <3>1, <3>2
  <2>3. PendingType'
    BY <1>1 DEF MachineSoft, ClearPend, PendingType
  <2> QED BY <1>1, <2>2, <2>3, SlotSame, QueueSame, JoinSame DEF MachineSoft
<1>2. CASE ExternalMsi
  <2>1. PendingType'
    BY <1>2 DEF ExternalMsi, PendingType
  <2> QED BY <1>2, <2>1, SlotSame, QueueSame, JoinSame, IdleInv DEF ExternalMsi
<1>3. ASSUME NEW u \in Tasks, IrqWake(u) PROVE IInv'
  BY <1>3, WakeNowType, SlotSame, JoinSame, IdleInv DEF IrqWake
<1> QED BY <1>1, <1>2, <1>3 DEF Interrupt

(* complete_executor pops the frame that returned. *)
LEMMA CompleteStack ==
  ASSUME IInv, NEW p \in Prio, Complete(p)
  PROVE  \E s \in Seq(Prio), f \in [Prio -> PC] :
           /\ StackFor(s, f) /\ Schedule(s, f)
           /\ f = [pc EXCEPT ![p] = "off"]
           /\ \A q \in Prio : f[q] \in {pc[q], "off"}
<1> USE DEF IInv
<1> DEFINE s == SubSeq(prio_stack, 1, Len(prio_stack) - 1)
           f == [pc EXCEPT ![p] = "off"]
<1>1. /\ prio_stack \in Seq(Prio) /\ prio_stack # <<>> /\ prio_stack[Len(prio_stack)] = p
      /\ Len(prio_stack) \in Nat /\ Len(prio_stack) >= 1
  BY DEF Complete, At, Top, FrameInv, FrameType
<1>2. /\ s \in Seq(Prio) /\ Len(s) = Len(prio_stack) - 1
      /\ \A i \in 1 .. Len(s) : s[i] = prio_stack[i]
  <2>1. 1 \in Int /\ Len(prio_stack) - 1 \in Int
    BY <1>1
  <2>2. \A i \in 1 .. Len(prio_stack) - 1 : i \in 1 .. Len(prio_stack)
    BY <1>1
  <2>3. \A i \in 1 .. Len(prio_stack) - 1 : prio_stack[i] \in Prio
    BY <1>1, <2>2, ElementOfSeq
  <2>4. /\ s \in Seq(Prio)
        /\ Len(s) = IF 1 <= Len(prio_stack) - 1 THEN Len(prio_stack) - 1 - 1 + 1 ELSE 0
        /\ \A i \in 1 .. Len(prio_stack) - 1 - 1 + 1 : s[i] = prio_stack[1 + i - 1]
    BY <2>1, <2>3, SubSeqProperties
  <2> HIDE DEF s
  <2>5. Len(s) = Len(prio_stack) - 1
    <3>1. ASSUME NEW n \in Nat, n >= 1
          PROVE  (IF 1 <= n - 1 THEN n - 1 - 1 + 1 ELSE 0) = n - 1
      BY <3>1
    <3> QED BY <1>1, <2>4, <3>1
  <2>6. \A i \in 1 .. Len(s) : s[i] = prio_stack[i]
    BY <1>1, <2>4, <2>5
  <2> QED BY <2>4, <2>5, <2>6
<1>3. f \in [Prio -> PC] /\ \A q \in Prio : f[q] \in {pc[q], "off"}
  BY DEF FrameInv, FrameType, PC
<1>4. \A i, j \in 1 .. Len(s) : i < j => s[j] < s[i]
  BY <1>1, <1>2 DEF FrameInv, StackOK
<1>5. {s[i] : i \in 1 .. Len(s)} = OnStack \ {p}
  <2>1. \A i \in 1 .. Len(s) : p < s[i]
    BY <1>1, <1>2 DEF FrameInv, StackOK
  <2>2. \A i \in 1 .. Len(s) : s[i] \in Int
    BY <1>2 DEF Prio
  <2>3. \A i \in 1 .. Len(s) : s[i] # p
    BY <2>1, <2>2, NAssumption DEF Prio
  <2> HIDE DEF s
  <2>4. \A i \in 1 .. Len(prio_stack) : i \in 1 .. Len(s) \/ i = Len(prio_stack)
    BY <1>1, <1>2
  <2>5. \A i \in 1 .. Len(s) : i \in 1 .. Len(prio_stack)
    BY <1>1, <1>2
  <2>6. ASSUME NEW x, x \in OnStack \ {p} PROVE \E i \in 1 .. Len(s) : x = s[i]
    <3>1. PICK i \in 1 .. Len(prio_stack) : x = prio_stack[i]
      BY <2>6 DEF OnStack
    <3>2. i \in 1 .. Len(s)
      BY <1>1, <2>4, <2>6, <3>1
    <3> QED BY <1>2, <3>1, <3>2
  <2>7. ASSUME NEW i \in 1 .. Len(s) PROVE s[i] \in OnStack \ {p}
    BY <1>2, <2>3, <2>5 DEF OnStack
  <2> QED BY <2>6, <2>7
<1>6. {q \in Prio : f[q] # "off"} = {q \in Prio : pc[q] # "off"} \ {p}
  BY DEF FrameInv, FrameType
<1>7. \A i \in 1 .. Len(s) : s[i] + i <= N
  BY <1>1, <1>2 DEF FrameInv, StackOK
<1>8. StackFor(s, f)
  BY <1>4, <1>5, <1>6, <1>7 DEF StackFor, FrameInv, StackOK
<1>9. Schedule(s, f)
  BY DEF Complete
<1>10. f = [pc EXCEPT ![p] = "off"]
  OBVIOUS
<1> HIDE DEF s, f
<1> QED BY <1>2, <1>3, <1>8, <1>9, <1>10

(* complete_executor and the next try_preempt keep the invariant. *)
LEMMA CompleteInv ==
  ASSUME IInv, NEW p \in Prio, Complete(p)
  PROVE  IInv'
<1>1. FrameInv'
  BY CompleteStack, ScheduleInv DEF IInv
<1> QED BY <1>1, SlotSame, QueueSame, JoinSame, PendingSame DEF IInv, Complete

(* Every action keeps the inductive invariant. *)
LEMMA NextInv == IInv /\ [Next]_vars => IInv'
<1> SUFFICES ASSUME IInv, [Next]_vars PROVE IInv'
  OBVIOUS
<1>1. ASSUME NEW p \in Prio, Step(p) PROVE IInv'
  BY <1>1, WakeInv, SpawnSlotInv, SpawnQueueInv, JoinInv, RunInv, ReadyInv, CompleteInv DEF Step
<1>2. ASSUME NEW p \in Prio, Body(p) PROVE IInv'
  BY <1>2, WakeInv, SpawnSlotInv, JoinInv DEF Body
<1>3. ASSUME NEW p \in Prio, PollReturn(p) PROVE IInv'
  BY <1>3, RunInv, ReadyInv DEF PollReturn
<1>4. CASE UNCHANGED vars
  BY <1>4, SlotSame, QueueSame, JoinSame, PendingSame, IdleInv DEF IInv, vars
<1> QED BY <1>1, <1>2, <1>3, <1>4, BootInv, InterruptInv DEF Next

(* The inductive invariant of the scheduler holds of every reachable state. *)
THEOREM InvAlways == Spec => []IInv
  BY InitInv, NextInv, PTL DEF Spec

(* Type correctness of the kernel for any number of priorities and tasks: *)
(* in particular Executor::run and wake_task only follow pointers to tasks *)
(* and executors that exist.                                               *)
THEOREM TypeCorrect == Spec => []TypeOK
<1>1. IInv => TypeOK
  BY DEF IInv, FrameInv, TypeOK
<1> QED BY <1>1, InvAlways, PTL

(* Spawner::try_preempt nests executors strictly by urgency, prio_stack is *)
(* exactly the executors whose run() has not completed, and the push of a  *)
(* more urgent priority never meets a full Vec<Priority, N>.               *)
THEOREM StackAlwaysSorted == Spec => []StackSorted
<1>1. ASSUME IInv PROVE StackSorted
  <2>1. ASSUME ShouldPend PROVE Len(prio_stack) < N
    <3>1. Min(bitmap) \in 0 .. N - 1
      BY <1>1, <2>1, MinReady DEF ShouldPend, IInv, Prio
    <3>2. prio_stack \in Seq(Prio) /\ Len(prio_stack) \in Nat
      BY <1>1, LenProperties DEF IInv, FrameInv, FrameType
    <3>3. CASE prio_stack = <<>>
      BY <3>3, NAssumption
    <3>4. CASE prio_stack # <<>>
      <4>1. Len(prio_stack) \in 1 .. Len(prio_stack) /\ Min(bitmap) < prio_stack[Len(prio_stack)]
        BY <2>1, <3>2, <3>4 DEF ShouldPend, Top
      <4>2. prio_stack[Len(prio_stack)] \in 0 .. N - 1
        BY <3>2, <4>1, ElementOfSeq DEF Prio
      <4>3. prio_stack[Len(prio_stack)] + Len(prio_stack) <= N
        BY <1>1, <4>1 DEF IInv, FrameInv, StackOK
      <4> QED BY <3>1, <3>2, <4>1, <4>2, <4>3, NAssumption
    <3> QED BY <3>3, <3>4
  <2> QED BY <1>1, <2>1 DEF IInv, FrameInv, StackOK, StackSorted
<1>2. IInv => StackSorted
  BY <1>1
<1> QED BY <1>2, InvAlways, PTL

(* Part 2.  The ready bitmap and the pending interrupt.                    *)

(* ReadyBits.                                                              *)

(* A step that leaves queues and bits alone must not retire a frame. *)
LEMMA BitsSame ==
  ASSUME ReadyBits, UNCHANGED <<run_queue, bitmap>>,
         \A p \in Prio : pc'[p] \in Resting => pc[p] \in Resting
  PROVE  ReadyBits'
  BY DEF ReadyBits, Resting

(* A push sets the bit of the queue it fills. *)
LEMMA BitsPush ==
  ASSUME ReadyBits, QueueType, NEW u \in Tasks, NEW q \in Prio, PushTask(u, q),
         \A p \in Prio : pc'[p] \in Resting => pc[p] \in Resting
  PROVE  ReadyBits'
<1>1. run_queue[q] \in Seq(Tasks)
  BY DEF QueueType
<1>2. Append(run_queue[q], u) # <<>>
  BY <1>1
<1>3. /\ run_queue'[q] = Append(run_queue[q], u)
      /\ \A p \in Prio \ {q} : run_queue'[p] = run_queue[p]
  BY DEF QueueType, PushTask
<1>4. bitmap' = bitmap \cup {q}
  BY DEF PushTask
<1> QED BY <1>2, <1>3, <1>4 DEF ReadyBits, Resting

(* The critical section of Executor::run clears the bit only over an empty *)
(* queue, and a frame that took the last task comes back to look again.    *)
LEMMA BitsDequeue ==
  ASSUME ReadyBits, IInv, NEW p \in Prio, Dequeue(p)
  PROVE  ReadyBits'
<1>1. CASE run_queue[p] = <<>>
  BY <1>1 DEF Dequeue, ReadyBits, IInv, FrameInv, FrameType, Goto
<1>2. CASE run_queue[p] # <<>>
  <2>1. /\ bitmap' = bitmap /\ p \in bitmap
        /\ pc'[p] = "dequeued"
        /\ \A q \in Prio \ {p} : run_queue'[q] = run_queue[q] /\ pc'[q] = pc[q]
    BY <1>2 DEF Dequeue, PopFront, ReadyBits, IInv, QueueType, FrameInv, FrameType
  <2> QED BY <2>1 DEF ReadyBits
<1> QED BY <1>1, <1>2

(* The frame steps that lead to a place other than off and returned. *)
LEMMA StillBusy ==
  ASSUME FrameInv, NEW p \in Prio, NEW l, l \notin Resting,
         pc' = [pc EXCEPT ![p] = l]
  PROVE  \A q \in Prio : pc'[q] \in Resting => pc[q] \in Resting
  BY DEF FrameInv, FrameType

(* Goto, Call, Return and EndPoll only move the frame they are given. *)
LEMMA GotoBusy ==
  ASSUME FrameInv, NEW p \in Prio,
         \/ \E l : l \notin Resting /\ Goto(p, l)
         \/ \E l, u, q : l \notin Resting /\ Call(p, l, u, q)
         \/ Return(p) \/ EndPoll(p)
  PROVE  \A q \in Prio : pc'[q] \in Resting => pc[q] \in Resting
<1>1. \E l : l \notin Resting /\ pc' = [pc EXCEPT ![p] = l]
  BY DEF Goto, Call, Return, EndPoll, Resting
<1> QED BY <1>1, StillBusy

(* A wake with interrupts off. *)
LEMMA BitsWakeNow ==
  ASSUME ReadyBits, QueueType, NEW u \in Tasks, WakeNow(u),
         \A p \in Prio : pc'[p] \in Resting => pc[p] \in Resting
  PROVE  ReadyBits'
<1>1. CASE executor_ptr[u] # NULL /\ FirstEnqueue(u)
  <2>1. executor_ptr[u] \in Prio /\ PushTask(u, executor_ptr[u])
    BY <1>1 DEF WakeNow, QueueType
  <2> QED BY <2>1, BitsPush
<1>2. CASE ~(executor_ptr[u] # NULL /\ FirstEnqueue(u))
  BY <1>2, BitsSame DEF WakeNow, queues
<1> QED BY <1>1, <1>2

(* Schedule starts at most one frame. *)
LEMMA BitsSchedule ==
  ASSUME ReadyBits, IInv, NEW s, NEW f \in [Prio -> PC], Schedule(s, f),
         \A p \in Prio : f[p] \in Resting => pc[p] \in Resting,
         UNCHANGED <<run_queue, bitmap>>
  PROVE  ReadyBits'
<1>1. \A p \in Prio : pc'[p] \in Resting => f[p] \in Resting
  BY DEF Schedule, Resting
<1> QED BY <1>1, BitsSame

(* Each step of a frame of Executor::run keeps the ready bits exact. *)
LEMMA BitsStep ==
  ASSUME ReadyBits, IInv, NEW p \in Prio, Step(p)
  PROVE  ReadyBits'
<1> USE DEF IInv
<1>1. CASE Dequeue(p)
  BY <1>1, BitsDequeue
<1>2. CASE Complete(p)
  <2>1. [pc EXCEPT ![p] = "off"] \in [Prio -> PC] /\ pc[p] = "returned"
    BY <1>2 DEF FrameInv, FrameType, PC, Complete, At
  <2>2. \A q \in Prio : [pc EXCEPT ![p] = "off"][q] \in Resting => pc[q] \in Resting
    BY <2>1 DEF FrameInv, FrameType, Resting
  <2> QED BY <1>2, <2>1, <2>2, BitsSchedule DEF Complete, queues
<1>3. CASE CallPollFn(p) \/ WakeOr(p) \/ PendMark(p) \/ PendSend(p)
  BY <1>3, BitsSame, GotoBusy
     DEF CallPollFn, WakeOr, PendMark, PendSend, queues, Resting
<1>4. CASE SpawnResult(p) \/ SpawnWaker(p) \/ SpawnFn(p) \/ SpawnFut(p) \/ SpawnOr(p) \/ SpawnPend(p)
  BY <1>4, BitsSame, GotoBusy
     DEF SpawnResult, SpawnWaker, SpawnFn, SpawnFut, SpawnOr, SpawnPend, queues, Resting
<1>5. CASE WakePush(p) \/ SpawnPush(p)
  <2>1. arg[p] \in Tasks /\ to[p] \in Prio
    BY <1>5, AtHolds DEF WakePush, SpawnPush, Holds, InWake, InSpawn
  <2>2. \A q \in Prio : pc'[q] \in Resting => pc[q] \in Resting
    BY <1>5, GotoBusy DEF WakePush, SpawnPush, Resting
  <2> QED BY <1>5, <2>1, <2>2, BitsPush DEF WakePush, SpawnPush
<1>6. CASE JoinStore(p) \/ ReadyPtr(p) \/ ReadyDrop(p) \/ ReadyFn(p)
  BY <1>6, BitsSame, GotoBusy
     DEF JoinStore, ReadyPtr, ReadyDrop, ReadyFn, queues, Resting
<1>7. CASE ReadyDespawn(p)
  <2>1. \A q \in Prio : pc'[q] \in Resting => pc[q] \in Resting
    BY <1>7, GotoBusy DEF ReadyDespawn
  <2>2. polling[p] \in Tasks
    BY <1>7, AtHolds DEF ReadyDespawn
  <2>3. CASE waker[polling[p]] # NULL
    <3>1. waker[polling[p]] \in Tasks /\ WakeNow(waker[polling[p]])
      BY <1>7, <2>2, <2>3 DEF ReadyDespawn, JoinType
    <3> QED BY <2>1, <3>1, BitsWakeNow
  <2>4. CASE waker[polling[p]] = NULL
    BY <1>7, <2>1, <2>4, BitsSame DEF ReadyDespawn, queues
  <2> QED BY <2>3, <2>4
<1> QED BY <1>1, <1>2, <1>3, <1>4, <1>5, <1>6, <1>7 DEF Step

(* Interrupts, polls and main() keep the ready bits exact as well. *)
LEMMA BitsNext == ReadyBits /\ IInv /\ [Next]_vars => ReadyBits'
<1> SUFFICES ASSUME ReadyBits, IInv, [Next]_vars PROVE ReadyBits'
  OBVIOUS
<1> USE DEF IInv
<1>1. ASSUME NEW p \in Prio, Body(p) \/ PollReturn(p) PROVE ReadyBits'
  <2>1. UNCHANGED <<run_queue, bitmap>>
    BY <1>1 DEF Body, PollReturn, WakeLoad, JoinTake, SpawnBegin, PollPending, PollReady, queues
  <2>2. \A q \in Prio : pc'[q] \in Resting => pc[q] \in Resting
    <3>1. pc' = pc \/ \E l : l \notin Resting /\ pc' = [pc EXCEPT ![p] = l]
      BY <1>1 DEF Body, PollReturn, WakeLoad, JoinTake, SpawnBegin, PollPending, PollReady,
                  Goto, Call, EndPoll, frame, Resting
    <3> QED BY <3>1, StillBusy
  <2> QED BY <2>1, <2>2, BitsSame
<1>2. CASE MachineSoft
  <2>1. CASE marker
    BY <1>2, <2>1, BitsSchedule DEF MachineSoft, queues, FrameInv, FrameType
  <2>2. CASE ~marker
    BY <1>2, <2>2, BitsSame DEF MachineSoft, queues, frame
  <2> QED BY <2>1, <2>2
<1>3. CASE ExternalMsi \/ Start
  BY <1>3, BitsSame DEF ExternalMsi, Start, queues, frame
<1>4. ASSUME NEW u \in Tasks, IrqWake(u) PROVE ReadyBits'
  BY <1>4, BitsWakeNow DEF IrqWake, frame
<1>5. ASSUME NEW t \in Tasks, NEW q \in Prio, BootSpawn(t, q) PROVE ReadyBits'
  BY <1>5, BitsPush DEF BootSpawn, frame
<1>6. CASE UNCHANGED vars
  BY <1>6, BitsSame DEF vars, queues, frame
<1> QED BY <1>1, <1>2, <1>3, <1>4, <1>5, <1>6, BitsStep DEF Next, Interrupt

(* Whenever a run queue holds a task its ready bit is set, and a set bit   *)
(* over an empty queue belongs to an Executor::run that will look again.   *)
THEOREM ReadyBitsAlways == Spec => []ReadyBits
<1>1. Init => ReadyBits
  BY DEF Init, ReadyBits
<1> QED BY <1>1, InvAlways, BitsNext, PTL DEF Spec

(* NoLostReady.                                                            *)

Pending == {"mark", "send", "s_pend"}

(* A step of a frame that was not about to pend: the interrupt was pending *)
(* already and stays so.                                                   *)
LEMMA PendFrame ==
  ASSUME PendOK, NEW p, NEW l, At(p, l), l \notin Pending,
         UNCHANGED <<bitmap, prio_stack, marker, msip>>
  PROVE  PendOK'
  BY DEF PendOK, ShouldPend, At, Top, Pending

(* A step that only raises marker or MSIP. *)
LEMMA PendSame ==
  ASSUME PendOK, UNCHANGED <<bitmap, prio_stack, pc, marker>>, msip => msip'
  PROVE  PendOK'
  BY DEF PendOK, ShouldPend, Top

(* platform::pend with interrupts off leaves marker and MSIP set. *)
LEMMA PendPend == ASSUME Pend PROVE PendOK'
  BY DEF Pend, PendOK

(* After Schedule nothing ready is more urgent than the top of the stack:  *)
(* the push of try_preempt was not refused, by StackFor.                   *)
LEMMA PendSchedule ==
  ASSUME QueueType, NEW s \in Seq(Prio), NEW f \in [Prio -> PC], StackFor(s, f),
         Schedule(s, f), bitmap' = bitmap
  PROVE  PendOK'
<1> SUFFICES ASSUME ShouldPend' PROVE FALSE
  BY DEF PendOK
<1>1. bitmap # {} /\ (prio_stack' = <<>> \/ Min(bitmap) < Top(prio_stack'))
  BY DEF ShouldPend
<1>2. Min(bitmap) \in Prio /\ Min(bitmap) \in 0 .. N - 1
  BY <1>1, MinReady DEF Prio
<1>3. prio_stack' = TryPreempt(s)
  BY DEF Schedule
<1>4. CASE TryPreempt(s) = s
  <2>1. s = <<>> \/ Min(bitmap) < Top(s)
    BY <1>1, <1>3, <1>4
  <2>2. Len(s) \in Nat
    BY LenProperties
  <2>3. Len(s) < N
    <3>1. CASE s = <<>>
      BY <3>1, NAssumption
    <3>2. CASE s # <<>>
      <4>1. Len(s) \in 1 .. Len(s)
        BY <2>2, <3>2
      <4>2. s[Len(s)] \in 0 .. N - 1 /\ Min(bitmap) < s[Len(s)]
        BY <2>1, <3>2, <4>1, ElementOfSeq DEF Top, Prio
      <4>3. s[Len(s)] + Len(s) <= N
        BY <4>1 DEF StackFor
      <4> QED BY <1>2, <2>2, <4>2, <4>3, NAssumption
    <3> QED BY <3>1, <3>2
  <2>4. Append(s, Min(bitmap)) = s
    BY <1>1, <1>4, <2>1, <2>3 DEF TryPreempt
  <2>5. Len(Append(s, Min(bitmap))) = Len(s) + 1
    BY <1>2, AppendProperties
  <2> QED BY <2>2, <2>4, <2>5
<1>5. CASE TryPreempt(s) # s
  <2>1. TryPreempt(s) = Append(s, Min(bitmap))
    BY <1>5 DEF TryPreempt
  <2>2. /\ Append(s, Min(bitmap)) # <<>>
        /\ Append(s, Min(bitmap))[Len(Append(s, Min(bitmap)))] = Min(bitmap)
    BY <1>2, AppendProperties
  <2>3. Min(bitmap) < Min(bitmap)
    BY <1>1, <1>3, <2>1, <2>2 DEF Top
  <2> QED BY <1>2, <2>3
<1> QED BY <1>4, <1>5

(* Clearing the bit of an executor cannot make another one more urgent. *)
LEMMA PendDequeue ==
  ASSUME PendOK, IInv, NEW p \in Prio, Dequeue(p)
  PROVE  PendOK'
<1>1. CASE run_queue[p] # <<>>
  BY <1>1, PendFrame DEF Dequeue, pending, Pending
<1>2. CASE run_queue[p] = <<>>
  <2> SUFFICES ASSUME ShouldPend' PROVE marker /\ msip
    BY <1>2 DEF PendOK, Dequeue, pending
  <2>1. bitmap' = bitmap \ {p} /\ prio_stack' = prio_stack /\ prio_stack # <<>> /\ Top(prio_stack) = p
    BY <1>2 DEF Dequeue, At
  <2>2. bitmap \in SUBSET Nat /\ bitmap' \in SUBSET Nat /\ bitmap' # {}
    BY <2>1 DEF IInv, QueueType, Prio, ShouldPend
  <2>3. Min(bitmap') \in bitmap' /\ Min(bitmap') < p
    BY <2>1, <2>2, MinNat DEF ShouldPend
  <2>4. bitmap # {} /\ Min(bitmap) \in Nat /\ Min(bitmap) <= Min(bitmap')
    BY <2>1, <2>2, <2>3, MinNat
  <2>5. Min(bitmap) < p
    <3>1. p \in Nat
      BY NAssumption DEF Prio
    <3>2. Min(bitmap') \in Nat
      BY <2>2, <2>3
    <3> QED BY <2>3, <2>4, <3>1, <3>2
  <2>6. ShouldPend
    BY <2>1, <2>4, <2>5 DEF ShouldPend
  <2> QED BY <2>1, <2>6 DEF PendOK, Dequeue, At
<1> QED BY <1>1, <1>2

(* wake_task with interrupts off pends whenever it pushes. *)
LEMMA PendWakeNow ==
  ASSUME PendOK, NEW u, WakeNow(u), UNCHANGED prio_stack,
         pc' = pc \/ \E p, l : At(p, l) /\ l \notin Pending
  PROVE  PendOK'
<1>1. CASE Pend
  BY <1>1, PendPend
<1>2. CASE UNCHANGED <<queues, pending>>
  BY <1>2, PendFrame, PendSame DEF queues, pending
<1> QED BY <1>1, <1>2 DEF WakeNow

(* No step of a frame leaves a more urgent executor unannounced. *)
LEMMA PendStep ==
  ASSUME PendOK, IInv, NEW p \in Prio, Step(p)
  PROVE  PendOK'
<1> USE DEF IInv
<1>1. CASE Dequeue(p)
  BY <1>1, PendDequeue
<1>2. CASE CallPollFn(p) \/ WakeOr(p)
  BY <1>2, PendFrame DEF CallPollFn, WakeOr, queues, pending, Pending
<1>3. CASE SpawnResult(p) \/ SpawnWaker(p) \/ SpawnFn(p) \/ SpawnFut(p) \/ SpawnOr(p)
  BY <1>3, PendFrame DEF SpawnResult, SpawnWaker, SpawnFn, SpawnFut, SpawnOr, queues, pending, Pending
<1>4. CASE JoinStore(p) \/ ReadyPtr(p) \/ ReadyDrop(p) \/ ReadyFn(p)
  BY <1>4, PendFrame DEF JoinStore, ReadyPtr, ReadyDrop, ReadyFn, queues, pending, Pending
<1>5. CASE WakePush(p) \/ SpawnPush(p)
  BY <1>5 DEF WakePush, SpawnPush, PendOK, At, Goto, Top, FrameInv, FrameType
<1>6. CASE PendMark(p)
  BY <1>6 DEF PendMark, PendOK, ShouldPend, At, Goto, Top, FrameInv, FrameType, queues
<1>7. CASE PendSend(p)
  BY <1>7 DEF PendSend, PendOK, ShouldPend, At, Top, queues
<1>8. CASE SpawnPend(p)
  BY <1>8, PendPend DEF SpawnPend, PendOK, ShouldPend, Top, queues
<1>9. CASE ReadyDespawn(p)
  <2>1. At(p, "r_cs") /\ "r_cs" \notin Pending
    BY <1>9 DEF ReadyDespawn, Pending
  <2>2. CASE waker[polling[p]] # NULL
    BY <1>9, <2>1, <2>2, PendWakeNow DEF ReadyDespawn
  <2>3. CASE waker[polling[p]] = NULL
    BY <1>9, <2>1, <2>3, PendFrame DEF ReadyDespawn, queues, pending
  <2> QED BY <2>2, <2>3
<1>10. CASE Complete(p)
  <2>1. PICK s \in Seq(Prio), f \in [Prio -> PC] : StackFor(s, f) /\ Schedule(s, f)
    BY <1>10, CompleteStack
  <2> QED BY <1>10, <2>1, PendSchedule DEF Complete, queues
<1> QED BY <1>1, <1>2, <1>3, <1>4, <1>5, <1>6, <1>7, <1>8, <1>9, <1>10 DEF Step

(* Nor does any interrupt, poll or step of main(). *)
LEMMA PendNext == PendOK /\ IInv /\ [Next]_vars => PendOK'
<1> SUFFICES ASSUME PendOK, IInv, [Next]_vars PROVE PendOK'
  OBVIOUS
<1> USE DEF IInv
<1>1. ASSUME NEW p \in Prio, Body(p) \/ PollReturn(p) PROVE PendOK'
  <2>1. At(p, "body") /\ "body" \notin Pending
    BY <1>1 DEF Body, PollReturn, WakeLoad, JoinTake, SpawnBegin, PollPending, PollReady, Pending
  <2>2. UNCHANGED <<bitmap, prio_stack, marker, msip>>
    BY <1>1 DEF Body, PollReturn, WakeLoad, JoinTake, SpawnBegin, PollPending, PollReady,
                queues, pending
  <2> QED BY <2>1, <2>2, PendFrame
<1>2. CASE MachineSoft
  <2>1. CASE marker
    <3>1. StackFor(prio_stack, pc) /\ prio_stack \in Seq(Prio) /\ pc \in [Prio -> PC]
      BY DEF FrameInv, FrameType, StackOK, StackFor, OnStack
    <3> QED BY <1>2, <2>1, <3>1, PendSchedule DEF MachineSoft, ClearPend, queues
  <2>2. CASE ~marker
    BY <1>2, <2>2 DEF MachineSoft, ClearPend, PendOK, ShouldPend, Top, queues, frame
  <2> QED BY <2>1, <2>2
<1>3. CASE ExternalMsi \/ Start
  BY <1>3, PendSame DEF ExternalMsi, Start, queues, pending, frame
<1>4. ASSUME NEW u \in Tasks, IrqWake(u) PROVE PendOK'
  BY <1>4, PendWakeNow DEF IrqWake, frame
<1>5. ASSUME NEW t \in Tasks, NEW q \in Prio, BootSpawn(t, q) PROVE PendOK'
  BY <1>5, PendPend DEF BootSpawn
<1>6. CASE UNCHANGED vars
  BY <1>6, PendSame DEF vars, queues, pending, frame
<1> QED BY <1>1, <1>2, <1>3, <1>4, <1>5, <1>6, PendStep DEF Next, Interrupt

(* A ready priority more urgent than the running executor is always behind *)
(* a pending MachineSoft with PEND_MARKER set, or the running frame is in  *)
(* the middle of platform::pend() or about to decide on it in              *)
(* Spawner::spawn: no wake is lost between fetch_or and the IPI, whatever  *)
(* interrupts come in between.                                             *)
THEOREM NoLostReadyAlways == Spec => []NoLostReady
<1>1. Init => PendOK
  BY DEF Init, PendOK, ShouldPend
<1>2. PendOK => NoLostReady
  BY DEF PendOK, NoLostReady
<1> QED BY <1>1, <1>2, InvAlways, PendNext, PTL DEF Spec

(* Part 3.  The run queues and the wakes they carry.                       *)

(* Appending a node to one list. *)
LEMMA LinkAppend ==
  ASSUME NEW rq \in [Prio -> Seq(Tasks)], NEW u \in Tasks, NEW q \in Prio, NEW sq,
         sq[q] = Append(rq[q], u), \A p \in Prio \ {q} : sq[p] = rq[p]
  PROVE  /\ \A t \in Tasks : LinkedIn(sq, t) <=> LinkedIn(rq, t) \/ t = u
         /\ DistinctIn(rq) /\ ~LinkedIn(rq, u) => DistinctIn(sq)
<1>1. /\ Len(rq[q]) \in Nat /\ Len(sq[q]) = Len(rq[q]) + 1
      /\ \A i \in 1 .. Len(rq[q]) : sq[q][i] = rq[q][i]
      /\ sq[q][Len(rq[q]) + 1] = u
      /\ \A p \in Prio \ {q} : sq[p] = rq[p]
  <2>1. rq[q] \in Seq(Tasks) /\ sq[q] = Append(rq[q], u)
    OBVIOUS
  <2>2. \A p \in Prio \ {q} : sq[p] = rq[p]
    OBVIOUS
  <2> QED BY <2>1, <2>2
<1>2. \A p \in Prio : \A i \in 1 .. Len(sq[p]) :
        \/ i \in 1 .. Len(rq[p]) /\ sq[p][i] = rq[p][i]
        \/ p = q /\ i = Len(rq[q]) + 1 /\ sq[p][i] = u
  <2>1. \A i \in 1 .. Len(sq[q]) :
          \/ i \in 1 .. Len(rq[q]) /\ sq[q][i] = rq[q][i]
          \/ i = Len(rq[q]) + 1 /\ sq[q][i] = u
    BY <1>1
  <2> QED BY <1>1, <2>1, Zenon
<1>3. \A p \in Prio : \A i \in 1 .. Len(rq[p]) : i \in 1 .. Len(sq[p]) /\ sq[p][i] = rq[p][i]
  <2>1. \A i \in 1 .. Len(rq[q]) : i \in 1 .. Len(sq[q]) /\ sq[q][i] = rq[q][i]
    BY <1>1
  <2> QED BY <1>1, <2>1, Zenon
<1>4. ASSUME NEW t \in Tasks PROVE LinkedIn(sq, t) <=> LinkedIn(rq, t) \/ t = u
  <2>1. Len(rq[q]) + 1 \in 1 .. Len(sq[q])
    BY <1>1
  <2>2. LinkedIn(sq, t) => LinkedIn(rq, t) \/ t = u
    BY <1>2, Zenon DEF LinkedIn
  <2>3. LinkedIn(rq, t) => LinkedIn(sq, t)
    BY <1>3, Zenon DEF LinkedIn
  <2>4. t = u => LinkedIn(sq, t)
    BY <1>1, <2>1, Zenon DEF LinkedIn
  <2> QED BY <2>2, <2>3, <2>4
<1>5. DistinctIn(rq) /\ ~LinkedIn(rq, u) => DistinctIn(sq)
  <2> SUFFICES ASSUME DistinctIn(rq), ~LinkedIn(rq, u),
                      NEW p \in Prio, NEW r \in Prio, NEW i \in 1 .. Len(sq[p]),
                      NEW j \in 1 .. Len(sq[r]), sq[p][i] = sq[r][j]
               PROVE  p = r /\ i = j
    BY Zenon DEF DistinctIn
  <2>1. \/ i \in 1 .. Len(rq[p]) /\ sq[p][i] = rq[p][i]
        \/ p = q /\ i = Len(rq[q]) + 1 /\ sq[p][i] = u
    BY <1>2, Zenon
  <2>2. \/ j \in 1 .. Len(rq[r]) /\ sq[r][j] = rq[r][j]
        \/ r = q /\ j = Len(rq[q]) + 1 /\ sq[r][j] = u
    BY <1>2, Zenon
  <2>3. i \in 1 .. Len(rq[p]) => rq[p][i] # u
    BY Zenon DEF LinkedIn
  <2>4. j \in 1 .. Len(rq[r]) => rq[r][j] # u
    BY Zenon DEF LinkedIn
  <2>5. i \in 1 .. Len(rq[p]) /\ j \in 1 .. Len(rq[r]) /\ rq[p][i] = rq[r][j] => p = r /\ i = j
    BY DEF DistinctIn
  <2> QED BY <2>1, <2>2, <2>3, <2>4, <2>5, Zenon
<1> QED BY <1>4, <1>5

(* Taking the head of one list, distinct from all the rest. *)
LEMMA LinkTail ==
  ASSUME NEW rq \in [Prio -> Seq(Tasks)], NEW q \in Prio, rq[q] # <<>>, NEW sq,
         sq[q] = Tail(rq[q]), \A p \in Prio \ {q} : sq[p] = rq[p], DistinctIn(rq)
  PROVE  /\ \A t \in Tasks : LinkedIn(sq, t) <=> LinkedIn(rq, t) /\ t # Head(rq[q])
         /\ DistinctIn(sq)
         /\ Head(rq[q]) \in Tasks /\ LinkedIn(rq, Head(rq[q]))
<1> DEFINE h == Head(rq[q])
<1>1. /\ Len(rq[q]) \in Nat \ {0} /\ Len(sq[q]) = Len(rq[q]) - 1
      /\ \A i \in 1 .. Len(rq[q]) - 1 : sq[q][i] = rq[q][i + 1]
      /\ rq[q][1] = h /\ h \in Tasks
      /\ \A p \in Prio \ {q} : sq[p] = rq[p]
  <2>1. rq[q] \in Seq(Tasks) /\ sq[q] = Tail(rq[q])
    OBVIOUS
  <2>2. \A p \in Prio \ {q} : sq[p] = rq[p]
    OBVIOUS
  <2> QED BY <2>1, <2>2
<1>2. LinkedIn(rq, h)
  BY <1>1 DEF LinkedIn
<1> HIDE DEF h
<1>3. \A p \in Prio : \A i \in 1 .. Len(sq[p]) :
        \/ p # q /\ i \in 1 .. Len(rq[p]) /\ sq[p][i] = rq[p][i]
        \/ p = q /\ i + 1 \in 1 .. Len(rq[p]) /\ i \in Nat \ {0} /\ sq[p][i] = rq[p][i + 1]
  <2>1. \A i \in 1 .. Len(sq[q]) :
          i + 1 \in 1 .. Len(rq[q]) /\ i \in Nat \ {0} /\ sq[q][i] = rq[q][i + 1]
    BY <1>1
  <2> QED BY <1>1, <2>1, Zenon
<1>4. DistinctIn(sq)
  <2> SUFFICES ASSUME NEW p \in Prio, NEW r \in Prio, NEW i \in 1 .. Len(sq[p]),
                      NEW j \in 1 .. Len(sq[r]), sq[p][i] = sq[r][j]
               PROVE  p = r /\ i = j
    BY DEF DistinctIn
  <2>1. CASE p # q
    BY <1>3, <2>1 DEF DistinctIn
  <2>2. CASE r # q
    BY <1>3, <2>2 DEF DistinctIn
  <2>3. CASE p = q /\ r = q
    <3>1. /\ i + 1 \in 1 .. Len(rq[p]) /\ sq[p][i] = rq[p][i + 1]
          /\ j + 1 \in 1 .. Len(rq[r]) /\ sq[r][j] = rq[r][j + 1]
          /\ i \in Nat /\ j \in Nat
      BY <1>3, <2>3
    <3>2. rq[p][i + 1] = rq[r][j + 1]
      BY <3>1
    <3>3. \A a \in 1 .. Len(rq[p]), b \in 1 .. Len(rq[r]) : rq[p][a] = rq[r][b] => a = b
      BY DEF DistinctIn
    <3>4. i + 1 = j + 1
      BY <3>1, <3>2, <3>3, Zenon
    <3> QED BY <2>3, <3>1, <3>4
  <2> QED BY <2>1, <2>2, <2>3
<1>5. ASSUME NEW t \in Tasks PROVE LinkedIn(sq, t) <=> LinkedIn(rq, t) /\ t # h
  <2>1. ASSUME LinkedIn(sq, t) PROVE LinkedIn(rq, t) /\ t # h
    <3>1. PICK p \in Prio : \E i \in 1 .. Len(sq[p]) : sq[p][i] = t
      BY <2>1 DEF LinkedIn
    <3>2. PICK k \in 1 .. Len(rq[p]) : rq[p][k] = t /\ (p = q => k # 1)
      BY <1>3, <3>1
    <3>3. 1 \in 1 .. Len(rq[q])
      BY <1>1
    <3>4. t # h
      BY <1>1, <3>2, <3>3 DEF DistinctIn
    <3> QED BY <3>2, <3>4 DEF LinkedIn
  <2>2. ASSUME LinkedIn(rq, t), t # h PROVE LinkedIn(sq, t)
    <3>1. PICK p \in Prio : \E k \in 1 .. Len(rq[p]) : rq[p][k] = t
      BY <2>2 DEF LinkedIn
    <3>. PICK k \in 1 .. Len(rq[p]) : rq[p][k] = t
      BY <3>1
    <3>2. CASE p # q
      BY <1>1, <3>1, <3>2 DEF LinkedIn
    <3>3. CASE p = q
      <4>1. k # 1
        BY <1>1, <2>2, <3>1, <3>3
      <4>2. k - 1 \in 1 .. Len(sq[q]) /\ sq[q][k - 1] = t
        BY <1>1, <3>1, <3>3, <4>1
      <4> QED BY <4>2 DEF LinkedIn
    <3> QED BY <3>2, <3>3
  <2> QED BY <2>1, <2>2
<1> QED BY <1>1, <1>2, <1>4, <1>5 DEF h

(* try_preempt starts a frame where there was none. *)
LEMMA FreshFrame ==
  ASSUME QueueType, NEW s \in Seq(Prio), NEW f \in [Prio -> PC], StackFor(s, f),
         Schedule(s, f)
  PROVE  pc' = f \/ \E m \in Prio : f[m] = "off" /\ pc' = [f EXCEPT ![m] = "loop"]
<1>1. CASE TryPreempt(s) = s
  BY <1>1 DEF Schedule
<1>2. CASE TryPreempt(s) # s
  <2> DEFINE m == Min(bitmap)
  <2>1. /\ bitmap # {} /\ (s = <<>> \/ m < Top(s))
        /\ TryPreempt(s) = Append(s, m)
    BY <1>2 DEF TryPreempt
  <2>2. m \in Prio /\ m \in 0 .. N - 1
    BY <2>1, MinReady DEF Prio
  <2> HIDE DEF m
  <2>3. Len(s) \in Nat /\ \A i \in 1 .. Len(s) : s[i] \in 0 .. N - 1
    <3>1. Len(s) \in Nat /\ \A i \in 1 .. Len(s) : s[i] \in Prio
      BY LenProperties, ElementOfSeq
    <3> QED BY <3>1 DEF Prio
  <2>4. \A i \in 1 .. Len(s) : m # s[i]
    <3> SUFFICES ASSUME NEW i \in 1 .. Len(s) PROVE m # s[i]
      OBVIOUS
    <3>1. m < s[Len(s)]
      BY <2>1, <2>3 DEF Top
    <3>2. i = Len(s) \/ s[Len(s)] < s[i]
      BY <2>3 DEF StackFor
    <3> QED BY <2>2, <2>3, <3>1, <3>2, NAssumption
  <2>5. f[m] = "off"
    BY <2>2, <2>4 DEF StackFor
  <2>6. Append(s, m)[Len(Append(s, m))] = m
    BY <2>2, AppendProperties
  <2>7. pc' = [f EXCEPT ![m] = "loop"]
    BY <1>2, <2>1, <2>6 DEF Schedule, Top
  <2> QED BY <2>2, <2>5, <2>7
<1> QED BY <1>1, <1>2

(* The scheduler only ends frames that returned and starts fresh ones. *)
LEMMA SchedulerMoves ==
  ASSUME IInv, MachineSoft \/ \E p \in Prio : Complete(p)
  PROVE  /\ \A q \in Prio : \/ pc'[q] = pc[q]
                            \/ pc[q] \in Resting /\ pc'[q] \in {"off", "loop"}
         /\ UNCHANGED <<polling, arg, to>>
<1> USE DEF IInv
<1>1. CASE MachineSoft /\ marker
  <2>1. StackFor(prio_stack, pc) /\ prio_stack \in Seq(Prio) /\ pc \in [Prio -> PC]
    BY DEF FrameInv, FrameType, StackOK, StackFor, OnStack
  <2>2. Schedule(prio_stack, pc)
    BY <1>1 DEF MachineSoft
  <2> QED BY <2>1, <2>2, FreshFrame DEF Schedule, Resting
<1>2. CASE MachineSoft /\ ~marker
  BY <1>2 DEF MachineSoft, frame
<1>3. ASSUME NEW p \in Prio, Complete(p)
      PROVE  /\ \A q \in Prio : \/ pc'[q] = pc[q]
                                \/ pc[q] \in Resting /\ pc'[q] \in {"off", "loop"}
             /\ UNCHANGED <<polling, arg, to>>
  <2>1. PICK s \in Seq(Prio), f \in [Prio -> PC] :
          /\ StackFor(s, f) /\ Schedule(s, f)
          /\ f = [pc EXCEPT ![p] = "off"]
    BY <1>3, CompleteStack
  <2>2. pc[p] = "returned" /\ pc \in [Prio -> PC]
    BY <1>3 DEF Complete, At, FrameInv, FrameType
  <2>3. pc' = f \/ \E m \in Prio : f[m] = "off" /\ pc' = [f EXCEPT ![m] = "loop"]
    BY <2>1, FreshFrame
  <2> QED BY <2>1, <2>2, <2>3 DEF Schedule, Resting
<1> QED BY <1>1, <1>2, <1>3

PushPoints == {"wake_push", "s_push"}

(* The frames between fetch_or and push are the same before and after. *)
SamePushers ==
  \A p \in Prio :
    /\ pc'[p] \in PushPoints <=> pc[p] \in PushPoints
    /\ pc[p] \in PushPoints => arg'[p] = arg[p]

(* A step of one frame that neither won a fetch_or nor was about to push. *)
LEMMA OnePusher ==
  ASSUME FrameInv, NEW p \in Prio, NEW l, pc[p] \notin PushPoints, l \notin PushPoints,
         pc' = [pc EXCEPT ![p] = l],
         \A q \in Prio \ {p} : arg'[q] = arg[q]
  PROVE  SamePushers
  BY DEF SamePushers, FrameInv, FrameType

(* Goto, Call, Return and EndPoll move one frame. *)
LEMMA SamePushersMove ==
  ASSUME FrameInv, NEW p \in Prio, pc[p] \notin PushPoints,
         \/ \E l : l \notin PushPoints /\ Goto(p, l)
         \/ \E l, u, q : l \notin PushPoints /\ Call(p, l, u, q)
         \/ Return(p) \/ EndPoll(p)
  PROVE  SamePushers
<1>1. \E l : l \notin PushPoints /\ pc' = [pc EXCEPT ![p] = l]
  BY DEF Goto, Call, Return, EndPoll, PushPoints
<1>2. \A q \in Prio \ {p} : arg'[q] = arg[q]
  BY DEF Goto, Call, Return, EndPoll, FrameInv, FrameType
<1> QED BY <1>1, <1>2, OnePusher

(* Steps that touch neither the lists nor RUN_QUEUED. *)
LEMMA LinkSame ==
  ASSUME LinkOK, SamePushers, UNCHANGED <<run_queue, run_queued>>
  PROVE  LinkOK'
<1>1. run_queue' = run_queue /\ run_queued' = run_queued
  OBVIOUS
<1>2. DistinctIn(run_queue')
  BY <1>1 DEF LinkOK
<1>3. \A t : LinkedIn(run_queue', t) <=> LinkedIn(run_queue, t)
  BY <1>1
<1>4. \A p \in Prio : Pushing(p)' <=> Pushing(p)
  BY DEF Pushing, SamePushers, PushPoints
<1>5. \A p \in Prio : Pushing(p) => arg'[p] = arg[p]
  BY DEF Pushing, SamePushers, PushPoints
<1> HIDE DEF SamePushers
<1> QED BY <1>1, <1>2, <1>3, <1>4, <1>5 DEF LinkOK, Pushing

(* A push by a caller that holds the right to it: the frame that won the   *)
(* fetch_or, which leaves the push point, or code with interrupts off that *)
(* sets RUN_QUEUED in the same step.                                       *)
LEMMA LinkPush ==
  ASSUME LinkOK, QueueType, NEW u \in Tasks, NEW q \in Prio, PushTask(u, q),
         ~LinkedIn(run_queue, u), run_queued' = run_queued \cup {u},
         \A p \in Prio : Pushing(p)' <=> Pushing(p) /\ arg[p] # u,
         \A p \in Prio : Pushing(p)' => arg'[p] = arg[p]
  PROVE  LinkOK'
<1>1. /\ run_queue \in [Prio -> Seq(Tasks)]
      /\ run_queue'[q] = Append(run_queue[q], u)
      /\ \A p \in Prio \ {q} : run_queue'[p] = run_queue[p]
  BY DEF PushTask, QueueType
<1>2. DistinctIn(run_queue')
  BY <1>1, LinkAppend DEF LinkOK
<1>3. \A t \in Tasks : LinkedIn(run_queue', t) <=> LinkedIn(run_queue, t) \/ t = u
  BY <1>1, LinkAppend
<1>4. ASSUME NEW p \in Prio, NEW r \in Prio, Pushing(p)', Pushing(r)', arg'[p] = arg'[r]
      PROVE  p = r
  BY <1>4 DEF LinkOK
<1>5. ASSUME NEW p \in Prio, Pushing(p)' PROVE ~LinkedIn(run_queue', arg'[p])
  <2>1. Pushing(p) /\ arg[p] # u /\ arg'[p] = arg[p]
    BY <1>5
  <2>2. ~LinkedIn(run_queue, arg[p])
    BY <2>1 DEF LinkOK
  <2>3. arg[p] \in Tasks => ~LinkedIn(run_queue', arg[p])
    BY <1>3, <2>1, <2>2
  <2>4. \A r \in Prio : run_queue'[r] \in Seq(Tasks)
    <3>1. \A r \in Prio : run_queue[r] \in Seq(Tasks)
      BY <1>1
    <3>2. Append(run_queue[q], u) \in Seq(Tasks)
      BY <3>1, AppendProperties
    <3> QED BY <1>1, <3>1, <3>2
  <2>5. LinkedIn(run_queue', arg[p]) => arg[p] \in Tasks
    BY <2>4, ElementOfSeq DEF LinkedIn
  <2> QED BY <2>1, <2>3, <2>5
<1>6. ASSUME NEW t \in Tasks
      PROVE  t \in run_queued' <=> LinkedIn(run_queue', t) \/ \E p \in Prio : Pushing(p)' /\ arg'[p] = t
  <2>1. t \in run_queued <=> LinkedIn(run_queue, t) \/ \E p \in Prio : Pushing(p) /\ arg[p] = t
    BY DEF LinkOK
  <2>2. CASE t = u
    BY <1>3, <2>2
  <2>3. CASE t # u
    <3>1. \A p \in Prio : Pushing(p)' /\ arg'[p] = t <=> Pushing(p) /\ arg[p] = t
      BY <2>3
    <3> QED BY <1>3, <2>1, <2>3, <3>1
  <2> QED BY <2>2, <2>3
<1> QED BY <1>2, <1>4, <1>5, <1>6 DEF LinkOK, Pushing

(* The fetch_or of wake_task or Spawner::spawn outside a critical section. *)
LEMMA LinkOr ==
  ASSUME LinkOK, IInv, NEW p \in Prio, WakeOr(p) \/ SpawnOr(p)
  PROVE  LinkOK'
<1>1. pc[p] \notin PushPoints /\ arg[p] \in Tasks
  BY AtHolds DEF WakeOr, SpawnOr, IInv, Holds, InWake, InSpawn, PushPoints
<1>2. run_queue' = run_queue /\ run_queued' = run_queued \cup {arg[p]}
  BY DEF WakeOr, SpawnOr
<1>3. CASE ~FirstEnqueue(arg[p])
  <2>1. run_queued' = run_queued
    BY <1>2, <1>3 DEF FirstEnqueue
  <2>2. SamePushers
    BY <1>1, <1>3, SamePushersMove DEF WakeOr, SpawnOr, IInv
  <2> QED BY <1>2, <2>1, <2>2, LinkSame
<1>4. CASE FirstEnqueue(arg[p])
  <2>1. /\ ~LinkedIn(run_queue, arg[p]) /\ arg[p] \notin run_queued
        /\ \A q \in Prio : Pushing(q) => arg[q] # arg[p]
    BY <1>1, <1>4 DEF LinkOK, FirstEnqueue
  <2>2. /\ arg' = arg
        /\ \A q \in Prio : Pushing(q)' <=> Pushing(q) \/ q = p
    BY <1>4 DEF WakeOr, SpawnOr, Goto, Pushing, IInv, FrameInv, FrameType
  <2>3. DistinctIn(run_queue') /\ \A t : LinkedIn(run_queue', t) <=> LinkedIn(run_queue, t)
    BY <1>2 DEF LinkOK
  <2>4. \A q, r \in Prio : Pushing(q)' /\ Pushing(r)' /\ arg'[q] = arg'[r] => q = r
    BY <2>1, <2>2 DEF LinkOK
  <2>5. \A q \in Prio : Pushing(q)' => ~LinkedIn(run_queue', arg'[q])
    BY <2>1, <2>2, <2>3 DEF LinkOK
  <2>6. \A t \in Tasks :
          t \in run_queued' <=> LinkedIn(run_queue', t) \/ \E q \in Prio : Pushing(q)' /\ arg'[q] = t
    BY <1>2, <2>1, <2>2, <2>3 DEF LinkOK
  <2> QED BY <2>3, <2>4, <2>5, <2>6 DEF LinkOK, Pushing
<1> QED BY <1>3, <1>4

(* The push of the frame that won the fetch_or. *)
LEMMA LinkPushes ==
  ASSUME LinkOK, IInv, NEW p \in Prio, WakePush(p) \/ SpawnPush(p)
  PROVE  LinkOK'
<1>1. arg[p] \in Tasks /\ to[p] \in Prio /\ Pushing(p)
  BY AtHolds DEF WakePush, SpawnPush, IInv, Holds, InWake, InSpawn, Pushing
<1>2. ~LinkedIn(run_queue, arg[p]) /\ arg[p] \in run_queued
  BY <1>1 DEF LinkOK
<1>3. PushTask(arg[p], to[p]) /\ run_queued' = run_queued \cup {arg[p]}
  BY <1>2 DEF WakePush, SpawnPush
<1>4. arg' = arg /\ \A q \in Prio : Pushing(q)' <=> Pushing(q) /\ q # p
  BY DEF WakePush, SpawnPush, Goto, Pushing, IInv, FrameInv, FrameType
<1>5. \A q \in Prio : Pushing(q)' <=> Pushing(q) /\ arg[q] # arg[p]
  BY <1>1, <1>4 DEF LinkOK
<1> QED BY <1>1, <1>2, <1>3, <1>4, <1>5, LinkPush DEF IInv

(* wake_task with interrupts off. *)
LEMMA LinkWakeNow ==
  ASSUME LinkOK, QueueType, NEW u \in Tasks, WakeNow(u), SamePushers
  PROVE  LinkOK'
<1>1. CASE executor_ptr[u] # NULL /\ FirstEnqueue(u)
  <2>1. /\ executor_ptr[u] \in Prio /\ PushTask(u, executor_ptr[u])
        /\ run_queued' = run_queued \cup {u}
    BY <1>1 DEF WakeNow, QueueType
  <2>2. ~LinkedIn(run_queue, u) /\ \A p \in Prio : Pushing(p) => arg[p] # u
    BY <1>1 DEF LinkOK, FirstEnqueue
  <2>3. \A p \in Prio : Pushing(p)' <=> Pushing(p) /\ arg[p] # u
    BY <2>2 DEF SamePushers, Pushing, PushPoints
  <2>4. \A p \in Prio : Pushing(p)' => arg'[p] = arg[p]
    BY DEF SamePushers, Pushing, PushPoints
  <2> QED BY <2>1, <2>2, <2>3, <2>4, LinkPush
<1>2. CASE ~(executor_ptr[u] # NULL /\ FirstEnqueue(u))
  BY <1>2, LinkSame DEF WakeNow, queues
<1> QED BY <1>1, <1>2

(* The critical section of Executor::run takes the head of its list and    *)
(* gives up RUN_QUEUED with it.                                            *)
LEMMA LinkDequeue ==
  ASSUME LinkOK, IInv, NEW p \in Prio, Dequeue(p)
  PROVE  LinkOK'
<1>1. pc[p] \notin PushPoints
  BY DEF Dequeue, At, PushPoints
<1>2. SamePushers
  <2>1. \E l : l \notin PushPoints /\ pc' = [pc EXCEPT ![p] = l]
    BY DEF Dequeue, Goto, PushPoints
  <2>2. arg' = arg
    BY DEF Dequeue, Goto
  <2> QED BY <1>1, <2>1, <2>2, OnePusher DEF IInv
<1>3. CASE run_queue[p] = <<>>
  BY <1>2, <1>3, LinkSame DEF Dequeue
<1>4. CASE run_queue[p] # <<>>
  <2> DEFINE h == Head(run_queue[p])
  <2>1. /\ run_queue'[p] = Tail(run_queue[p])
        /\ \A q \in Prio \ {p} : run_queue'[q] = run_queue[q]
        /\ run_queued' = run_queued \ {h}
        /\ run_queue \in [Prio -> Seq(Tasks)] /\ DistinctIn(run_queue)
    BY <1>4 DEF Dequeue, PopFront, RunDequeue, IInv, QueueType, LinkOK
  <2>2. /\ \A t \in Tasks : LinkedIn(run_queue', t) <=> LinkedIn(run_queue, t) /\ t # h
        /\ DistinctIn(run_queue')
        /\ h \in Tasks /\ LinkedIn(run_queue, h)
    BY <1>4, <2>1, LinkTail
  <2> HIDE DEF h
  <2>3. /\ arg' = arg
        /\ \A q \in Prio : Pushing(q)' <=> Pushing(q)
    BY <1>2, <1>4 DEF Dequeue, SamePushers, Pushing, PushPoints
  <2>4. \A q \in Prio : Pushing(q) => arg[q] \in Tasks /\ arg[q] # h
    BY <2>2 DEF LinkOK, Pushing, IInv, FrameInv, FrameOK, InWake, InSpawn
  <2>5. \A q, r \in Prio : Pushing(q)' /\ Pushing(r)' /\ arg'[q] = arg'[r] => q = r
    BY <2>3 DEF LinkOK
  <2>6. \A q \in Prio : Pushing(q)' => ~LinkedIn(run_queue', arg'[q])
    BY <2>2, <2>3, <2>4 DEF LinkOK
  <2>7. \A t \in Tasks :
          t \in run_queued' <=> LinkedIn(run_queue', t) \/ \E q \in Prio : Pushing(q)' /\ arg'[q] = t
    BY <2>1, <2>2, <2>3, <2>4 DEF LinkOK
  <2> QED BY <2>2, <2>5, <2>6, <2>7 DEF LinkOK, Pushing
<1> QED BY <1>3, <1>4

(* Each step of a frame keeps the lists and RUN_QUEUED in agreement. *)
LEMMA LinkStep ==
  ASSUME LinkOK, IInv, NEW p \in Prio, Step(p)
  PROVE  LinkOK'
<1> USE DEF IInv
<1>1. CASE Dequeue(p)
  BY <1>1, LinkDequeue
<1>2. CASE Complete(p)
  <2>1. SamePushers
    BY <1>2, SchedulerMoves DEF SamePushers, PushPoints, Resting
  <2> QED BY <1>2, <2>1, LinkSame DEF Complete, queues
<1>3. CASE CallPollFn(p) \/ PendMark(p) \/ PendSend(p)
  <2>1. SamePushers
    BY <1>3, SamePushersMove DEF CallPollFn, PendMark, PendSend, At, PushPoints
  <2> QED BY <1>3, <2>1, LinkSame DEF CallPollFn, PendMark, PendSend, queues
<1>4. CASE SpawnResult(p) \/ SpawnWaker(p) \/ SpawnFn(p) \/ SpawnFut(p) \/ SpawnPend(p)
  <2>1. SamePushers
    BY <1>4, SamePushersMove
       DEF SpawnResult, SpawnWaker, SpawnFn, SpawnFut, SpawnPend, At, PushPoints
  <2> QED BY <1>4, <2>1, LinkSame
          DEF SpawnResult, SpawnWaker, SpawnFn, SpawnFut, SpawnPend, queues
<1>5. CASE WakeOr(p) \/ SpawnOr(p)
  BY <1>5, LinkOr
<1>6. CASE WakePush(p) \/ SpawnPush(p)
  BY <1>6, LinkPushes
<1>7. CASE JoinStore(p) \/ ReadyPtr(p) \/ ReadyDrop(p) \/ ReadyFn(p)
  <2>1. SamePushers
    BY <1>7, SamePushersMove DEF JoinStore, ReadyPtr, ReadyDrop, ReadyFn, At, PushPoints
  <2> QED BY <1>7, <2>1, LinkSame DEF JoinStore, ReadyPtr, ReadyDrop, ReadyFn, queues
<1>8. CASE ReadyDespawn(p)
  <2>1. SamePushers
    BY <1>8, SamePushersMove DEF ReadyDespawn, At, PushPoints
  <2>2. polling[p] \in Tasks
    BY <1>8, AtHolds DEF ReadyDespawn
  <2>3. CASE waker[polling[p]] # NULL
    <3>1. waker[polling[p]] \in Tasks /\ WakeNow(waker[polling[p]])
      BY <1>8, <2>2, <2>3 DEF ReadyDespawn, JoinType
    <3> QED BY <2>1, <3>1, LinkWakeNow
  <2>4. CASE waker[polling[p]] = NULL
    BY <1>8, <2>1, <2>4, LinkSame DEF ReadyDespawn, queues
  <2> QED BY <2>3, <2>4
<1> QED BY <1>1, <1>2, <1>3, <1>4, <1>5, <1>6, <1>7, <1>8 DEF Step

(* So does every other action. *)
LEMMA LinkNext == LinkOK /\ BootOK /\ IInv /\ [Next]_vars => LinkOK'
<1> SUFFICES ASSUME LinkOK, BootOK, IInv, [Next]_vars PROVE LinkOK'
  OBVIOUS
<1> USE DEF IInv
<1>1. ASSUME NEW p \in Prio, Body(p) \/ PollReturn(p) PROVE LinkOK'
  <2>1. UNCHANGED <<run_queue, run_queued>>
    BY <1>1 DEF Body, PollReturn, WakeLoad, JoinTake, SpawnBegin, PollPending, PollReady, queues
  <2>2. pc[p] = "body"
    BY <1>1 DEF Body, PollReturn, WakeLoad, JoinTake, SpawnBegin, PollPending, PollReady, At
  <2>3. \/ UNCHANGED <<pc, arg>>
        \/ \E l : l \notin PushPoints /\ Goto(p, l)
        \/ \E l, u, q : l \notin PushPoints /\ Call(p, l, u, q)
        \/ EndPoll(p)
    BY <1>1 DEF Body, PollReturn, WakeLoad, JoinTake, SpawnBegin, PollPending, PollReady,
                frame, PushPoints
  <2>4. SamePushers
    <3>1. CASE UNCHANGED <<pc, arg>>
      BY <3>1 DEF SamePushers
    <3>2. CASE ~UNCHANGED <<pc, arg>>
      BY <2>2, <2>3, <3>2, SamePushersMove DEF PushPoints
    <3> QED BY <3>1, <3>2
  <2> QED BY <2>1, <2>4, LinkSame
<1>2. CASE MachineSoft
  <2>1. SamePushers
    BY <1>2, SchedulerMoves DEF SamePushers, PushPoints, Resting
  <2> QED BY <1>2, <2>1, LinkSame DEF MachineSoft, queues
<1>3. CASE ExternalMsi \/ Start \/ UNCHANGED vars
  <2>1. UNCHANGED <<pc, arg, run_queue, run_queued>>
    BY <1>3 DEF ExternalMsi, Start, vars, queues, frame
  <2> QED BY <2>1, LinkSame DEF SamePushers
<1>4. ASSUME NEW u \in Tasks, IrqWake(u) PROVE LinkOK'
  BY <1>4, LinkWakeNow DEF IrqWake, frame, SamePushers
<1>5. ASSUME NEW t \in Tasks, NEW q \in Prio, BootSpawn(t, q) PROVE LinkOK'
  <2>1. t \notin run_queued
    BY <1>5 DEF BootSpawn, BootOK, FirstSpawn
  <2>2. ~LinkedIn(run_queue, t) /\ \A p \in Prio : Pushing(p) => arg[p] # t
    BY <2>1 DEF LinkOK
  <2>3. pc' = pc /\ arg' = arg /\ PushTask(t, q) /\ run_queued' = run_queued \cup {t}
    BY <1>5 DEF BootSpawn, frame
  <2>4. \A p \in Prio : Pushing(p)' <=> Pushing(p) /\ arg[p] # t
    BY <2>2, <2>3 DEF Pushing
  <2> QED BY <2>2, <2>3, <2>4, LinkPush
<1> QED BY <1>1, <1>2, <1>3, <1>4, <1>5, LinkStep DEF Next, Interrupt

(* Only main() runs before start(). *)
LEMMA StartedNext ==
  ASSUME [Next]_vars
  PROVE  \/ \E t \in Tasks, q \in Prio : BootSpawn(t, q)
         \/ Start \/ UNCHANGED vars
         \/ started /\ UNCHANGED started
<1>1. CASE MachineSoft \/ Interrupt
  BY <1>1 DEF MachineSoft, Interrupt, ExternalMsi, IrqWake
<1>2. ASSUME NEW p \in Prio, Step(p) PROVE started /\ UNCHANGED started
  BY <1>2 DEF Step, Dequeue, CallPollFn, Complete, WakeOr, WakePush, PendMark, PendSend,
       SpawnResult, SpawnWaker, SpawnFn, SpawnFut, SpawnOr, SpawnPush, SpawnPend,
       JoinStore, ReadyPtr, ReadyDrop, ReadyFn, ReadyDespawn, At
<1>3. ASSUME NEW p \in Prio, Body(p) \/ PollReturn(p) PROVE started /\ UNCHANGED started
  BY <1>3 DEF Body, PollReturn, WakeLoad, JoinTake, SpawnBegin, PollPending, PollReady, At
<1> QED BY <1>1, <1>2, <1>3 DEF Next

(* Before start() every queued task is one main() just spawned. *)
LEMMA BootNext == BootOK /\ [Next]_vars => BootOK'
<1> SUFFICES ASSUME BootOK, [Next]_vars PROVE BootOK'
  OBVIOUS
<1>1. ASSUME NEW t \in Tasks, NEW q \in Prio, BootSpawn(t, q) PROVE BootOK'
  BY <1>1 DEF BootSpawn, BootOK
<1>2. CASE Start \/ UNCHANGED vars
  BY <1>2 DEF Start, vars, slot, queues, BootOK
<1>3. CASE started /\ UNCHANGED started
  BY <1>3 DEF BootOK
<1> QED BY <1>1, <1>2, <1>3, StartedNext

(* The lists and RUN_QUEUED agree in every reachable state. *)
LEMMA LinkAlways == Spec => [](LinkOK /\ BootOK)
<1>1. ASSUME Init PROVE LinkOK /\ BootOK
  <2>1. \A p \in Prio : Len(run_queue[p]) = 0
    BY <1>1 DEF Init
  <2>2. \A p \in Prio : 1 .. Len(run_queue[p]) = {}
    BY <2>1
  <2>3. DistinctIn(run_queue) /\ \A t : ~LinkedIn(run_queue, t)
    BY <2>2 DEF DistinctIn, LinkedIn
  <2>4. \A p \in Prio : ~Pushing(p)
    BY <1>1 DEF Init, Pushing
  <2> QED BY <1>1, <2>3, <2>4 DEF Init, LinkOK, BootOK
<1>2. Init => LinkOK /\ BootOK
  BY <1>1
<1> QED BY <1>2, InvAlways, LinkNext, BootNext, PTL DEF Spec

(* The node of a task is in one run queue once, or with the one frame      *)
(* between State::run_enqueue and the push, exactly while RUN_QUEUED is    *)
(* set: Executor::enqueue never links a node that is linked already.       *)
THEOREM LinkedOnceAlways == Spec => []LinkedOnce
<1>1. ASSUME IInv, LinkOK PROVE LinkedOnce
  <2> SUFFICES ASSUME NEW t \in Tasks
               PROVE  LET links == {l \in UNION {{p} \X DOMAIN run_queue[p] : p \in Prio} :
                                      run_queue[l[1]][l[2]] = t}
                          pushing == {p \in Prio : pc[p] \in {"wake_push", "s_push"} /\ arg[p] = t}
                      IN  Cardinality(links) + Cardinality(pushing)
                            = (IF t \in run_queued THEN 1 ELSE 0)
    BY DEF LinkedOnce
  <2> DEFINE links == {l \in UNION {{p} \X DOMAIN run_queue[p] : p \in Prio} :
                         run_queue[l[1]][l[2]] = t}
             pushing == {p \in Prio : pc[p] \in {"wake_push", "s_push"} /\ arg[p] = t}
  <2>1. \A p \in Prio : DOMAIN run_queue[p] = 1 .. Len(run_queue[p])
    BY <1>1 DEF IInv, QueueType
  <2>2. ASSUME NEW l PROVE l \in links <=> \E p \in Prio : \E i \in 1 .. Len(run_queue[p]) : l = <<p, i>> /\ run_queue[p][i] = t
    BY <2>1
  <2>3. \A p \in Prio : p \in pushing <=> Pushing(p) /\ arg[p] = t
    BY DEF Pushing
  <2>4. pushing \subseteq Prio
    OBVIOUS
  <2>5. LinkedIn(run_queue, t) <=> links # {}
    BY <2>2 DEF LinkedIn
  <2> HIDE DEF links, pushing
  <2>6. Cardinality({}) = 0
    BY FS_EmptySet
  <2>7. links # {} => Cardinality(links) = 1
    <3>1. ASSUME NEW l \in links PROVE links = {l}
      BY <1>1, <2>2 DEF LinkOK, DistinctIn
    <3> QED BY <3>1, FS_Singleton
  <2>8. pushing # {} => Cardinality(pushing) = 1
    <3>1. ASSUME NEW p \in pushing PROVE pushing = {p}
      BY <1>1, <2>3, <2>4 DEF LinkOK
    <3> QED BY <3>1, FS_Singleton
  <2>9. ~(links # {} /\ pushing # {})
    BY <1>1, <2>3, <2>4, <2>5 DEF LinkOK
  <2>10. t \in run_queued <=> links # {} \/ pushing # {}
    BY <1>1, <2>3, <2>4, <2>5 DEF LinkOK
  <2>11. Cardinality(links) + Cardinality(pushing) = (IF t \in run_queued THEN 1 ELSE 0)
    <3>1. CASE links = {} /\ pushing = {}
      BY <2>6, <2>10, <3>1
    <3>2. CASE links # {} /\ pushing = {}
      BY <2>6, <2>7, <2>10, <3>2
    <3>3. CASE links = {} /\ pushing # {}
      BY <2>6, <2>8, <2>10, <3>3
    <3> QED BY <2>9, <3>1, <3>2, <3>3
  <2> QED BY <2>11 DEF links, pushing
<1>2. IInv /\ LinkOK => LinkedOnce
  BY <1>1
<1> QED BY <1>2, InvAlways, LinkAlways, PTL

(* NoLostWake.                                                             *)

(* A frame about to poll stays so. *)
KeepsTaken ==
  \A p \in Prio : pc[p] = "dequeued" => pc'[p] = "dequeued" /\ polling'[p] = polling[p]

(* Goto, Call, Return and EndPoll of a frame elsewhere. *)
LEMMA KeepsTakenMove ==
  ASSUME FrameInv, NEW p \in Prio, pc[p] # "dequeued",
         (\E l : Goto(p, l)) \/ (\E l, u, q : Call(p, l, u, q)) \/ Return(p) \/ EndPoll(p)
  PROVE  KeepsTaken
  BY DEF Goto, Call, Return, EndPoll, FrameInv, FrameType, KeepsTaken

(* A step that clears no RUN_QUEUED and owes nothing new. *)
LEMMA OwedSame ==
  ASSUME OwedOK, KeepsTaken, run_queued \subseteq run_queued', owed' \subseteq owed
  PROVE  OwedOK'
  BY DEF OwedOK, KeepsTaken

(* A wake is owed together with RUN_QUEUED, whoever had set it. *)
LEMMA OwedWake ==
  ASSUME OwedOK, KeepsTaken, NEW u, u \in run_queued', run_queued \subseteq run_queued',
         owed' \subseteq owed \cup {u}
  PROVE  OwedOK'
  BY DEF OwedOK, KeepsTaken

(* wake_task with interrupts off. *)
LEMMA OwedWakeNow ==
  ASSUME OwedOK, KeepsTaken, NEW u, WakeNow(u)
  PROVE  OwedOK'
<1>1. CASE executor_ptr[u] = NULL
  BY <1>1, OwedSame DEF WakeNow, queues
<1>2. CASE executor_ptr[u] # NULL
  <2>1. u \in run_queued' /\ run_queued \subseteq run_queued' /\ owed' \subseteq owed \cup {u}
    BY <1>2 DEF WakeNow, FirstEnqueue, queues
  <2> QED BY <2>1, OwedWake
<1> QED BY <1>1, <1>2

(* No step of a frame absorbs a wake. *)
LEMMA OwedStep ==
  ASSUME OwedOK, IInv, NEW p \in Prio, Step(p)
  PROVE  OwedOK'
<1> USE DEF IInv
<1>1. CASE Dequeue(p)
  <2>1. pc[p] = "loop" /\ owed' = owed
    BY <1>1 DEF Dequeue, At
  <2>2. CASE run_queue[p] = <<>>
    BY <1>1, <2>1, <2>2, KeepsTakenMove, OwedSame DEF Dequeue
  <2>3. CASE run_queue[p] # <<>>
    <3>1. /\ run_queued' = run_queued \ {Head(run_queue[p])}
          /\ pc'[p] = "dequeued" /\ polling'[p] = Head(run_queue[p])
          /\ \A q \in Prio \ {p} : pc'[q] = pc[q] /\ polling'[q] = polling[q]
      BY <1>1, <2>3 DEF Dequeue, PopFront, RunDequeue, FrameInv, FrameType
    <3> QED BY <2>1, <3>1 DEF OwedOK
  <2> QED BY <2>2, <2>3
<1>2. CASE CallPollFn(p)
  <2>1. /\ run_queued' = run_queued /\ owed' = owed \ {polling[p]}
        /\ \A q \in Prio \ {p} : pc'[q] = pc[q] /\ polling'[q] = polling[q]
    BY <1>2 DEF CallPollFn, Goto, EndPoll, queues, FrameInv, FrameType
  <2> QED BY <2>1 DEF OwedOK
<1>3. CASE Complete(p)
  <2>1. KeepsTaken
    BY <1>3, SchedulerMoves DEF KeepsTaken, Resting
  <2> QED BY <1>3, <2>1, OwedSame DEF Complete, queues
<1>4. CASE WakeOr(p) \/ SpawnOr(p)
  <2>1. KeepsTaken
    BY <1>4, KeepsTakenMove DEF WakeOr, SpawnOr, At
  <2> QED BY <1>4, <2>1, OwedWake DEF WakeOr, SpawnOr
<1>5. CASE WakePush(p) \/ PendMark(p) \/ PendSend(p) \/ SpawnPush(p) \/ SpawnPend(p)
  <2>1. KeepsTaken
    BY <1>5, KeepsTakenMove DEF WakePush, PendMark, PendSend, SpawnPush, SpawnPend, At
  <2> QED BY <1>5, <2>1, OwedSame DEF WakePush, PendMark, PendSend, SpawnPush, SpawnPend, queues
<1>6. CASE SpawnResult(p) \/ SpawnWaker(p) \/ SpawnFn(p) \/ SpawnFut(p)
  <2>1. KeepsTaken
    BY <1>6, KeepsTakenMove DEF SpawnResult, SpawnWaker, SpawnFn, SpawnFut, At
  <2> QED BY <1>6, <2>1, OwedSame DEF SpawnResult, SpawnWaker, SpawnFn, SpawnFut, queues
<1>7. CASE JoinStore(p) \/ ReadyPtr(p) \/ ReadyDrop(p) \/ ReadyFn(p)
  <2>1. KeepsTaken
    BY <1>7, KeepsTakenMove DEF JoinStore, ReadyPtr, ReadyDrop, ReadyFn, At
  <2> QED BY <1>7, <2>1, OwedSame DEF JoinStore, ReadyPtr, ReadyDrop, ReadyFn, queues
<1>8. CASE ReadyDespawn(p)
  <2>1. KeepsTaken
    BY <1>8, KeepsTakenMove DEF ReadyDespawn, At
  <2> QED BY <1>8, <2>1, OwedSame, OwedWakeNow DEF ReadyDespawn, queues
<1> QED BY <1>1, <1>2, <1>3, <1>4, <1>5, <1>6, <1>7, <1>8 DEF Step

(* Nor does any other action. *)
LEMMA OwedNext == OwedOK /\ IInv /\ [Next]_vars => OwedOK'
<1> SUFFICES ASSUME OwedOK, IInv, [Next]_vars PROVE OwedOK'
  OBVIOUS
<1> USE DEF IInv
<1>1. ASSUME NEW p \in Prio, Body(p) \/ PollReturn(p) PROVE OwedOK'
  <2>1. UNCHANGED <<run_queued, owed>>
    BY <1>1 DEF Body, PollReturn, WakeLoad, JoinTake, SpawnBegin, PollPending, PollReady, queues
  <2>2. pc[p] = "body"
    BY <1>1 DEF Body, PollReturn, WakeLoad, JoinTake, SpawnBegin, PollPending, PollReady, At
  <2>3. UNCHANGED <<pc, polling>> \/ (\E l : Goto(p, l)) \/ (\E l, u, q : Call(p, l, u, q)) \/ EndPoll(p)
    BY <1>1 DEF Body, PollReturn, WakeLoad, JoinTake, SpawnBegin, PollPending, PollReady, frame
  <2>4. KeepsTaken
    <3>1. CASE UNCHANGED <<pc, polling>>
      BY <3>1 DEF KeepsTaken
    <3>2. CASE ~UNCHANGED <<pc, polling>>
      BY <2>2, <2>3, <3>2, KeepsTakenMove
    <3> QED BY <3>1, <3>2
  <2> QED BY <2>1, <2>4, OwedSame
<1>2. CASE MachineSoft
  <2>1. KeepsTaken
    BY <1>2, SchedulerMoves DEF KeepsTaken, Resting
  <2> QED BY <1>2, <2>1, OwedSame DEF MachineSoft, queues
<1>3. CASE ExternalMsi \/ Start \/ UNCHANGED vars
  <2>1. UNCHANGED <<pc, polling, run_queued, owed>>
    BY <1>3 DEF ExternalMsi, Start, vars, queues, frame
  <2> QED BY <2>1, OwedSame DEF KeepsTaken
<1>4. ASSUME NEW u \in Tasks, IrqWake(u) PROVE OwedOK'
  BY <1>4, OwedWakeNow DEF IrqWake, frame, KeepsTaken
<1>5. ASSUME NEW t \in Tasks, NEW q \in Prio, BootSpawn(t, q) PROVE OwedOK'
  BY <1>5, OwedWake DEF BootSpawn, frame, KeepsTaken
<1> QED BY <1>1, <1>2, <1>3, <1>4, <1>5, OwedStep DEF Next, Interrupt

(* A task woken since its last poll began is in a run queue, or with the   *)
(* frame that is about to push it, or taken from the queue and about to be *)
(* polled: RUN_QUEUED is cleared early enough, in RunQueue::dequeue, that  *)
(* no wake finds it stale.                                                 *)
THEOREM NoLostWakeAlways == Spec => []NoLostWake
<1>1. Init => OwedOK
  BY DEF Init, OwedOK
<1>2. ASSUME IInv, LinkOK, OwedOK PROVE NoLostWake
  <2>1. \A p \in Prio : DOMAIN run_queue[p] = 1 .. Len(run_queue[p])
    BY <1>2 DEF IInv, QueueType
  <2>2. owed \subseteq Tasks
    BY <1>2 DEF IInv, QueueType
  <2> QED BY <1>2, <2>1, <2>2 DEF OwedOK, LinkOK, LinkedIn, Pushing, NoLostWake
<1>3. IInv /\ LinkOK /\ OwedOK => NoLostWake
  BY <1>2
<1> QED BY <1>1, <1>3, InvAlways, LinkAlways, OwedNext, PTL DEF Spec

(* Part 4.  The life of a task.                                            *)

(* One frame moves to place l, now polling t and calling about u and q. *)
Moves(p, l, t, u, q) ==
  /\ pc'[p] = l /\ polling'[p] = t /\ arg'[p] = u /\ to'[p] = q
  /\ \A r \in Prio \ {p} :
       pc'[r] = pc[r] /\ polling'[r] = polling[r] /\ arg'[r] = arg[r] /\ to'[r] = to[r]

(* The frame operators in that form. *)
LEMMA MovesGoto ==
  ASSUME FrameInv, NEW p \in Prio, NEW l, Goto(p, l)
  PROVE  Moves(p, l, polling[p], arg[p], to[p])
  BY DEF Goto, Moves, FrameInv, FrameType

(* Entering a call. *)
LEMMA MovesCall ==
  ASSUME FrameInv, NEW p \in Prio, NEW l, NEW u, NEW q, Call(p, l, u, q)
  PROVE  Moves(p, l, polling[p], u, q)
  BY DEF Call, Moves, FrameInv, FrameType

(* Returning from it. *)
LEMMA MovesReturn ==
  ASSUME FrameInv, NEW p \in Prio, Return(p)
  PROVE  Moves(p, "body", polling[p], NULL, NULL)
  BY MovesCall DEF Return

(* The end of a poll. *)
LEMMA MovesEndPoll ==
  ASSUME FrameInv, NEW p \in Prio, EndPoll(p)
  PROVE  Moves(p, "loop", NULL, NULL, NULL)
  BY DEF EndPoll, Moves, FrameInv, FrameType

(* AppOK, for every application.                                           *)

(* What the moving frame must show. *)
AppMove(p, l, t, u, q) ==
  /\ l \notin Idle => p \in SpawnPrios[t]
  /\ l \in Builds \cup Wakening => q \in SpawnPrios[u]
  /\ l \in Builds => <<t, u>> \in Spawns
  /\ l \in Wakening => <<t, u>> \in Wakes
  /\ l \in InReady => t \in Finite

(* The frames that do not move keep it. *)
LEMMA AppFramesMove ==
  ASSUME AppFrames, NEW p \in Prio, NEW l, NEW t, NEW u, NEW q,
         Moves(p, l, t, u, q), AppMove(p, l, t, u, q)
  PROVE  AppFrames'
  BY DEF AppFrames, AppFrame, Moves, AppMove

(* A push at a priority the task is spawned at. *)
LEMMA AppQueuesPush ==
  ASSUME AppQueues, QueueType, NEW u \in Tasks, NEW q \in SpawnPrios[u], q \in Prio, PushTask(u, q)
  PROVE  AppQueues'
<1>1. \A t \in Tasks : executor_ptr'[t] \in {NULL} \cup SpawnPrios[t]
  BY DEF PushTask, AppQueues, QueueType
<1>2. /\ run_queue'[q] = Append(run_queue[q], u) /\ run_queue[q] \in Seq(Tasks)
      /\ \A p \in Prio \ {q} : run_queue'[p] = run_queue[p]
  BY DEF PushTask, QueueType
<1>3. \A i \in 1 .. Len(run_queue'[q]) :
        \/ i \in 1 .. Len(run_queue[q]) /\ run_queue'[q][i] = run_queue[q][i]
        \/ run_queue'[q][i] = u
  BY <1>2
<1>4. \A i \in 1 .. Len(run_queue'[q]) : q \in SpawnPrios[run_queue'[q][i]]
  BY <1>3 DEF AppQueues
<1>5. \A p \in Prio \ {q} : \A i \in 1 .. Len(run_queue'[p]) : p \in SpawnPrios[run_queue'[p][i]]
  BY <1>2 DEF AppQueues
<1> QED BY <1>1, <1>4, <1>5 DEF AppQueues

(* A wake with interrupts off pushes where the executor pointer says. *)
LEMMA AppQueuesWakeNow ==
  ASSUME AppQueues, QueueType, NEW u \in Tasks, WakeNow(u)
  PROVE  AppQueues'
<1>1. CASE executor_ptr[u] # NULL /\ FirstEnqueue(u)
  <2>1. executor_ptr[u] \in SpawnPrios[u] /\ executor_ptr[u] \in Prio /\ PushTask(u, executor_ptr[u])
    BY <1>1 DEF WakeNow, AppQueues, QueueType
  <2> QED BY <2>1, AppQueuesPush
<1>2. CASE ~(executor_ptr[u] # NULL /\ FirstEnqueue(u))
  BY <1>2 DEF WakeNow, queues, AppQueues
<1> QED BY <1>1, <1>2

(* A dequeue takes a task that belongs to the queue it is in. *)
LEMMA AppDequeue ==
  ASSUME AppQueues, AppFrames, IInv, NEW p \in Prio, Dequeue(p)
  PROVE  AppQueues' /\ AppFrames'
<1> USE DEF IInv
<1>1. CASE run_queue[p] = <<>>
  <2>1. Moves(p, "returned", polling[p], arg[p], to[p])
    BY <1>1, MovesGoto DEF Dequeue
  <2> QED BY <1>1, <2>1, AppFramesMove
          DEF Dequeue, AppQueues, AppMove, Idle, Builds, Wakening, InReady
<1>2. CASE run_queue[p] # <<>>
  <2>1. /\ run_queue[p] \in Seq(Tasks) /\ run_queue'[p] = Tail(run_queue[p])
        /\ \A q \in Prio \ {p} : run_queue'[q] = run_queue[q]
        /\ executor_ptr' = executor_ptr
    BY <1>2 DEF Dequeue, PopFront, QueueType
  <2>2. /\ 1 \in 1 .. Len(run_queue[p]) /\ Head(run_queue[p]) = run_queue[p][1]
        /\ \A i \in 1 .. Len(run_queue'[p]) :
             i + 1 \in 1 .. Len(run_queue[p]) /\ run_queue'[p][i] = run_queue[p][i + 1]
    BY <1>2, <2>1
  <2>3. AppQueues'
    <3>1. \A i \in 1 .. Len(run_queue'[p]) : p \in SpawnPrios[run_queue'[p][i]]
      BY <2>2 DEF AppQueues
    <3>2. \A q \in Prio \ {p} : \A i \in 1 .. Len(run_queue'[q]) : q \in SpawnPrios[run_queue'[q][i]]
      BY <2>1 DEF AppQueues
    <3> QED BY <2>1, <3>1, <3>2 DEF AppQueues
  <2>4. p \in SpawnPrios[Head(run_queue[p])]
    BY <2>2 DEF AppQueues
  <2>5. Moves(p, "dequeued", Head(run_queue[p]), arg[p], to[p])
    BY <1>2 DEF Dequeue, Moves, FrameInv, FrameType
  <2> QED BY <2>3, <2>4, <2>5, AppFramesMove DEF AppMove, Idle, Builds, Wakening, InReady
<1> QED BY <1>1, <1>2

(* Waking and spawning from a future. *)
LEMMA AppCalls ==
  ASSUME AppQueues, AppFrames, IInv, NEW p \in Prio,
         \/ \E u \in Tasks : WakeLoad(p, u)
         \/ WakeOr(p) \/ WakePush(p)
         \/ \E u \in Tasks, q \in Prio : SpawnBegin(p, u, q)
         \/ SpawnResult(p) \/ SpawnWaker(p) \/ SpawnFn(p) \/ SpawnFut(p) \/ SpawnOr(p) \/ SpawnPush(p)
  PROVE  AppQueues' /\ AppFrames'
<1> USE DEF IInv, AppMove, Idle, Builds, Wakening, InReady
<1>1. AppFrame(p)
  BY DEF AppFrames
<1>2. ASSUME NEW u \in Tasks, WakeLoad(p, u) PROVE AppQueues' /\ AppFrames'
  <2>1. Moves(p, "wake_or", polling[p], u, executor_ptr[u]) /\ pc[p] = "body"
    BY <1>2, MovesCall DEF WakeLoad, At
  <2>2. AppMove(p, "wake_or", polling[p], u, executor_ptr[u])
    BY <1>1, <1>2, <2>1 DEF WakeLoad, AppQueues, AppFrame
  <2> QED BY <1>2, <2>1, <2>2, AppFramesMove DEF WakeLoad, queues, AppQueues
<1>3. ASSUME NEW u \in Tasks, NEW q \in Prio, SpawnBegin(p, u, q) PROVE AppQueues' /\ AppFrames'
  <2>1. Moves(p, "s_result", polling[p], u, q) /\ pc[p] = "body"
    BY <1>3, MovesCall DEF SpawnBegin, At
  <2>2. AppMove(p, "s_result", polling[p], u, q)
    BY <1>1, <1>3, <2>1 DEF SpawnBegin, AppFrame
  <2> QED BY <1>3, <2>1, <2>2, AppFramesMove DEF SpawnBegin, queues, AppQueues
<1>4. CASE WakeOr(p) \/ SpawnOr(p)
  <2>1. pc[p] \in {"wake_or", "s_or"}
    BY <1>4 DEF WakeOr, SpawnOr, At
  <2>2. \/ Moves(p, "wake_push", polling[p], arg[p], to[p]) /\ pc[p] = "wake_or"
        \/ Moves(p, "s_push", polling[p], arg[p], to[p]) /\ pc[p] = "s_or"
        \/ Moves(p, "body", polling[p], NULL, NULL)
    BY <1>4, MovesGoto, MovesReturn DEF WakeOr, SpawnOr, At
  <2>3. AppFrames'
    BY <1>1, <2>1, <2>2, AppFramesMove DEF AppFrame
  <2> QED BY <1>4, <2>3 DEF WakeOr, SpawnOr, AppQueues
<1>5. CASE WakePush(p) \/ SpawnPush(p)
  <2>1. pc[p] \in {"wake_push", "s_push"} /\ arg[p] \in Tasks /\ to[p] \in Prio
    BY <1>5, AtHolds DEF WakePush, SpawnPush, At, Holds, InWake, InSpawn
  <2>2. \E l \in {"mark", "s_pend"} : Moves(p, l, polling[p], arg[p], to[p])
    BY <1>5, MovesGoto DEF WakePush, SpawnPush
  <2>3. AppFrames'
    BY <1>1, <2>1, <2>2, AppFramesMove DEF AppFrame
  <2>4. AppQueues'
    BY <1>1, <1>5, <2>1, AppQueuesPush DEF WakePush, SpawnPush, AppFrame
  <2> QED BY <2>3, <2>4
<1>6. CASE SpawnResult(p) \/ SpawnWaker(p) \/ SpawnFn(p) \/ SpawnFut(p)
  <2>1. /\ pc[p] \in {"s_result", "s_waker", "s_fn", "s_fut"}
        /\ \E l \in {"s_waker", "s_fn", "s_fut", "s_or"} : Moves(p, l, polling[p], arg[p], to[p])
    BY <1>6, MovesGoto DEF SpawnResult, SpawnWaker, SpawnFn, SpawnFut, At
  <2>2. AppFrames'
    BY <1>1, <2>1, AppFramesMove DEF AppFrame
  <2> QED BY <1>6, <2>2 DEF SpawnResult, SpawnWaker, SpawnFn, SpawnFut, queues, AppQueues
<1> QED BY <1>2, <1>3, <1>4, <1>5, <1>6

(* Polls and completion. *)
LEMMA AppPolls ==
  ASSUME AppQueues, AppFrames, IInv, NEW p \in Prio,
         \/ CallPollFn(p) \/ PendMark(p) \/ PendSend(p) \/ SpawnPend(p)
         \/ JoinStore(p) \/ (\E u \in Tasks : JoinTake(p, u)) \/ PollPending(p) \/ PollReady(p)
         \/ ReadyPtr(p) \/ ReadyDrop(p) \/ ReadyFn(p) \/ ReadyDespawn(p)
  PROVE  AppQueues' /\ AppFrames'
<1> USE DEF IInv, AppMove, Idle, Builds, Wakening, InReady
<1>1. AppFrame(p)
  BY DEF AppFrames
<1>2. CASE CallPollFn(p) \/ PendMark(p) \/ PendSend(p) \/ SpawnPend(p)
  <2>1. /\ pc[p] \in {"dequeued", "mark", "send", "s_pend"}
        /\ \/ \E l \in {"body", "send"} : \E u, q : Moves(p, l, polling[p], u, q)
           \/ Moves(p, "loop", NULL, NULL, NULL)
    BY <1>2, MovesGoto, MovesReturn, MovesEndPoll DEF CallPollFn, PendMark, PendSend, SpawnPend, At
  <2>2. AppFrames'
    BY <1>1, <2>1, AppFramesMove DEF AppFrame
  <2> QED BY <1>2, <2>2 DEF CallPollFn, PendMark, PendSend, SpawnPend, queues, AppQueues
<1>3. CASE JoinStore(p) \/ PollPending(p)
  BY <1>3, MovesEndPoll, AppFramesMove DEF JoinStore, PollPending, queues, AppQueues
<1>4. ASSUME NEW u \in Tasks, JoinTake(p, u) PROVE AppQueues' /\ AppFrames'
  <2>1. \/ UNCHANGED <<pc, polling, arg, to>>
        \/ Moves(p, "j_store", polling[p], u, NULL) /\ pc[p] = "body"
    BY <1>4, MovesCall DEF JoinTake, At, frame
  <2>2. AppFrames'
    <3>1. CASE UNCHANGED <<pc, polling, arg, to>>
      BY <3>1 DEF AppFrames, AppFrame
    <3>2. CASE Moves(p, "j_store", polling[p], u, NULL) /\ pc[p] = "body"
      BY <1>1, <3>2, AppFramesMove DEF AppFrame
    <3> QED BY <2>1, <3>1, <3>2
  <2> QED BY <1>4, <2>2 DEF JoinTake, queues, AppQueues
<1>5. CASE PollReady(p) \/ ReadyDrop(p) \/ ReadyFn(p)
  <2>1. /\ (pc[p] = "body" /\ polling[p] \in Finite) \/ pc[p] \in {"r_drop", "r_fn"}
        /\ \E l \in {"r_ptr", "r_fn", "r_cs"} : Moves(p, l, polling[p], arg[p], to[p])
    BY <1>5, MovesGoto DEF PollReady, ReadyDrop, ReadyFn, At
  <2>2. AppFrames'
    BY <1>1, <2>1, AppFramesMove DEF AppFrame
  <2> QED BY <1>5, <2>2 DEF PollReady, ReadyDrop, ReadyFn, queues, AppQueues
<1>6. CASE ReadyPtr(p)
  <2>1. pc[p] = "r_ptr" /\ Moves(p, "r_drop", polling[p], arg[p], to[p])
    BY <1>6, MovesGoto DEF ReadyPtr, At
  <2>2. AppFrames'
    BY <1>1, <2>1, AppFramesMove DEF AppFrame
  <2> QED BY <1>6, <2>2 DEF ReadyPtr, AppQueues, QueueType
<1>7. CASE ReadyDespawn(p)
  <2>1. AppFrames'
    BY <1>7, MovesEndPoll, AppFramesMove DEF ReadyDespawn
  <2>2. polling[p] \in Tasks
    BY <1>7, AtHolds DEF ReadyDespawn
  <2>3. CASE waker[polling[p]] # NULL
    <3>1. waker[polling[p]] \in Tasks /\ WakeNow(waker[polling[p]])
      BY <1>7, <2>2, <2>3 DEF ReadyDespawn, JoinType
    <3> QED BY <2>1, <3>1, AppQueuesWakeNow
  <2>4. CASE waker[polling[p]] = NULL
    BY <1>7, <2>1, <2>4 DEF ReadyDespawn, queues, AppQueues
  <2> QED BY <2>3, <2>4
<1> QED BY <1>2, <1>3, <1>4, <1>5, <1>6, <1>7

(* Every action keeps AppOK. *)
LEMMA AppNext == AppOK /\ IInv /\ [Next]_vars => AppOK'
<1> SUFFICES ASSUME AppQueues, AppFrames, IInv, [Next]_vars PROVE AppQueues' /\ AppFrames'
  BY DEF AppOK
<1> USE DEF IInv
<1>1. ASSUME NEW p \in Prio, Complete(p) PROVE AppQueues' /\ AppFrames'
  <2>1. AppFrames'
    BY <1>1, SchedulerMoves DEF AppFrames, AppFrame, Resting, Idle, Builds, Wakening, InReady
  <2> QED BY <1>1, <2>1 DEF Complete, queues, AppQueues
<1>2. ASSUME NEW p \in Prio, Step(p) PROVE AppQueues' /\ AppFrames'
  BY <1>1, <1>2, AppDequeue, AppCalls, AppPolls DEF Step
<1>3. ASSUME NEW p \in Prio, Body(p) \/ PollReturn(p) PROVE AppQueues' /\ AppFrames'
  BY <1>3, AppCalls, AppPolls DEF Body, PollReturn
<1>4. CASE MachineSoft
  <2>1. AppFrames'
    BY <1>4, SchedulerMoves DEF AppFrames, AppFrame, Resting, Idle, Builds, Wakening, InReady
  <2> QED BY <1>4, <2>1 DEF MachineSoft, queues, AppQueues
<1>5. CASE ExternalMsi \/ Start \/ UNCHANGED vars
  BY <1>5 DEF ExternalMsi, Start, vars, queues, frame, AppQueues, AppFrames, AppFrame
<1>6. ASSUME NEW u \in Tasks, IrqWake(u) PROVE AppQueues' /\ AppFrames'
  BY <1>6, AppQueuesWakeNow DEF IrqWake, frame, AppFrames, AppFrame
<1>7. ASSUME NEW t \in Tasks, NEW q \in Prio, BootSpawn(t, q) PROVE AppQueues' /\ AppFrames'
  BY <1>7, AppQueuesPush DEF BootSpawn, frame, AppFrames, AppFrame
<1> QED BY <1>2, <1>3, <1>4, <1>5, <1>6, <1>7 DEF Next, Interrupt

(* The frame on top of the stack is the most urgent one there is. *)
LEMMA TopLeast ==
  ASSUME IInv, NEW p \in Prio, NEW l, At(p, l), NEW q \in Prio, pc[q] # "off"
  PROVE  p <= q
<1>1. /\ prio_stack \in Seq(Prio) /\ prio_stack # <<>> /\ p = prio_stack[Len(prio_stack)]
      /\ Len(prio_stack) \in Nat
  BY LenProperties DEF At, Top, IInv, FrameInv, FrameType
<1>2. PICK i \in 1 .. Len(prio_stack) : q = prio_stack[i]
  BY DEF IInv, FrameInv, StackOK, OnStack
<1>3. CASE i = Len(prio_stack)
  BY <1>1, <1>2, <1>3 DEF Prio
<1>4. CASE i # Len(prio_stack)
  <2>1. i < Len(prio_stack) /\ Len(prio_stack) \in 1 .. Len(prio_stack)
    BY <1>1, <1>4
  <2>2. p < q
    BY <1>1, <1>2, <2>1 DEF IInv, FrameInv, StackOK
  <2> QED BY <2>2, NAssumption DEF Prio
<1> QED BY <1>3, <1>4

(* Two frames do not poll one task: it has one priority. *)
LEMMA OnePoller ==
  ASSUME Disciplined, AppFrames, FrameInv, NEW p \in Prio, NEW q \in Prio,
         pc[p] \notin Idle, pc[q] \notin Idle, polling[p] = polling[q]
  PROVE  p = q
<1>1. polling[p] \in Tasks /\ p \in SpawnPrios[polling[p]] /\ q \in SpawnPrios[polling[p]]
  BY DEF AppFrames, AppFrame, FrameInv, FrameOK, Idle
<1> QED BY <1>1 DEF Disciplined

(* The future of a task in its poll is whole until it is ready. *)
LEMMA PolledWakeable ==
  ASSUME Disciplined, AppFrames, IInv, SpawnedOK, BuildOK, PollOK, NEW p \in Prio,
         pc[p] \notin Idle \cup Finishes \cup {"dequeued"}
  PROVE  Wakeable(polling[p])
<1>1. polling[p] \in spawned
  BY DEF PollOK
<1>2. \A q \in Prio : pc[q] \in Builds => arg[q] # polling[p]
  BY DEF BuildOK
<1>3. \A q \in Prio : pc[q] \in Finishes => polling[q] # polling[p]
  BY OnePoller DEF IInv, Idle, Finishes
<1> QED BY <1>1, <1>2, <1>3 DEF SpawnedOK

(* Steps that keep what LifeOK is about: no frame enters or leaves the     *)
(* building or tearing down of a task, and no executor pointer appears or  *)
(* disappears.                                                             *)
CalmFrame(p) ==
  \/ pc'[p] = pc[p] /\ polling'[p] = polling[p] /\ arg'[p] = arg[p]
  \/ pc[p] \in Resting /\ pc'[p] \in {"off", "loop"}
  \/ /\ pc[p] \notin Idle \cup Finishes \cup {"dequeued"}
     /\ \/ pc'[p] = "loop" /\ pc[p] \notin Builds
        \/ /\ pc'[p] \notin Idle \cup Finishes \cup {"dequeued"}
           /\ polling'[p] = polling[p]
           /\ pc'[p] \in Builds <=> pc[p] \in Builds
           /\ pc'[p] \in Builds => pc'[p] \in {"s_waker", "s_fn"} /\ pc[p] # "s_push" /\ arg'[p] = arg[p]
           /\ pc'[p] \in Wakening => executor_ptr[arg'[p]] # NULL /\ arg'[p] \in Tasks

Calm ==
  /\ \A p \in Prio : CalmFrame(p)
  /\ UNCHANGED slot
  /\ \A t \in Tasks : executor_ptr'[t] = NULL <=> executor_ptr[t] = NULL
  /\ run_queued \subseteq run_queued'
  /\ \A t \in run_queued' \ run_queued : executor_ptr[t] # NULL

(* A step that leaves the slots, the builds and the pointers of the tasks *)
(* as they are keeps the life of every task in order.                      *)
LEMMA LifeCalm ==
  ASSUME LifeOK, IInv, IInv', Calm
  PROVE  LifeOK'
<1> USE DEF IInv
<1>0. /\ spawned' = spawned /\ poll_fn' = poll_fn /\ fut' = fut
      /\ spawned \subseteq Tasks
  BY DEF Calm, slot, SlotType
<1>1. UnspawnedOK'
  <2> SUFFICES ASSUME NEW t \in Tasks \ spawned
               PROVE  /\ executor_ptr'[t] = NULL /\ poll_fn'[t] # "poll"
                      /\ t \in run_queued' => t \in Finite /\ \A p \in SpawnPrios[t] : pc'[p] \notin Resting
    BY <1>0 DEF UnspawnedOK
  <2>1. executor_ptr[t] = NULL /\ poll_fn[t] # "poll"
    BY DEF LifeOK, UnspawnedOK
  <2>2. executor_ptr'[t] = NULL
    BY <2>1 DEF Calm
  <2>3. t \in run_queued' => t \in run_queued
    BY <2>1 DEF Calm
  <2>4. SpawnPrios[t] \subseteq Prio
    BY AppAssumption
  <2>5. \A p \in Prio : pc[p] \notin Resting => pc'[p] \notin Resting
    BY DEF Calm, CalmFrame, Resting, Idle
  <2> QED BY <1>0, <2>1, <2>2, <2>3, <2>4, <2>5 DEF LifeOK, UnspawnedOK
<1>2. SpawnedOK'
  <2> SUFFICES ASSUME NEW t \in spawned
               PROVE  \/ \E p \in Prio : pc'[p] \in Builds /\ arg'[p] = t
                      \/ \E p \in Prio : pc'[p] \in Finishes /\ polling'[p] = t
                      \/ Wakeable(t)'
    BY <1>0 DEF SpawnedOK
  <2>1. \A p \in Prio : pc[p] \in Builds => pc'[p] \in Builds /\ arg'[p] = arg[p]
    BY DEF Calm, CalmFrame, Resting, Builds
  <2>2. \A p \in Prio : pc[p] \in Finishes => pc'[p] \in Finishes /\ polling'[p] = polling[p]
    BY DEF Calm, CalmFrame, Resting, Finishes
  <2>3. Wakeable(t) => Wakeable(t)'
    BY <1>0 DEF Wakeable, Calm
  <2> QED BY <2>1, <2>2, <2>3 DEF LifeOK, SpawnedOK
<1>3. BuildOK'
  <2> SUFFICES ASSUME NEW p \in Prio, pc'[p] \in Builds
               PROVE  /\ arg'[p] \in spawned' /\ executor_ptr'[arg'[p]] = NULL
                      /\ pc'[p] # "s_push" => arg'[p] \notin run_queued'
                      /\ pc'[p] \in {"s_fut", "s_or", "s_push"} => poll_fn'[arg'[p]] = "poll"
                      /\ pc'[p] \in {"s_or", "s_push"} => fut'[arg'[p]] = "live"
                      /\ \A q \in Prio :
                           /\ pc'[q] \in Builds /\ arg'[q] = arg'[p] => q = p
                           /\ pc'[q] \notin Idle => polling'[q] # arg'[p]
    BY DEF BuildOK
  <2>1. \A q \in Prio : pc'[q] \in Builds => pc[q] \in Builds /\ arg'[q] = arg[q]
    BY DEF Calm, CalmFrame, Builds
  <2>2. \A q \in Prio : pc'[q] \notin Idle => pc[q] \notin Idle /\ polling'[q] = polling[q]
    BY DEF Calm, CalmFrame, Idle
  <2>3. \/ pc'[p] = pc[p]
        \/ pc'[p] \in {"s_waker", "s_fn"} /\ pc[p] # "s_push"
    BY DEF Calm, CalmFrame, Builds, Resting
  <2>4. /\ arg[p] \in spawned /\ executor_ptr[arg[p]] = NULL
        /\ pc[p] # "s_push" => arg[p] \notin run_queued
        /\ pc[p] \in {"s_fut", "s_or", "s_push"} => poll_fn[arg[p]] = "poll"
        /\ pc[p] \in {"s_or", "s_push"} => fut[arg[p]] = "live"
        /\ \A q \in Prio :
             /\ pc[q] \in Builds /\ arg[q] = arg[p] => q = p
             /\ pc[q] \notin Idle => polling[q] # arg[p]
    BY <2>1 DEF LifeOK, BuildOK
  <2>5. executor_ptr'[arg[p]] = NULL /\ (arg[p] \in run_queued' => arg[p] \in run_queued)
    BY <1>0, <2>4 DEF Calm
  <2> QED BY <1>0, <2>1, <2>2, <2>3, <2>4, <2>5
<1>4. WakingOK'
  <2> SUFFICES ASSUME NEW p \in Prio, pc'[p] \in Wakening PROVE executor_ptr'[arg'[p]] # NULL
    BY DEF WakingOK
  <2>1. arg'[p] \in Tasks
    BY DEF FrameInv, FrameOK, Wakening, InWake
  <2>2. executor_ptr[arg'[p]] # NULL
    BY DEF Calm, CalmFrame, Wakening, LifeOK, WakingOK
  <2> QED BY <2>1, <2>2 DEF Calm
<1>5. PollOK'
  <2> SUFFICES ASSUME NEW p \in Prio
               PROVE  /\ pc'[p] \notin Idle \cup {"dequeued"} => polling'[p] \in spawned'
                      /\ pc'[p] \in Finishes => executor_ptr'[polling'[p]] = NULL
                      /\ pc'[p] = "r_drop" => fut'[polling'[p]] = "live"
                      /\ pc'[p] = "r_cs" => poll_fn'[polling'[p]] # "poll"
                      /\ pc'[p] = "dequeued" /\ polling'[p] \notin spawned' => polling'[p] \in Finite
    BY DEF PollOK
  <2>1. \/ pc'[p] = pc[p] /\ polling'[p] = polling[p]
        \/ pc'[p] \in Idle
        \/ /\ pc[p] \notin Idle \cup {"dequeued"} /\ polling'[p] = polling[p]
           /\ pc'[p] \notin Finishes \cup {"dequeued"}
    BY DEF Calm, CalmFrame, Idle
  <2>2. pc[p] \in Finishes => polling[p] \in Tasks
    BY DEF FrameInv, FrameOK, Finishes
  <2>3. pc[p] \in Finishes => executor_ptr'[polling[p]] = NULL
    BY <2>2 DEF LifeOK, PollOK, Calm
  <2>4. pc'[p] \in Idle => pc'[p] \notin Finishes \cup {"dequeued"}
    BY DEF Idle, Finishes
  <2>5. {"r_drop", "r_cs"} \subseteq Finishes
    BY DEF Finishes
  <2> QED BY <1>0, <2>1, <2>3, <2>4, <2>5 DEF LifeOK, PollOK
<1> QED BY <1>1, <1>2, <1>3, <1>4, <1>5 DEF LifeOK

(* The calm actions. *)

CalmPlace(p, l, t, u) ==
  /\ pc[p] \notin Idle \cup Finishes \cup {"dequeued"}
  /\ \/ l = "loop" /\ pc[p] \notin Builds
     \/ /\ l \notin Idle \cup Finishes \cup {"dequeued"}
        /\ t = polling[p]
        /\ l \in Builds <=> pc[p] \in Builds
        /\ l \in Builds => l \in {"s_waker", "s_fn"} /\ pc[p] # "s_push" /\ u = arg[p]
        /\ l \in Wakening => executor_ptr[u] # NULL /\ u \in Tasks

(* One calm move leaves all frames calm. *)
LEMMA CalmMoves ==
  ASSUME NEW p \in Prio, NEW l, NEW t, NEW u, NEW q, Moves(p, l, t, u, q), CalmPlace(p, l, t, u)
  PROVE  \A r \in Prio : CalmFrame(r)
  BY DEF Moves, CalmPlace, CalmFrame

(* What wake_task with interrupts off does to the tasks. *)
LEMMA WakeNowCalm ==
  ASSUME QueueType, NEW u \in Tasks, WakeNow(u)
  PROVE  /\ executor_ptr' = executor_ptr
         /\ run_queued \subseteq run_queued'
         /\ \A t \in run_queued' \ run_queued : t = u /\ executor_ptr[t] # NULL
<1>1. CASE executor_ptr[u] # NULL /\ FirstEnqueue(u)
  BY <1>1 DEF WakeNow, PushTask, QueueType
<1>2. CASE ~(executor_ptr[u] # NULL /\ FirstEnqueue(u))
  BY <1>2 DEF WakeNow, queues
<1> QED BY <1>1, <1>2

(* The executor that is woken through stays the same. *)
LEMMA CalmCalls ==
  ASSUME LifeOK, IInv, NEW p \in Prio,
         \/ \E u \in Tasks : WakeLoad(p, u)
         \/ WakeOr(p) \/ WakePush(p) \/ PendMark(p) \/ PendSend(p)
         \/ SpawnResult(p) \/ SpawnWaker(p) \/ SpawnPend(p)
         \/ (\E u \in Tasks : JoinTake(p, u)) \/ JoinStore(p) \/ PollPending(p) \/ PollReady(p)
  PROVE  Calm
<1> USE DEF IInv, CalmPlace, Idle, Finishes, Builds, Wakening
<1>1. ASSUME NEW u \in Tasks, WakeLoad(p, u) PROVE Calm
  <2>1. Moves(p, "wake_or", polling[p], u, executor_ptr[u]) /\ pc[p] = "body"
    BY <1>1, MovesCall DEF WakeLoad, At
  <2>2. \A r \in Prio : CalmFrame(r)
    BY <1>1, <2>1, CalmMoves DEF WakeLoad
  <2> QED BY <1>1, <2>2 DEF WakeLoad, queues, Calm
<1>2. CASE WakeOr(p)
  <2>1. pc[p] = "wake_or" /\ arg[p] \in Tasks /\ executor_ptr[arg[p]] # NULL
    BY <1>2, AtHolds DEF WakeOr, At, Holds, InWake, LifeOK, WakingOK
  <2>2. Moves(p, "wake_push", polling[p], arg[p], to[p]) \/ Moves(p, "body", polling[p], NULL, NULL)
    BY <1>2, MovesGoto, MovesReturn DEF WakeOr
  <2>3. \A r \in Prio : CalmFrame(r)
    BY <2>1, <2>2, CalmMoves
  <2> QED BY <1>2, <2>1, <2>3 DEF WakeOr, Calm
<1>3. CASE WakePush(p)
  <2>1. pc[p] = "wake_push" /\ arg[p] \in Tasks /\ to[p] \in Prio /\ executor_ptr[arg[p]] # NULL
    BY <1>3, AtHolds DEF WakePush, At, Holds, InWake, LifeOK, WakingOK
  <2>2. Moves(p, "mark", polling[p], arg[p], to[p])
    BY <1>3, MovesGoto DEF WakePush
  <2>3. \A r \in Prio : CalmFrame(r)
    BY <2>1, <2>2, CalmMoves
  <2>4. \A t \in Tasks : executor_ptr'[t] = NULL <=> executor_ptr[t] = NULL
    BY <1>3, <2>1, NullAssumption DEF WakePush, PushTask, QueueType
  <2> QED BY <1>3, <2>3, <2>4 DEF WakePush, Calm
<1>4. CASE PendMark(p) \/ PendSend(p) \/ SpawnPend(p)
  <2>1. pc[p] \in {"mark", "send", "s_pend"}
    BY <1>4 DEF PendMark, PendSend, SpawnPend, At
  <2>2. \E l \in {"send", "body"} : \E u, q : Moves(p, l, polling[p], u, q)
    BY <1>4, MovesGoto, MovesReturn DEF PendMark, PendSend, SpawnPend
  <2>3. \A r \in Prio : CalmFrame(r)
    BY <2>1, <2>2, CalmMoves
  <2> QED BY <1>4, <2>3 DEF PendMark, PendSend, SpawnPend, queues, Calm
<1>5. CASE SpawnResult(p) \/ SpawnWaker(p)
  <2>1. /\ pc[p] \in {"s_result", "s_waker"}
        /\ \E l \in {"s_waker", "s_fn"} : Moves(p, l, polling[p], arg[p], to[p])
    BY <1>5, MovesGoto DEF SpawnResult, SpawnWaker, At
  <2>2. \A r \in Prio : CalmFrame(r)
    BY <2>1, CalmMoves
  <2> QED BY <1>5, <2>2 DEF SpawnResult, SpawnWaker, queues, Calm
<1>6. ASSUME NEW u \in Tasks, JoinTake(p, u) PROVE Calm
  <2>1. \/ UNCHANGED <<pc, polling, arg>>
        \/ Moves(p, "j_store", polling[p], u, NULL) /\ pc[p] = "body"
    BY <1>6, MovesCall DEF JoinTake, At, frame
  <2>2. \A r \in Prio : CalmFrame(r)
    <3>1. CASE UNCHANGED <<pc, polling, arg>>
      BY <3>1 DEF CalmFrame
    <3>2. CASE Moves(p, "j_store", polling[p], u, NULL) /\ pc[p] = "body"
      BY <3>2, CalmMoves
    <3> QED BY <2>1, <3>1, <3>2
  <2> QED BY <1>6, <2>2 DEF JoinTake, queues, Calm
<1>7. CASE JoinStore(p) \/ PollPending(p)
  <2>1. pc[p] \in {"j_store", "body"} /\ Moves(p, "loop", NULL, NULL, NULL)
    BY <1>7, MovesEndPoll DEF JoinStore, PollPending, At
  <2>2. \A r \in Prio : CalmFrame(r)
    BY <2>1, CalmMoves
  <2> QED BY <1>7, <2>2 DEF JoinStore, PollPending, queues, Calm
<1>8. CASE PollReady(p)
  <2>1. pc[p] = "body" /\ Moves(p, "r_ptr", polling[p], arg[p], to[p])
    BY <1>8, MovesGoto DEF PollReady, At
  <2>2. \A r \in Prio : CalmFrame(r)
    BY <2>1, CalmMoves
  <2> QED BY <1>8, <2>2 DEF PollReady, queues, Calm
<1> QED BY <1>1, <1>2, <1>3, <1>4, <1>5, <1>6, <1>7, <1>8

(* Interrupts and the scheduler. *)
LEMMA CalmSystem ==
  ASSUME IInv, \/ MachineSoft \/ (\E p \in Prio : Complete(p))
               \/ Interrupt \/ Start \/ UNCHANGED vars
  PROVE  Calm
<1> USE DEF IInv
<1>1. CASE MachineSoft \/ \E p \in Prio : Complete(p)
  <2>1. \A r \in Prio : CalmFrame(r)
    BY <1>1, SchedulerMoves DEF CalmFrame
  <2> QED BY <1>1, <2>1 DEF MachineSoft, Complete, queues, Calm
<1>2. CASE ExternalMsi \/ Start \/ UNCHANGED vars
  BY <1>2 DEF ExternalMsi, Start, vars, queues, frame, Calm, CalmFrame
<1>3. ASSUME NEW u \in Tasks, IrqWake(u) PROVE Calm
  BY <1>3, WakeNowCalm DEF IrqWake, frame, Calm, CalmFrame
<1> QED BY <1>1, <1>2, <1>3 DEF Interrupt

(* TaskStorage::spawn.                                                     *)

(* The slot that State::spawn claims is at rest: the executor that ran the *)
(* task before is more urgent than the spawning future, so it has finished *)
(* and has left nothing queued.                                            *)
LEMMA ClaimedAtRest ==
  ASSUME LifeOK, IInv, AppOK, Disciplined, NEW p \in Prio, NEW u \in Tasks, NEW q \in Prio,
         SpawnBegin(p, u, q)
  PROVE  /\ u \notin spawned /\ executor_ptr[u] = NULL /\ u \notin run_queued
         /\ \A r \in Prio : pc[r] \notin Idle => polling[r] # u
         /\ \A r \in Prio : pc[r] \in Builds => arg[r] # u
<1> USE DEF IInv
<1>1. /\ u \notin spawned /\ pc[p] = "body" /\ polling[p] \in Tasks
      /\ <<polling[p], u>> \in Spawns /\ q \in SpawnPrios[u]
  BY AtHolds DEF SpawnBegin, FirstSpawn, At
<1>2. executor_ptr[u] = NULL
  BY <1>1 DEF LifeOK, UnspawnedOK
<1>3. p \in SpawnPrios[polling[p]]
  BY <1>1 DEF AppOK, AppFrames, AppFrame, Idle
<1>4. ASSUME u \in Finite, NEW r \in Prio, r \in SpawnPrios[u] PROVE pc[r] = "off"
  <2>1. r < p
    BY <1>1, <1>3, <1>4 DEF Disciplined
  <2>2. pc[r] # "off" => p <= r
    BY TopLeast DEF SpawnBegin
  <2> QED BY <2>1, <2>2, NAssumption DEF Prio
<1>5. u \notin run_queued
  BY <1>1, <1>4 DEF LifeOK, UnspawnedOK, Resting
<1>6. ASSUME NEW r \in Prio, pc[r] \notin Idle, polling[r] = u PROVE FALSE
  <2>1. r \in SpawnPrios[u]
    BY <1>6 DEF AppOK, AppFrames, AppFrame
  <2>2. u \in Finite
    BY <1>1, <1>6 DEF LifeOK, PollOK
  <2> QED BY <1>4, <1>6, <2>1, <2>2 DEF Idle
<1>7. \A r \in Prio : pc[r] \in Builds => arg[r] # u
  BY <1>1 DEF LifeOK, BuildOK
<1> QED BY <1>1, <1>2, <1>5, <1>6, <1>7

(* It now belongs to the spawning frame. *)
LEMMA LifeSpawnBegin ==
  ASSUME LifeOK, IInv, AppOK, Disciplined, NEW p \in Prio, NEW u \in Tasks, NEW q \in Prio,
         SpawnBegin(p, u, q)
  PROVE  LifeOK'
<1> USE DEF IInv
<1>1. /\ u \notin spawned /\ executor_ptr[u] = NULL /\ u \notin run_queued
      /\ \A r \in Prio : pc[r] \notin Idle => polling[r] # u
      /\ \A r \in Prio : pc[r] \in Builds => arg[r] # u
  BY ClaimedAtRest
<1>2. pc[p] = "body" /\ Moves(p, "s_result", polling[p], u, q)
  BY MovesCall DEF SpawnBegin, At
<1>3. /\ spawned' = spawned \cup {u} /\ poll_fn' = poll_fn /\ fut' = fut
      /\ executor_ptr' = executor_ptr /\ run_queued' = run_queued
  BY DEF SpawnBegin, queues
<1>4. UnspawnedOK'
  BY <1>2, <1>3, AppAssumption DEF LifeOK, UnspawnedOK, Moves, Resting
<1>5. SpawnedOK'
  BY <1>2, <1>3 DEF LifeOK, SpawnedOK, Moves, Builds, Finishes, Wakeable
<1>6. BuildOK'
  BY <1>1, <1>2, <1>3 DEF LifeOK, BuildOK, Moves, Builds, Idle
<1>7. WakingOK'
  BY <1>2, <1>3 DEF LifeOK, WakingOK, Moves, Wakening
<1>8. PollOK'
  BY <1>2, <1>3 DEF LifeOK, PollOK, Moves, Idle, Finishes
<1> QED BY <1>4, <1>5, <1>6, <1>7, <1>8 DEF LifeOK

(* The stores to the slot. *)
LEMMA LifeSpawnStores ==
  ASSUME LifeOK, IInv, NEW p \in Prio, SpawnFn(p) \/ SpawnFut(p)
  PROVE  LifeOK'
<1> USE DEF IInv
<1> DEFINE u == arg[p]
<1>1. /\ u \in Tasks /\ pc[p] \in {"s_fn", "s_fut"}
      /\ Moves(p, IF pc[p] = "s_fn" THEN "s_fut" ELSE "s_or", polling[p], u, to[p])
  BY AtHolds, MovesGoto DEF SpawnFn, SpawnFut, At, Holds, InSpawn
<1>2. /\ spawned' = spawned /\ executor_ptr' = executor_ptr /\ run_queued' = run_queued
      /\ \A t \in Tasks \ {u} : poll_fn'[t] = poll_fn[t] /\ fut'[t] = fut[t]
      /\ pc[p] = "s_fn" => poll_fn'[u] = "poll" /\ fut'[u] = fut[u]
      /\ pc[p] = "s_fut" => poll_fn'[u] = poll_fn[u] /\ fut'[u] = "live"
  BY <1>1 DEF SpawnFn, SpawnFut, WriteFut, queues, SlotType, At
<1>3. /\ u \in spawned /\ executor_ptr[u] = NULL /\ u \notin run_queued
      /\ pc[p] = "s_fut" => poll_fn[u] = "poll"
      /\ \A r \in Prio : pc[r] \notin Idle => polling[r] # u
      /\ \A r \in Prio : pc[r] \in Builds /\ arg[r] = u => r = p
  BY <1>1 DEF LifeOK, BuildOK, Builds
<1>4. pc'[p] \in {"s_fut", "s_or"} /\ (pc[p] = "s_fn" <=> pc'[p] = "s_fut")
  BY <1>1 DEF Moves
<1>5. /\ polling' = polling /\ arg' = arg
      /\ \A r \in Prio \ {p} : pc'[r] = pc[r]
  BY <1>1 DEF SpawnFn, SpawnFut, Goto, Moves
<1>6. spawned \subseteq Tasks
  BY DEF SlotType
<1> HIDE DEF u
<1>7. UnspawnedOK'
  BY <1>2, <1>3, <1>4, <1>5, AppAssumption DEF LifeOK, UnspawnedOK, Resting
<1>8. SpawnedOK'
  <2> SUFFICES ASSUME NEW t \in spawned
               PROVE  \/ \E r \in Prio : pc'[r] \in Builds /\ arg'[r] = t
                      \/ \E r \in Prio : pc'[r] \in Finishes /\ polling'[r] = t
                      \/ Wakeable(t)'
    BY <1>2 DEF SpawnedOK
  <2>1. CASE t = u
    BY <1>4, <1>5, <2>1 DEF Builds, u
  <2>2. CASE t # u
    <3>1. Wakeable(t) => Wakeable(t)'
      BY <1>2, <1>6, <2>2 DEF Wakeable
    <3>2. \A r \in Prio : pc[r] \in Finishes => pc'[r] = pc[r]
      BY <1>1, <1>5 DEF Finishes
    <3> QED BY <1>4, <1>5, <2>2, <3>1, <3>2 DEF LifeOK, SpawnedOK, Builds, u
  <2> QED BY <2>1, <2>2
<1>9. BuildOK'
  <2> SUFFICES ASSUME NEW r \in Prio, pc'[r] \in Builds
               PROVE  /\ arg'[r] \in spawned' /\ executor_ptr'[arg'[r]] = NULL
                      /\ pc'[r] # "s_push" => arg'[r] \notin run_queued'
                      /\ pc'[r] \in {"s_fut", "s_or", "s_push"} => poll_fn'[arg'[r]] = "poll"
                      /\ pc'[r] \in {"s_or", "s_push"} => fut'[arg'[r]] = "live"
                      /\ \A x \in Prio :
                           /\ pc'[x] \in Builds /\ arg'[x] = arg'[r] => x = r
                           /\ pc'[x] \notin Idle => polling'[x] # arg'[r]
    BY DEF BuildOK
  <2>1. \A x \in Prio : /\ pc'[x] \in Builds <=> pc[x] \in Builds
                        /\ pc'[x] \in Idle <=> pc[x] \in Idle
    BY <1>1, <1>4, <1>5 DEF Builds, Idle
  <2>2. CASE r = p
    BY <1>1, <1>2, <1>3, <1>4, <1>5, <2>1, <2>2 DEF u
  <2>3. CASE r # p
    <3>1. arg[r] # u /\ arg[r] \in Tasks /\ pc'[r] = pc[r] /\ pc[r] \in Builds
      BY <1>3, <1>5, <1>6, <2>3, <2>1 DEF LifeOK, BuildOK
    <3> QED BY <1>2, <1>5, <2>1, <3>1 DEF LifeOK, BuildOK
  <2> QED BY <2>2, <2>3
<1>10. WakingOK'
  BY <1>2, <1>4, <1>5 DEF LifeOK, WakingOK, Wakening
<1>11. PollOK'
  <2> SUFFICES ASSUME NEW r \in Prio
               PROVE  /\ pc'[r] \notin Idle \cup {"dequeued"} => polling'[r] \in spawned'
                      /\ pc'[r] \in Finishes => executor_ptr'[polling'[r]] = NULL
                      /\ pc'[r] = "r_drop" => fut'[polling'[r]] = "live"
                      /\ pc'[r] = "r_cs" => poll_fn'[polling'[r]] # "poll"
                      /\ pc'[r] = "dequeued" /\ polling'[r] \notin spawned' => polling'[r] \in Finite
    BY DEF PollOK
  <2>1. CASE r = p
    BY <1>1, <1>2, <1>4, <1>5, <2>1 DEF LifeOK, PollOK, Idle, Finishes
  <2>2. CASE r # p
    <3>1. pc[r] \in Finishes => polling[r] # u /\ polling[r] \in Tasks
      BY <1>3 DEF Finishes, Idle, FrameInv, FrameOK
    <3> QED BY <1>2, <1>5, <2>2, <3>1 DEF LifeOK, PollOK, Finishes
  <2> QED BY <2>1, <2>2
<1> QED BY <1>7, <1>8, <1>9, <1>10, <1>11 DEF LifeOK

(* Spawner::spawn finds RUN_QUEUED clear, *)
LEMMA LifeSpawnOr ==
  ASSUME LifeOK, IInv, NEW p \in Prio, SpawnOr(p)
  PROVE  LifeOK'
<1> USE DEF IInv
<1>1. pc[p] = "s_or" /\ arg[p] \in Tasks
  BY AtHolds DEF SpawnOr, At, Holds, InSpawn
<1>2. /\ arg[p] \in spawned /\ arg[p] \notin run_queued
      /\ \A r \in Prio : pc[r] \in Builds /\ arg[r] = arg[p] => r = p
  BY <1>1 DEF LifeOK, BuildOK, Builds
<1>3. Moves(p, "s_push", polling[p], arg[p], to[p])
  BY <1>2, MovesGoto DEF SpawnOr, FirstEnqueue
<1>4. /\ spawned' = spawned /\ poll_fn' = poll_fn /\ fut' = fut
      /\ executor_ptr' = executor_ptr /\ run_queued' = run_queued \cup {arg[p]}
  BY DEF SpawnOr, slot
<1>5. UnspawnedOK'
  BY <1>1, <1>2, <1>3, <1>4, AppAssumption DEF LifeOK, UnspawnedOK, Moves, Resting
<1>6. SpawnedOK'
  BY <1>1, <1>3, <1>4 DEF LifeOK, SpawnedOK, Moves, Builds, Finishes, Wakeable
<1>7. BuildOK'
  BY <1>1, <1>2, <1>3, <1>4 DEF LifeOK, BuildOK, Moves, Builds, Idle
<1>8. WakingOK'
  BY <1>3, <1>4 DEF LifeOK, WakingOK, Moves, Wakening
<1>9. PollOK'
  BY <1>1, <1>3, <1>4 DEF LifeOK, PollOK, Moves, Idle, Finishes
<1> QED BY <1>5, <1>6, <1>7, <1>8, <1>9 DEF LifeOK

(* and its push makes the task wakeable. *)
LEMMA LifeSpawnPush ==
  ASSUME LifeOK, IInv, NEW p \in Prio, SpawnPush(p)
  PROVE  LifeOK'
<1> USE DEF IInv
<1>1. pc[p] = "s_push" /\ arg[p] \in Tasks /\ to[p] \in Prio /\ to[p] # NULL
  BY AtHolds, NullAssumption DEF SpawnPush, At, Holds, InSpawn
<1>2. /\ arg[p] \in spawned /\ executor_ptr[arg[p]] = NULL
      /\ poll_fn[arg[p]] = "poll" /\ fut[arg[p]] = "live"
      /\ \A r \in Prio : pc[r] \in Builds /\ arg[r] = arg[p] => r = p
      /\ \A r \in Prio : pc[r] \notin Idle => polling[r] # arg[p]
  BY <1>1 DEF LifeOK, BuildOK, Builds
<1>3. Moves(p, "s_pend", polling[p], arg[p], to[p])
  BY MovesGoto DEF SpawnPush
<1>4. /\ spawned' = spawned /\ poll_fn' = poll_fn /\ fut' = fut
      /\ run_queued' = run_queued
      /\ executor_ptr'[arg[p]] # NULL
      /\ \A t \in Tasks \ {arg[p]} : executor_ptr'[t] = executor_ptr[t]
      /\ spawned \subseteq Tasks
  BY <1>1 DEF SpawnPush, PushTask, slot, QueueType, SlotType
<1>5. UnspawnedOK'
  BY <1>1, <1>2, <1>3, <1>4, AppAssumption DEF LifeOK, UnspawnedOK, Moves, Resting
<1>6. SpawnedOK'
  BY <1>1, <1>2, <1>3, <1>4 DEF LifeOK, SpawnedOK, Moves, Builds, Finishes, Wakeable
<1>7. BuildOK'
  BY <1>1, <1>2, <1>3, <1>4 DEF LifeOK, BuildOK, Moves, Builds, Idle
<1>8. WakingOK'
  <2>1. \A r \in Prio : pc[r] \in Wakening => arg[r] \in Tasks
    BY DEF FrameInv, FrameOK, Wakening, InWake
  <2> QED BY <1>2, <1>3, <1>4, <2>1 DEF LifeOK, WakingOK, Moves, Wakening
<1>9. PollOK'
  <2>1. \A r \in Prio : pc[r] \in Finishes => polling[r] \in Tasks /\ polling[r] # arg[p]
    BY <1>2 DEF FrameInv, FrameOK, Finishes, Idle
  <2> QED BY <1>1, <1>2, <1>3, <1>4, <2>1 DEF LifeOK, PollOK, Moves, Idle, Finishes
<1> QED BY <1>5, <1>6, <1>7, <1>8, <1>9 DEF LifeOK

(* Executor::run.                                                          *)

(* A frame that finds its queue empty leaves no completed task queued at   *)
(* its priority: whoever is between fetch_or and push there is a future    *)
(* that this frame could not have preempted.                               *)
LEMMA EmptyQueue ==
  ASSUME LifeOK, IInv, LinkOK, AppOK, Disciplined, NEW p \in Prio, At(p, "loop"),
         run_queue[p] = <<>>, NEW t \in Tasks \ spawned, t \in run_queued
  PROVE  p \notin SpawnPrios[t]
<1> USE DEF IInv
<1> SUFFICES ASSUME p \in SpawnPrios[t] PROVE FALSE
  OBVIOUS
<1>1. t \in Finite
  BY DEF LifeOK, UnspawnedOK
<1>2. ~LinkedIn(run_queue, t)
  <2> SUFFICES ASSUME NEW q \in Prio, NEW i \in 1 .. Len(run_queue[q]), run_queue[q][i] = t
               PROVE  FALSE
    BY DEF LinkedIn
  <2>1. q \in SpawnPrios[t]
    BY DEF AppOK, AppQueues
  <2>2. q = p
    BY <2>1 DEF Disciplined
  <2>3. Len(run_queue[p]) = 0
    OBVIOUS
  <2> QED BY <2>2, <2>3
<1>3. PICK q \in Prio : Pushing(q) /\ arg[q] = t
  BY <1>2 DEF LinkOK
<1>4. pc[q] = "wake_push"
  BY <1>3 DEF Pushing, LifeOK, BuildOK, Builds
<1>5. polling[q] \in Tasks /\ q \in SpawnPrios[polling[q]] /\ <<polling[q], t>> \in Wakes
  BY <1>3, <1>4 DEF AppOK, AppFrames, AppFrame, Idle, Wakening, FrameInv, FrameOK
<1>6. q <= p
  BY <1>1, <1>5 DEF Disciplined
<1>7. p <= q
  BY <1>4, TopLeast
<1>8. q = p
  BY <1>6, <1>7, NAssumption DEF Prio
<1> QED BY <1>4, <1>8 DEF At

(* Taking the next task, or finding none. *)
LEMMA LifeDequeue ==
  ASSUME LifeOK, IInv, LinkOK, AppOK, Disciplined, NEW p \in Prio, Dequeue(p)
  PROVE  LifeOK'
<1> USE DEF IInv
<1>1. At(p, "loop") /\ pc[p] = "loop"
  BY DEF Dequeue, At
<1>2. /\ spawned' = spawned /\ poll_fn' = poll_fn /\ fut' = fut
      /\ executor_ptr' = executor_ptr
  BY DEF Dequeue, slot
<1>3. CASE run_queue[p] = <<>>
  <2>1. Moves(p, "returned", polling[p], arg[p], to[p]) /\ run_queued' = run_queued
    BY <1>3, MovesGoto DEF Dequeue
  <2>2. UnspawnedOK'
    BY <1>1, <1>2, <1>3, <2>1, EmptyQueue, AppAssumption DEF LifeOK, UnspawnedOK, Moves, Resting
  <2>3. SpawnedOK'
    BY <1>1, <1>2, <2>1 DEF LifeOK, SpawnedOK, Moves, Builds, Finishes, Wakeable
  <2>4. BuildOK'
    BY <1>1, <1>2, <2>1 DEF LifeOK, BuildOK, Moves, Builds, Idle
  <2>5. WakingOK'
    BY <1>1, <1>2, <2>1 DEF LifeOK, WakingOK, Moves, Wakening
  <2>6. PollOK'
    BY <1>1, <1>2, <2>1 DEF LifeOK, PollOK, Moves, Idle, Finishes
  <2> QED BY <2>2, <2>3, <2>4, <2>5, <2>6 DEF LifeOK
<1>4. CASE run_queue[p] # <<>>
  <2> DEFINE h == Head(run_queue[p])
  <2>1. run_queue[p] \in Seq(Tasks)
    BY DEF QueueType
  <2>2. h \in Tasks /\ LinkedIn(run_queue, h)
    BY <1>4, <2>1 DEF LinkedIn
  <2>3. h \in run_queued /\ \A r \in Prio : Pushing(r) => arg[r] # h
    BY <2>2 DEF LinkOK
  <2>4. Moves(p, "dequeued", h, arg[p], to[p]) /\ run_queued' = run_queued \ {h}
    BY <1>4 DEF Dequeue, PopFront, RunDequeue, Moves, FrameInv, FrameType
  <2>5. \A r \in Prio : pc[r] \in Builds => arg[r] # h
    BY <2>3 DEF LifeOK, BuildOK, Builds, Pushing
  <2> HIDE DEF h
  <2>6. UnspawnedOK'
    BY <1>1, <1>2, <2>4, AppAssumption DEF LifeOK, UnspawnedOK, Moves, Resting
  <2>7. SpawnedOK'
    BY <1>1, <1>2, <2>4 DEF LifeOK, SpawnedOK, Moves, Builds, Finishes, Wakeable
  <2>8. BuildOK'
    BY <1>1, <1>2, <2>4, <2>5 DEF LifeOK, BuildOK, Moves, Builds, Idle
  <2>9. WakingOK'
    BY <1>1, <1>2, <2>4 DEF LifeOK, WakingOK, Moves, Wakening
  <2>10. PollOK'
    BY <1>1, <1>2, <2>2, <2>3, <2>4 DEF LifeOK, PollOK, UnspawnedOK, Moves, Idle, Finishes
  <2> QED BY <2>6, <2>7, <2>8, <2>9, <2>10 DEF LifeOK
<1> QED BY <1>3, <1>4

(* Entering the poll function: TaskStorage::poll only of a spawned task. *)
LEMMA LifeCallPollFn ==
  ASSUME LifeOK, IInv, NEW p \in Prio, CallPollFn(p)
  PROVE  LifeOK'
<1> USE DEF IInv
<1>1. pc[p] = "dequeued" /\ polling[p] \in Tasks
  BY AtHolds DEF CallPollFn, At
<1>2. /\ spawned' = spawned /\ poll_fn' = poll_fn /\ fut' = fut
      /\ executor_ptr' = executor_ptr /\ run_queued' = run_queued
  BY DEF CallPollFn, slot, queues
<1>3. \/ Moves(p, "body", polling[p], arg[p], to[p]) /\ poll_fn[polling[p]] = "poll"
      \/ Moves(p, "loop", NULL, NULL, NULL)
  BY MovesGoto, MovesEndPoll DEF CallPollFn
<1>4. UnspawnedOK'
  BY <1>2, <1>3, AppAssumption DEF LifeOK, UnspawnedOK, Moves, Resting
<1>5. SpawnedOK'
  BY <1>1, <1>2, <1>3 DEF LifeOK, SpawnedOK, Moves, Builds, Finishes, Wakeable
<1>6. BuildOK'
  BY <1>1, <1>2, <1>3 DEF LifeOK, BuildOK, Moves, Builds, Idle
<1>7. WakingOK'
  BY <1>2, <1>3 DEF LifeOK, WakingOK, Moves, Wakening
<1>8. PollOK'
  BY <1>1, <1>2, <1>3 DEF LifeOK, PollOK, UnspawnedOK, Moves, Idle, Finishes
<1> QED BY <1>4, <1>5, <1>6, <1>7, <1>8 DEF LifeOK

(* TaskStorage::poll after the future is ready.                            *)

(* The pointer is cleared while no future still holds a copy of it: one    *)
(* that loaded it is at least as urgent as the task, and has pushed.       *)
LEMMA LifeReadyPtr ==
  ASSUME LifeOK, IInv, AppOK, Disciplined, NEW p \in Prio, ReadyPtr(p)
  PROVE  LifeOK'
<1> USE DEF IInv
<1> DEFINE t == polling[p]
<1>1. pc[p] = "r_ptr" /\ t \in Tasks /\ At(p, "r_ptr")
  BY AtHolds DEF ReadyPtr, At
<1>2. Moves(p, "r_drop", t, arg[p], to[p])
  BY MovesGoto DEF ReadyPtr
<1>3. /\ spawned' = spawned /\ poll_fn' = poll_fn /\ fut' = fut
      /\ run_queued' = run_queued
      /\ executor_ptr'[t] = NULL
      /\ \A x \in Tasks \ {t} : executor_ptr'[x] = executor_ptr[x]
      /\ spawned \subseteq Tasks
  BY <1>1 DEF ReadyPtr, slot, QueueType, SlotType
<1>4. Wakeable(t)
  BY <1>1, PolledWakeable DEF LifeOK, AppOK, Idle, Finishes
<1>5. t \in spawned /\ \A r \in Prio : pc[r] \in Builds => arg[r] # t
  BY <1>1 DEF LifeOK, PollOK, BuildOK, Idle
<1>6. ASSUME NEW r \in Prio, pc[r] \in Wakening PROVE arg[r] \in Tasks \ {t}
  <2>1. /\ arg[r] \in Tasks /\ polling[r] \in Tasks /\ <<polling[r], arg[r]>> \in Wakes
        /\ r \in SpawnPrios[polling[r]]
    BY <1>6 DEF Wakening, AppOK, AppFrames, AppFrame, FrameInv, FrameOK, InWake, Idle
  <2>2. t \in Finite /\ p \in SpawnPrios[t]
    BY <1>1 DEF AppOK, AppFrames, AppFrame, InReady, Idle
  <2>3. ASSUME arg[r] = t PROVE FALSE
    <3>1. r <= p
      BY <2>1, <2>2, <2>3 DEF Disciplined
    <3>2. p <= r
      BY <1>1, <1>6, TopLeast DEF Wakening
    <3>3. r = p
      BY <3>1, <3>2, NAssumption DEF Prio
    <3> QED BY <1>1, <1>6, <3>3 DEF Wakening
  <2> QED BY <2>1, <2>3
<1> HIDE DEF t
<1>7. UnspawnedOK'
  BY <1>2, <1>3, <1>5, AppAssumption DEF LifeOK, UnspawnedOK, Moves, Resting
<1>8. SpawnedOK'
  BY <1>1, <1>2, <1>3 DEF LifeOK, SpawnedOK, Moves, Builds, Finishes, Wakeable
<1>9. BuildOK'
  BY <1>1, <1>2, <1>3, <1>5 DEF LifeOK, BuildOK, Moves, Builds, Idle, t
<1>10. WakingOK'
  BY <1>2, <1>3, <1>6 DEF LifeOK, WakingOK, Moves, Wakening
<1>11. PollOK'
  <2>1. \A r \in Prio : pc[r] \in Finishes => polling[r] \in Tasks
    BY DEF FrameInv, FrameOK, Finishes
  <2> QED BY <1>1, <1>2, <1>3, <1>4, <1>5, <2>1 DEF LifeOK, PollOK, Moves, Idle, Finishes, Wakeable
<1> QED BY <1>7, <1>8, <1>9, <1>10, <1>11 DEF LifeOK

(* The future is dropped and poll_fn replaced while the frame owns them. *)
LEMMA LifeReadyStores ==
  ASSUME LifeOK, IInv, AppOK, Disciplined, NEW p \in Prio, ReadyDrop(p) \/ ReadyFn(p)
  PROVE  LifeOK'
<1> USE DEF IInv
<1> DEFINE t == polling[p]
<1>1. pc[p] \in {"r_drop", "r_fn"} /\ t \in Tasks
  BY AtHolds DEF ReadyDrop, ReadyFn, At
<1>2. \/ pc[p] = "r_drop" /\ Moves(p, "r_fn", t, arg[p], to[p])
      \/ pc[p] = "r_fn" /\ Moves(p, "r_cs", t, arg[p], to[p])
  BY MovesGoto DEF ReadyDrop, ReadyFn, At
<1>3. /\ spawned' = spawned /\ executor_ptr' = executor_ptr /\ run_queued' = run_queued
      /\ \A x \in Tasks \ {t} : poll_fn'[x] = poll_fn[x] /\ fut'[x] = fut[x]
      /\ pc[p] = "r_fn" => poll_fn'[t] = "exited"
      /\ spawned \subseteq Tasks
  BY <1>1 DEF ReadyDrop, ReadyFn, WriteFut, queues, SlotType, At
<1>4. t \in spawned /\ \A r \in Prio : pc[r] \in Builds => arg[r] # t
  BY <1>1 DEF LifeOK, PollOK, BuildOK, Idle
<1>5. \A r \in Prio : pc[r] \in Finishes => polling[r] \in Tasks /\ (r # p => polling[r] # t)
  BY <1>1, OnePoller DEF AppOK, FrameInv, FrameOK, Finishes, Idle
<1> HIDE DEF t
<1>6. UnspawnedOK'
  BY <1>2, <1>3, <1>4, AppAssumption DEF LifeOK, UnspawnedOK, Moves, Resting
<1>7. SpawnedOK'
  <2> SUFFICES ASSUME NEW x \in spawned
               PROVE  \/ \E r \in Prio : pc'[r] \in Builds /\ arg'[r] = x
                      \/ \E r \in Prio : pc'[r] \in Finishes /\ polling'[r] = x
                      \/ Wakeable(x)'
    BY <1>3 DEF SpawnedOK
  <2>1. \A r \in Prio : pc[r] \in Builds => pc'[r] = pc[r] /\ arg'[r] = arg[r]
    BY <1>1, <1>2 DEF Moves, Builds
  <2>2. \A r \in Prio : pc[r] \in Finishes => pc'[r] \in Finishes /\ polling'[r] = polling[r]
    BY <1>2 DEF Moves, Finishes, t
  <2>3. CASE x = t
    BY <1>1, <2>2, <2>3 DEF Finishes, t
  <2>4. CASE x # t
    <3>1. Wakeable(x) => Wakeable(x)'
      BY <1>3, <2>4 DEF Wakeable
    <3> QED BY <2>1, <2>2, <3>1 DEF LifeOK, SpawnedOK
  <2> QED BY <2>3, <2>4
<1>8. BuildOK'
  BY <1>1, <1>2, <1>3, <1>4 DEF LifeOK, BuildOK, Moves, Builds, Idle, t
<1>9. WakingOK'
  BY <1>1, <1>2, <1>3 DEF LifeOK, WakingOK, Moves, Wakening
<1>10. PollOK'
  BY <1>1, <1>2, <1>3, <1>4, <1>5 DEF LifeOK, PollOK, Moves, Idle, Finishes, t
<1> QED BY <1>6, <1>7, <1>8, <1>9, <1>10 DEF LifeOK

(* Despawning: a wake that came too late for the poll keeps the completed  *)
(* task in the queue of the very frame that completes it.                  *)
LEMMA LifeReadyDespawn ==
  ASSUME LifeOK, IInv, AppOK, Disciplined, NEW p \in Prio, ReadyDespawn(p)
  PROVE  LifeOK'
<1> USE DEF IInv
<1> DEFINE t == polling[p]
<1>1. pc[p] = "r_cs" /\ t \in Tasks
  BY AtHolds DEF ReadyDespawn, At
<1>2. Moves(p, "loop", NULL, NULL, NULL)
  BY MovesEndPoll DEF ReadyDespawn
<1>3. spawned' = spawned \ {t} /\ poll_fn' = poll_fn /\ fut' = fut
  BY DEF ReadyDespawn, Despawn
<1>4. /\ executor_ptr' = executor_ptr
      /\ \A x \in run_queued' : x \in run_queued \/ executor_ptr[x] # NULL
  <2>1. CASE waker[t] # NULL
    <3>1. waker[t] \in Tasks /\ WakeNow(waker[t])
      BY <1>1, <2>1 DEF ReadyDespawn, JoinType
    <3> QED BY <3>1, WakeNowCalm
  <2>2. CASE waker[t] = NULL
    BY <2>2 DEF ReadyDespawn, queues
  <2> QED BY <2>1, <2>2
<1>5. /\ executor_ptr[t] = NULL /\ poll_fn[t] # "poll"
      /\ \A r \in Prio : pc[r] \in Builds => arg[r] # t
  BY <1>1 DEF LifeOK, PollOK, BuildOK, Idle, Finishes
<1>6. t \in Finite /\ p \in SpawnPrios[t] /\ \A r \in SpawnPrios[t] : r = p
  BY <1>1 DEF AppOK, AppFrames, AppFrame, InReady, Idle, Disciplined
<1>7. \A r \in Prio : pc[r] \notin Idle /\ r # p => polling[r] # t
  BY <1>1, OnePoller DEF AppOK, Idle
<1>8. spawned \subseteq Tasks
  BY DEF SlotType
<1> HIDE DEF t
<1>9. UnspawnedOK'
  BY <1>2, <1>3, <1>4, <1>5, <1>6, AppAssumption DEF LifeOK, UnspawnedOK, Moves, Resting
<1>10. SpawnedOK'
  BY <1>1, <1>2, <1>3, <1>4 DEF LifeOK, SpawnedOK, Moves, Builds, Finishes, Wakeable, t
<1>11. BuildOK'
  BY <1>1, <1>2, <1>3, <1>4, <1>5 DEF LifeOK, BuildOK, Moves, Builds, Idle
<1>12. WakingOK'
  BY <1>2, <1>4 DEF LifeOK, WakingOK, Moves, Wakening
<1>13. PollOK'
  BY <1>2, <1>3, <1>4, <1>7 DEF LifeOK, PollOK, Moves, Idle, Finishes
<1> QED BY <1>9, <1>10, <1>11, <1>12, <1>13 DEF LifeOK

(* main() spawns before there is any frame. *)
LEMMA LifeBootSpawn ==
  ASSUME LifeOK, IInv, BootFrames, NEW t \in Tasks, NEW q \in Prio, BootSpawn(t, q)
  PROVE  LifeOK'
<1> USE DEF IInv
<1>1. \A r \in Prio : pc'[r] = "off"
  BY DEF BootSpawn, BootFrames, frame
<1>2. /\ spawned' = spawned \cup {t} /\ run_queued' = run_queued \cup {t}
      /\ executor_ptr'[t] # NULL /\ poll_fn'[t] = "poll" /\ fut'[t] = "live"
      /\ \A x \in Tasks \ {t} : /\ executor_ptr'[x] = executor_ptr[x]
                                /\ poll_fn'[x] = poll_fn[x] /\ fut'[x] = fut[x]
      /\ spawned \subseteq Tasks
  BY NullAssumption DEF BootSpawn, PushTask, WriteFut, SlotType, QueueType
<1>3. pc' = pc
  BY DEF BootSpawn, frame
<1>4. UnspawnedOK'
  BY <1>2, <1>3 DEF LifeOK, UnspawnedOK
<1>5. SpawnedOK'
  BY <1>1, <1>2, <1>3 DEF LifeOK, SpawnedOK, Builds, Finishes, Wakeable
<1>6. BuildOK' /\ WakingOK' /\ PollOK'
  BY <1>1 DEF BuildOK, WakingOK, PollOK, Builds, Wakening, Idle, Finishes
<1> QED BY <1>4, <1>5, <1>6 DEF LifeOK

(* No frame is started before start(). *)
LEMMA BootFramesNext == BootFrames /\ [Next]_vars => BootFrames'
<1> SUFFICES ASSUME BootFrames, [Next]_vars PROVE BootFrames'
  OBVIOUS
<1>1. ASSUME NEW t \in Tasks, NEW q \in Prio, BootSpawn(t, q) PROVE BootFrames'
  BY <1>1 DEF BootSpawn, BootFrames, frame
<1>2. CASE Start \/ UNCHANGED vars
  BY <1>2 DEF Start, vars, frame, BootFrames
<1>3. CASE started /\ UNCHANGED started
  BY <1>3 DEF BootFrames
<1> QED BY <1>1, <1>2, <1>3, StartedNext

(* The life of a task under the discipline, step by step. *)
LEMMA LifeNext ==
  ASSUME Disciplined
  PROVE  LifeOK /\ IInv /\ LinkOK /\ AppOK /\ BootFrames /\ [Next]_vars => LifeOK'
<1> SUFFICES ASSUME LifeOK, IInv, LinkOK, AppOK, BootFrames, [Next]_vars PROVE LifeOK'
  OBVIOUS
<1>1. IInv'
  BY NextInv
<1>2. ASSUME NEW p \in Prio, Step(p) PROVE LifeOK'
  BY <1>1, <1>2, CalmCalls, CalmSystem, LifeCalm, LifeSpawnStores, LifeSpawnOr, LifeSpawnPush,
     LifeDequeue, LifeCallPollFn, LifeReadyPtr, LifeReadyStores, LifeReadyDespawn DEF Step
<1>3. ASSUME NEW p \in Prio, Body(p) \/ PollReturn(p) PROVE LifeOK'
  BY <1>1, <1>3, CalmCalls, LifeCalm, LifeSpawnBegin DEF Body, PollReturn
<1>4. CASE MachineSoft \/ Interrupt \/ Start \/ UNCHANGED vars
  BY <1>1, <1>4, CalmSystem, LifeCalm
<1> QED BY <1>2, <1>3, <1>4, LifeBootSpawn DEF Next

(* Under the discipline the life of every task is in order in every        *)
(* reachable state.                                                        *)
LEMMA LifeAlways ==
  ASSUME Disciplined
  PROVE  Spec => [](LifeOK /\ AppOK)
<1>1. ASSUME Init PROVE LifeOK /\ AppOK /\ BootFrames
  <2>1. LifeOK
    BY <1>1 DEF Init, LifeOK, UnspawnedOK, SpawnedOK, BuildOK, WakingOK, PollOK,
                Builds, Wakening, Idle, Finishes
  <2>2. \A p \in Prio : Len(run_queue[p]) = 0
    BY <1>1 DEF Init
  <2>3. \A p \in Prio : 1 .. Len(run_queue[p]) = {}
    BY <2>2
  <2>4. AppOK
    BY <1>1, <2>3 DEF Init, AppOK, AppQueues, AppFrames, AppFrame, Idle, Builds, Wakening, InReady
  <2> QED BY <1>1, <2>1, <2>4 DEF Init, BootFrames
<1>2. Init => LifeOK /\ AppOK /\ BootFrames
  BY <1>1
<1> QED BY <1>2, InvAlways, LinkAlways, AppNext, BootFramesNext, LifeNext, PTL DEF Spec

(* Under the discipline TaskStorage::poll is never entered on a future     *)
(* that is not written yet, already dropped or borrowed by another frame,  *)
(* however often tasks complete and are spawned again.                     *)
THEOREM PollsLiveFutureAlways ==
  ASSUME Disciplined
  PROVE  Spec => []PollsLiveFuture
<1>1. ASSUME IInv, LifeOK, AppOK PROVE PollsLiveFuture
  <2> SUFFICES ASSUME NEW p \in Prio, InPoll(p)
               PROVE  /\ pc[p] \notin {"r_fn", "r_cs"} => fut[polling[p]] = "live"
                      /\ \A q \in Prio : InPoll(q) /\ polling[q] = polling[p] => q = p
    BY DEF PollsLiveFuture
  <2>1. pc[p] \notin Idle \cup {"dequeued"}
    BY DEF InPoll, Idle
  <2>2. \A q \in Prio : InPoll(q) /\ polling[q] = polling[p] => q = p
    BY <1>1, <2>1, OnePoller DEF InPoll, Idle, AppOK, IInv
  <2>3. pc[p] \notin Finishes => fut[polling[p]] = "live"
    BY <1>1, <2>1, PolledWakeable DEF LifeOK, AppOK, Wakeable
  <2>4. pc[p] = "r_drop" => fut[polling[p]] = "live"
    BY <1>1 DEF LifeOK, PollOK
  <2> QED BY <2>2, <2>3, <2>4 DEF Finishes
<1>2. IInv /\ LifeOK /\ AppOK => PollsLiveFuture
  BY <1>1
<1> QED BY <1>2, InvAlways, LifeAlways, PTL

(* Under the discipline a spawned task has an executor pointer from the    *)
(* end of Spawner::spawn to the completion of its future: no wake in       *)
(* between is dropped as one of a task that is not enqueued.               *)
THEOREM LiveTaskWakeableAlways ==
  ASSUME Disciplined
  PROVE  Spec => []LiveTaskWakeable
<1>1. LifeOK => LiveTaskWakeable
  BY DEF LifeOK, SpawnedOK, Wakeable, LiveTaskWakeable, Builds, Finishes, InSpawn, InReady
<1> QED BY <1>1, LifeAlways, PTL

(* Under the discipline a waker kept past the completion of its task does  *)
(* nothing: executor_ptr stays null until the next Spawner::spawn.         *)
THEOREM CompletedTaskInertAlways ==
  ASSUME Disciplined
  PROVE  Spec => []CompletedTaskInert
<1>1. LifeOK => CompletedTaskInert
  BY DEF LifeOK, UnspawnedOK, CompletedTaskInert
<1> QED BY <1>1, LifeAlways, PTL

(* Part 5.  Awaiting a task.                                               *)

(* With one priority per task, a task is in one frame at most. *)
LEMMA OneFrame ==
  ASSUME OneJoiner, AppFrames, FrameInv, NEW p \in Prio, NEW q \in Prio,
         pc[p] \notin Idle, pc[q] \notin Idle, polling[p] = polling[q]
  PROVE  p = q
<1>1. polling[p] \in Tasks /\ p \in SpawnPrios[polling[p]] /\ q \in SpawnPrios[polling[p]]
  BY DEF AppFrames, AppFrame, FrameInv, FrameOK, Idle
<1> QED BY <1>1 DEF OneJoiner

(* What a frame that moves to l must show. *)
CallerMove(l, t, u) ==
  /\ l \in InSpawn => <<t, u>> \in Spawns /\ awaiting[t] = NULL
  /\ l = "j_store" => awaiting[t] = u

(* The frames that do not move keep CallerOK. *)
LEMMA CallerMoves ==
  ASSUME CallerOK, NEW p \in Prio, NEW l, NEW t, NEW u, NEW q,
         Moves(p, l, t, u, q), CallerMove(l, t, u), awaiting' = awaiting
  PROVE  CallerOK'
  BY DEF CallerOK, Moves, CallerMove

(* A step that gives no handle and suspends no one. *)
LEMMA HandleSame ==
  ASSUME HandleOK, UNCHANGED app, started' = started \/ started'
  PROVE  HandleOK'
  BY DEF HandleOK, app

(* The spawner gets the handle of what it spawned. *)
LEMMA HandleGiven ==
  ASSUME HandleOK, JoinType, NEW p \in Prio, GiveHandle(p), arg[p] \in Tasks,
         <<polling[p], arg[p]>> \in Spawns, UNCHANGED <<awaiting, started>>
  PROVE  HandleOK'
<1>1. \A u \in Tasks : handle'[u] = IF u = arg[p] THEN polling[p] ELSE handle[u]
  BY DEF GiveHandle, JoinType
<1> QED BY <1>1 DEF HandleOK

(* Waking from a future, and its first step of a spawn. *)
LEMMA JoinCalls ==
  ASSUME JoinOK, IInv, NEW p \in Prio,
         \/ \E u \in Tasks : WakeLoad(p, u)
         \/ WakeOr(p) \/ WakePush(p) \/ PendMark(p) \/ PendSend(p)
         \/ \E u \in Tasks, q \in Prio : SpawnBegin(p, u, q)
  PROVE  JoinOK'
<1> USE DEF IInv, JoinOK, InSpawn
<1>1. HandleOK'
  BY HandleSame DEF WakeLoad, WakeOr, WakePush, PendMark, PendSend, SpawnBegin
<1>2. awaiting' = awaiting
  BY DEF WakeLoad, WakeOr, WakePush, PendMark, PendSend, SpawnBegin, app
<1>3. \E l \in {"wake_or", "wake_push", "mark", "send", "body", "s_result"} : \E u, q :
        /\ Moves(p, l, polling[p], u, q)
        /\ l = "s_result" => <<polling[p], u>> \in Spawns /\ awaiting[polling[p]] = NULL
  BY MovesGoto, MovesCall, MovesReturn DEF WakeLoad, WakeOr, WakePush, PendMark, PendSend, SpawnBegin
<1> QED BY <1>1, <1>2, <1>3, CallerMoves DEF CallerMove

(* The rest of the spawn: the same task, spawned by the same one. *)
LEMMA JoinSpawns ==
  ASSUME JoinOK, IInv, NEW p \in Prio,
         \/ SpawnResult(p) \/ SpawnWaker(p) \/ SpawnFn(p) \/ SpawnFut(p)
         \/ SpawnOr(p) \/ SpawnPush(p) \/ SpawnPend(p)
  PROVE  JoinOK'
<1> USE DEF IInv, JoinOK
<1>1. pc[p] \in InSpawn /\ arg[p] \in Tasks
  BY DEF SpawnResult, SpawnWaker, SpawnFn, SpawnFut, SpawnOr, SpawnPush, SpawnPend, At, InSpawn,
         FrameInv, FrameOK
<1>2. <<polling[p], arg[p]>> \in Spawns /\ awaiting[polling[p]] = NULL
  BY <1>1 DEF CallerOK
<1>3. UNCHANGED <<awaiting, started>> /\ (handle' = handle \/ GiveHandle(p))
  BY DEF SpawnResult, SpawnWaker, SpawnFn, SpawnFut, SpawnOr, SpawnPush, SpawnPend, app
<1>4. HandleOK'
  BY <1>1, <1>2, <1>3, HandleSame, HandleGiven DEF app
<1>5. \/ \E l \in InSpawn : Moves(p, l, polling[p], arg[p], to[p])
      \/ Moves(p, "body", polling[p], NULL, NULL)
  BY MovesGoto, MovesReturn
     DEF SpawnResult, SpawnWaker, SpawnFn, SpawnFut, SpawnOr, SpawnPush, SpawnPend, InSpawn
<1> QED BY <1>2, <1>3, <1>4, <1>5, CallerMoves DEF CallerMove, InSpawn

(* JoinHandle::poll: the frames of other tasks are not concerned. *)
LEMMA JoinTakes ==
  ASSUME OneJoiner, JoinOK, IInv, AppOK, NEW p \in Prio, NEW u \in Tasks, JoinTake(p, u)
  PROVE  JoinOK'
<1> USE DEF IInv, JoinOK
<1> DEFINE t == polling[p]
<1>1. t \in Tasks /\ pc[p] = "body" /\ started
  BY AtHolds DEF JoinTake, At
<1>2. <<t, u>> \in Joins /\ <<t, u>> \in Spawns
  <2>1. CASE awaiting[t] = u
    BY <1>1, <2>1, NullAssumption DEF HandleOK
  <2>2. CASE awaiting[t] # u
    BY <1>1, <2>2, NullAssumption DEF HandleOK, JoinTake, MayJoin
  <2> QED BY <2>1, <2>2
<1>3. \/ /\ \A s \in Tasks : awaiting'[s] = IF s = t THEN NULL ELSE awaiting[s]
         /\ UNCHANGED <<pc, polling, arg, to>>
      \/ /\ \A s \in Tasks : awaiting'[s] = IF s = t THEN u ELSE awaiting[s]
         /\ Moves(p, "j_store", t, u, NULL)
  BY MovesCall DEF JoinTake, JoinType, frame
<1>4. started' = started /\ \A v \in Tasks : handle'[v] \in {NULL, handle[v]}
  BY DEF JoinTake, JoinType
<1>5. HandleOK'
  BY <1>1, <1>2, <1>3, <1>4 DEF HandleOK
<1>6. ASSUME NEW r \in Prio, r # p, pc[r] \in InSpawn \cup {"j_store"}
      PROVE  polling[r] # t /\ polling[r] \in Tasks
  BY <1>1, <1>6, OneFrame DEF AppOK, Idle, InSpawn, FrameInv, FrameOK
<1>7. CallerOK'
  <2>1. ASSUME NEW r \in Prio, r # p
        PROVE  /\ pc'[r] \in InSpawn => /\ <<polling'[r], arg'[r]>> \in Spawns
                                        /\ awaiting'[polling'[r]] = NULL
               /\ pc'[r] = "j_store" => awaiting'[polling'[r]] = arg'[r]
    <3>1. pc'[r] = pc[r] /\ polling'[r] = polling[r] /\ arg'[r] = arg[r]
      BY <1>3, <2>1 DEF Moves
    <3>2. pc[r] \in InSpawn \cup {"j_store"} => awaiting'[polling[r]] = awaiting[polling[r]]
      BY <1>3, <1>6, <2>1
    <3> QED BY <3>1, <3>2 DEF CallerOK
  <2>2. /\ pc'[p] \notin InSpawn
        /\ pc'[p] = "j_store" => awaiting'[polling'[p]] = arg'[p]
    BY <1>1, <1>3 DEF InSpawn, Moves
  <2> QED BY <2>1, <2>2 DEF CallerOK
<1> QED BY <1>5, <1>7

(* The run loop, polls that return and completion. *)
LEMMA JoinPolls ==
  ASSUME JoinOK, IInv, NEW p \in Prio,
         \/ Dequeue(p) \/ CallPollFn(p) \/ JoinStore(p) \/ PollPending(p) \/ PollReady(p)
         \/ ReadyPtr(p) \/ ReadyDrop(p) \/ ReadyFn(p) \/ ReadyDespawn(p)
  PROVE  JoinOK'
<1> USE DEF IInv, JoinOK
<1>1. UNCHANGED <<awaiting, started>>
  BY DEF Dequeue, CallPollFn, JoinStore, PollPending, PollReady, ReadyPtr, ReadyDrop, ReadyFn,
         ReadyDespawn, app
<1>2. handle' = handle \/ PollReady(p)
  BY DEF Dequeue, CallPollFn, JoinStore, PollPending, ReadyPtr, ReadyDrop, ReadyFn, ReadyDespawn, app
<1>3. \A v \in Tasks : handle'[v] \in {NULL, handle[v]}
  BY <1>2 DEF PollReady
<1>4. HandleOK'
  BY <1>1, <1>3 DEF HandleOK
<1>5. \E l \in {"returned", "dequeued", "body", "loop"} \cup InReady : \E t, u, q : Moves(p, l, t, u, q)
  <2>1. CASE Dequeue(p)
    <3>1. CASE run_queue[p] = <<>>
      BY <2>1, <3>1, MovesGoto DEF Dequeue
    <3>2. CASE run_queue[p] # <<>>
      <4>1. Moves(p, "dequeued", Head(run_queue[p]), arg[p], to[p])
        BY <2>1, <3>2 DEF Dequeue, Moves, FrameInv, FrameType
      <4> QED BY <4>1
    <3> QED BY <3>1, <3>2
  <2>2. CASE CallPollFn(p) \/ JoinStore(p) \/ PollPending(p) \/ ReadyDespawn(p)
    BY <2>2, MovesGoto, MovesEndPoll DEF CallPollFn, JoinStore, PollPending, ReadyDespawn
  <2>3. CASE PollReady(p) \/ ReadyPtr(p) \/ ReadyDrop(p) \/ ReadyFn(p)
    BY <2>3, MovesGoto DEF PollReady, ReadyPtr, ReadyDrop, ReadyFn, InReady
  <2> QED BY <2>1, <2>2, <2>3
<1> QED BY <1>1, <1>4, <1>5, CallerMoves DEF CallerMove, InSpawn, InReady

(* Every action keeps JoinOK. *)
LEMMA JoinNext ==
  ASSUME OneJoiner
  PROVE  JoinOK /\ IInv /\ AppOK /\ [Next]_vars => JoinOK'
<1> SUFFICES ASSUME JoinOK, IInv, AppOK, [Next]_vars PROVE JoinOK'
  OBVIOUS
<1>1. ASSUME MachineSoft \/ \E p \in Prio : Complete(p) PROVE JoinOK'
  <2>1. UNCHANGED app /\ started' = started
    BY <1>1 DEF MachineSoft, Complete
  <2>2. CallerOK'
    BY <1>1, <2>1, SchedulerMoves DEF JoinOK, CallerOK, Resting, InSpawn, app
  <2> QED BY <2>1, <2>2, HandleSame DEF JoinOK
<1>2. ASSUME NEW p \in Prio, Step(p) \/ Body(p) \/ PollReturn(p) PROVE JoinOK'
  BY <1>1, <1>2, JoinCalls, JoinSpawns, JoinTakes, JoinPolls DEF Step, Body, PollReturn
<1>3. ASSUME \/ Start \/ Interrupt \/ UNCHANGED vars
             \/ \E t \in Tasks, q \in Prio : BootSpawn(t, q)
      PROVE  JoinOK'
  <2>1. UNCHANGED <<frame, app>> /\ (started' = started \/ started')
    BY <1>3 DEF Start, Interrupt, ExternalMsi, IrqWake, BootSpawn, vars
  <2>2. CallerOK'
    BY <2>1 DEF JoinOK, CallerOK, frame, app
  <2> QED BY <2>1, <2>2, HandleSame DEF JoinOK
<1> QED BY <1>1, <1>2, <1>3 DEF Next

(* JoinOK holds with one joiner per task. *)
THEOREM JoinAlways ==
  ASSUME OneJoiner
  PROVE  Spec => [](JoinOK /\ AppOK)
<1>1. ASSUME Init PROVE JoinOK /\ AppOK
  <2>1. JoinOK
    BY <1>1 DEF Init, JoinOK, HandleOK, CallerOK, InSpawn
  <2>2. \A p \in Prio : Len(run_queue[p]) = 0
    BY <1>1 DEF Init
  <2>3. \A p \in Prio : 1 .. Len(run_queue[p]) = {}
    BY <2>2
  <2>4. AppOK
    BY <1>1, <2>3 DEF Init, AppOK, AppQueues, AppFrames, AppFrame, Idle, Builds, Wakening, InReady
  <2> QED BY <2>1, <2>4
<1>2. Init => JoinOK /\ AppOK
  BY <1>1
<1> QED BY <1>2, InvAlways, AppNext, JoinNext, PTL DEF Spec

(* Only JoinHandle::poll and the next TaskStorage::spawn take an output    *)
(* away.                                                                   *)
LEMMA ResultTaken ==
  ASSUME IInv, [Next]_vars, NEW u \in Tasks, result[u], ~result'[u]
  PROVE  \/ \E p \in Prio : JoinTake(p, u)
         \/ \E p \in Prio : SpawnResult(p) /\ arg[p] = u
         \/ \E q \in Prio : BootSpawn(u, q)
<1>1. JoinType
  BY DEF IInv
<1>2. ASSUME NEW p \in Prio, Body(p) PROVE JoinTake(p, u)
  <2>1. PICK v \in Tasks : JoinTake(p, v)
    BY <1>2 DEF Body, WakeLoad, SpawnBegin, join
  <2>2. result'[u] = result[u] \/ v = u
    BY <1>1, <2>1 DEF JoinTake, JoinType
  <2> QED BY <2>1, <2>2
<1>3. ASSUME NEW p \in Prio, PollReturn(p) PROVE FALSE
  BY <1>1, <1>3 DEF PollReturn, PollPending, PollReady, JoinType, join
<1>4. ASSUME NEW p \in Prio, Step(p) PROVE SpawnResult(p) /\ arg[p] = u
  <2>1. SpawnResult(p)
    BY <1>4 DEF Step, Dequeue, CallPollFn, Complete, WakeOr, WakePush, PendMark, PendSend, SpawnWaker,
                SpawnFn, SpawnFut, SpawnOr, SpawnPush, SpawnPend, JoinStore, ReadyPtr, ReadyDrop,
                ReadyFn, ReadyDespawn, join
  <2> QED BY <1>1, <2>1 DEF SpawnResult, JoinType
<1>5. ASSUME NEW t \in Tasks, NEW q \in Prio, BootSpawn(t, q) PROVE t = u
  BY <1>1, <1>5 DEF BootSpawn, JoinType
<1>6. ~(Start \/ MachineSoft \/ Interrupt \/ UNCHANGED vars)
  BY DEF Start, MachineSoft, Interrupt, ExternalMsi, IrqWake, vars, join
<1> QED BY <1>2, <1>3, <1>4, <1>5, <1>6 DEF Next

(* With one joiner per task, an output that some task is awaiting is taken *)
(* by JoinHandle::poll of that task and never by the reset of JoinState in *)
(* TaskStorage::spawn.                                                     *)
THEOREM ResultAlwaysReachesJoiner ==
  ASSUME OneJoiner
  PROVE  Spec => ResultReachesJoiner
<1>1. ASSUME IInv, AppOK, JoinOK, [Next]_vars, NEW t \in Tasks, NEW u \in Tasks,
             awaiting[t] = u, result[u], ~result'[u]
      PROVE  awaiting'[t] # u
  <2>1. <<t, u>> \in Joins /\ awaiting[t] # NULL
    BY <1>1, NullAssumption DEF JoinOK, HandleOK
  <2>2. ASSUME NEW p \in Prio, JoinTake(p, u) PROVE awaiting'[t] # u
    <3>1. polling[p] \in Tasks /\ <<polling[p], u>> \in Spawns
      BY <1>1, <2>2, AtHolds, NullAssumption DEF JoinTake, MayJoin, JoinOK, HandleOK, IInv
    <3>2. polling[p] = t
      BY <2>1, <3>1 DEF OneJoiner
    <3>3. awaiting'[t] = NULL
      BY <1>1, <2>2, <3>2 DEF JoinTake, IInv, JoinType
    <3> QED BY <3>3, NullAssumption
  <2>3. ASSUME NEW p \in Prio, SpawnResult(p), arg[p] = u PROVE FALSE
    <3>1. pc[p] \in InSpawn /\ polling[p] \in Tasks
      BY <1>1, <2>3, AtHolds DEF SpawnResult, At, InSpawn, IInv
    <3>2. <<polling[p], u>> \in Spawns /\ awaiting[polling[p]] = NULL
      BY <1>1, <2>3, <3>1 DEF JoinOK, CallerOK
    <3> QED BY <2>1, <3>1, <3>2 DEF OneJoiner
  <2>4. ASSUME NEW q \in Prio, BootSpawn(u, q) PROVE FALSE
    BY <1>1, <2>1, <2>4 DEF BootSpawn, JoinOK, HandleOK
  <2> QED BY <1>1, <2>2, <2>3, <2>4, ResultTaken
<1>2. IInv /\ AppOK /\ JoinOK /\ [Next]_vars =>
        [\A t, u \in Tasks : awaiting[t] = u /\ result[u] /\ ~result'[u] => awaiting'[t] # u]_vars
  BY <1>1
<1> QED BY <1>2, InvAlways, JoinAlways, PTL DEF Spec, ResultReachesJoiner

(* Part 6.  Waking the joiner.                                             *)

Still(r) == pc'[r] = pc[r] /\ polling'[r] = polling[r] /\ arg'[r] = arg[r]

(* How the frame of r gets to poll, build or finish a task, and how it     *)
(* gives it up.                                                            *)
FrameChange(r) ==
  \/ Still(r)
  \/ pc[r] \in Idle /\ pc'[r] \in Idle
  \/ pc[r] = "loop" /\ pc'[r] = "dequeued" /\ LinkedIn(run_queue, polling'[r])
  \/ /\ CallPollFn(r) /\ pc[r] = "dequeued"
     /\ \/ poll_fn[polling[r]] = "poll" /\ pc'[r] = "body" /\ polling'[r] = polling[r]
        \/ poll_fn[polling[r]] = "exited" /\ pc'[r] = "loop"
  \/ /\ pc[r] \in {"body"} \cup InWake \cup InSpawn /\ polling'[r] = polling[r]
     /\ \/ pc'[r] \in {"body"} \cup InWake
        \/ pc[r] \in InSpawn /\ pc'[r] \in InSpawn /\ arg'[r] = arg[r]
        \/ pc'[r] = "s_result" /\ \E q \in Prio : SpawnBegin(r, arg'[r], q)
        \/ pc'[r] = "j_store" /\ arg'[r] \in Tasks /\ JoinTake(r, arg'[r]) /\ ~result[arg'[r]]
        \/ pc'[r] = "r_ptr" /\ PollReady(r)
  \/ pc'[r] = "loop" /\ (JoinStore(r) \/ PollPending(r) \/ ReadyDespawn(r))
  \/ /\ pc[r] \in InReady /\ polling'[r] = polling[r]
     /\ \/ pc'[r] \in {"r_drop", "r_fn"}
        \/ pc'[r] = "r_cs" /\ ReadyFn(r)

(* A frame that does not move does not change. *)
LEMMA OthersStill ==
  ASSUME NEW p \in Prio, NEW l, NEW t, NEW u, NEW q, Moves(p, l, t, u, q), NEW r \in Prio, r # p
  PROVE  FrameChange(r)
  BY DEF Moves, FrameChange, Still

(* Calls made by a future. *)
LEMMA ChangeCalls ==
  ASSUME IInv, NEW r \in Prio, NEW p \in Prio,
         \/ \E u \in Tasks : WakeLoad(p, u)
         \/ WakeOr(p) \/ WakePush(p) \/ PendMark(p) \/ PendSend(p)
         \/ \E u \in Tasks, q \in Prio : SpawnBegin(p, u, q)
         \/ SpawnResult(p) \/ SpawnWaker(p) \/ SpawnFn(p) \/ SpawnFut(p)
         \/ SpawnOr(p) \/ SpawnPush(p) \/ SpawnPend(p)
         \/ \E u \in Tasks : JoinTake(p, u)
  PROVE  FrameChange(r)
<1> USE DEF IInv
<1>1. CASE (\E u \in Tasks : WakeLoad(p, u)) \/ WakeOr(p) \/ WakePush(p) \/ PendMark(p) \/ PendSend(p)
  <2>1. \E l \in {"body"} \cup InWake : \E u, q : Moves(p, l, polling[p], u, q)
    BY <1>1, MovesGoto, MovesCall, MovesReturn DEF WakeLoad, WakeOr, WakePush, PendMark, PendSend, InWake
  <2>2. pc[p] \in {"body"} \cup InWake
    BY <1>1 DEF WakeLoad, WakeOr, WakePush, PendMark, PendSend, InWake, At
  <2> QED BY <2>1, <2>2, OthersStill DEF FrameChange, Moves
<1>2. CASE \/ SpawnResult(p) \/ SpawnWaker(p) \/ SpawnFn(p) \/ SpawnFut(p)
           \/ SpawnOr(p) \/ SpawnPush(p) \/ SpawnPend(p)
  <2>1. \/ \E l \in InSpawn : Moves(p, l, polling[p], arg[p], to[p])
        \/ Moves(p, "body", polling[p], NULL, NULL)
    BY <1>2, MovesGoto, MovesReturn
       DEF SpawnResult, SpawnWaker, SpawnFn, SpawnFut, SpawnOr, SpawnPush, SpawnPend, InSpawn
  <2>2. pc[p] \in InSpawn
    BY <1>2 DEF SpawnResult, SpawnWaker, SpawnFn, SpawnFut, SpawnOr, SpawnPush, SpawnPend, InSpawn, At
  <2> QED BY <2>1, <2>2, OthersStill DEF FrameChange, Moves
<1>3. ASSUME NEW u \in Tasks, NEW q \in Prio, SpawnBegin(p, u, q) PROVE FrameChange(r)
  <2>1. Moves(p, "s_result", polling[p], u, q) /\ pc[p] = "body"
    BY <1>3, MovesCall DEF SpawnBegin, At
  <2> QED BY <1>3, <2>1, OthersStill DEF FrameChange, Moves
<1>4. ASSUME NEW u \in Tasks, JoinTake(p, u) PROVE FrameChange(r)
  <2>1. CASE result[u]
    BY <1>4, <2>1 DEF JoinTake, frame, FrameChange, Still
  <2>2. CASE ~result[u]
    <3>1. Moves(p, "j_store", polling[p], u, NULL) /\ pc[p] = "body"
      BY <1>4, <2>2, MovesCall DEF JoinTake, At
    <3> QED BY <1>4, <2>2, <3>1, OthersStill DEF FrameChange, Moves
  <2> QED BY <2>1, <2>2
<1> QED BY <1>1, <1>2, <1>3, <1>4

(* The run loop, polls that return and completion. *)
LEMMA ChangePolls ==
  ASSUME IInv, NEW r \in Prio, NEW p \in Prio,
         \/ Dequeue(p) \/ CallPollFn(p) \/ JoinStore(p) \/ PollPending(p) \/ PollReady(p)
         \/ ReadyPtr(p) \/ ReadyDrop(p) \/ ReadyFn(p) \/ ReadyDespawn(p)
  PROVE  FrameChange(r)
<1> USE DEF IInv
<1>1. CASE Dequeue(p)
  <2>1. CASE run_queue[p] = <<>>
    <3>1. Moves(p, "returned", polling[p], arg[p], to[p]) /\ pc[p] = "loop"
      BY <1>1, <2>1, MovesGoto DEF Dequeue, At
    <3> QED BY <3>1, OthersStill DEF FrameChange, Moves, Idle
  <2>2. CASE run_queue[p] # <<>>
    <3>1. Moves(p, "dequeued", Head(run_queue[p]), arg[p], to[p]) /\ pc[p] = "loop"
      BY <1>1, <2>2 DEF Dequeue, Moves, FrameInv, FrameType, At
    <3>2. run_queue[p] \in Seq(Tasks)
      BY DEF QueueType
    <3>3. 1 \in 1 .. Len(run_queue[p]) /\ Head(run_queue[p]) = run_queue[p][1]
      BY <2>2, <3>2, EmptySeq, LenProperties
    <3>4. LinkedIn(run_queue, Head(run_queue[p]))
      BY <3>3 DEF LinkedIn
    <3> QED BY <3>1, <3>4, OthersStill DEF FrameChange, Moves
  <2> QED BY <2>1, <2>2
<1>2. CASE CallPollFn(p)
  <2>1. polling[p] \in Tasks /\ pc[p] = "dequeued"
    BY <1>2, AtHolds DEF CallPollFn
  <2>2. poll_fn[polling[p]] \in {"poll", "exited"}
    BY <1>2, <2>1 DEF CallPollFn, SlotType
  <2>3. \/ poll_fn[polling[p]] = "poll" /\ Moves(p, "body", polling[p], arg[p], to[p])
        \/ poll_fn[polling[p]] = "exited" /\ Moves(p, "loop", NULL, NULL, NULL)
    BY <1>2, <2>2, MovesGoto, MovesEndPoll DEF CallPollFn
  <2> QED BY <1>2, <2>1, <2>3, OthersStill DEF FrameChange, Moves
<1>3. CASE JoinStore(p) \/ PollPending(p) \/ ReadyDespawn(p)
  <2>1. Moves(p, "loop", NULL, NULL, NULL)
    BY <1>3, MovesEndPoll DEF JoinStore, PollPending, ReadyDespawn
  <2> QED BY <1>3, <2>1, OthersStill DEF FrameChange, Moves
<1>4. CASE PollReady(p)
  <2>1. Moves(p, "r_ptr", polling[p], arg[p], to[p]) /\ pc[p] = "body"
    BY <1>4, MovesGoto DEF PollReady, At
  <2> QED BY <1>4, <2>1, OthersStill DEF FrameChange, Moves
<1>5. CASE ReadyPtr(p) \/ ReadyDrop(p)
  <2>1. \E l \in {"r_drop", "r_fn"} : Moves(p, l, polling[p], arg[p], to[p])
    BY <1>5, MovesGoto DEF ReadyPtr, ReadyDrop
  <2>2. pc[p] \in InReady
    BY <1>5 DEF ReadyPtr, ReadyDrop, At, InReady
  <2> QED BY <2>1, <2>2, OthersStill DEF FrameChange, Moves
<1>6. CASE ReadyFn(p)
  <2>1. Moves(p, "r_cs", polling[p], arg[p], to[p]) /\ pc[p] \in InReady
    BY <1>6, MovesGoto DEF ReadyFn, At, InReady
  <2> QED BY <1>6, <2>1, OthersStill DEF FrameChange, Moves
<1> QED BY <1>1, <1>2, <1>3, <1>4, <1>5, <1>6

(* Every step changes a frame in one of these ways. *)
LEMMA FrameChanges ==
  ASSUME IInv, [Next]_vars, NEW r \in Prio
  PROVE  FrameChange(r)
<1>1. ASSUME MachineSoft \/ \E p \in Prio : Complete(p) PROVE FrameChange(r)
  BY <1>1, SchedulerMoves DEF FrameChange, Still, Resting, Idle
<1>2. ASSUME NEW p \in Prio, Step(p) \/ Body(p) \/ PollReturn(p) PROVE FrameChange(r)
  BY <1>1, <1>2, ChangeCalls, ChangePolls DEF Step, Body, PollReturn
<1>3. ASSUME \/ Start \/ Interrupt \/ UNCHANGED vars
             \/ \E t \in Tasks, q \in Prio : BootSpawn(t, q)
      PROVE  FrameChange(r)
  BY <1>3 DEF Start, Interrupt, ExternalMsi, IrqWake, BootSpawn, vars, frame, FrameChange, Still
<1> QED BY <1>1, <1>2, <1>3 DEF Next

(* TaskStorage::spawn alone makes a task pollable, and completion alone    *)
(* makes it exited.                                                        *)
LEMMA FnChanges ==
  ASSUME IInv, [Next]_vars, NEW u \in Tasks, poll_fn'[u] # poll_fn[u]
  PROVE  \/ \E p \in Prio : SpawnFn(p) /\ arg[p] = u /\ poll_fn'[u] = "poll"
         \/ \E p \in Prio : ReadyFn(p) /\ polling[p] = u /\ poll_fn'[u] = "exited"
         \/ \E q \in Prio : BootSpawn(u, q)
<1>1. SlotType
  BY DEF IInv
<1>2. ASSUME NEW p \in Prio, Body(p) \/ PollReturn(p) PROVE FALSE
  BY <1>2 DEF Body, WakeLoad, SpawnBegin, JoinTake, PollReturn, PollPending, PollReady, slot
<1>3. ASSUME NEW p \in Prio, Step(p)
      PROVE  \/ SpawnFn(p) /\ arg[p] = u /\ poll_fn'[u] = "poll"
             \/ ReadyFn(p) /\ polling[p] = u /\ poll_fn'[u] = "exited"
  <2>1. SpawnFn(p) \/ ReadyFn(p)
    BY <1>3 DEF Step, Dequeue, CallPollFn, Complete, WakeOr, WakePush, PendMark, PendSend, SpawnResult,
                SpawnWaker, SpawnFut, SpawnOr, SpawnPush, SpawnPend, JoinStore, ReadyPtr, ReadyDrop,
                ReadyDespawn, slot
  <2> QED BY <1>1, <2>1 DEF SpawnFn, ReadyFn, SlotType
<1>4. ASSUME NEW t \in Tasks, NEW q \in Prio, BootSpawn(t, q) PROVE t = u
  BY <1>1, <1>4 DEF BootSpawn, SlotType
<1>5. ~(Start \/ MachineSoft \/ Interrupt \/ UNCHANGED vars)
  BY DEF Start, MachineSoft, Interrupt, ExternalMsi, IrqWake, vars, slot
<1> QED BY <1>2, <1>3, <1>4, <1>5 DEF Next

(* STATE_SPAWNED is only cleared in the last critical section of a task. *)
LEMMA Despawns ==
  ASSUME IInv, [Next]_vars, NEW u \in Tasks, u \in spawned, u \notin spawned'
  PROVE  \E p \in Prio : ReadyDespawn(p) /\ polling[p] = u
<1>1. ASSUME NEW p \in Prio, Body(p) \/ PollReturn(p) PROVE FALSE
  BY <1>1 DEF Body, WakeLoad, SpawnBegin, JoinTake, PollReturn, PollPending, PollReady, slot
<1>2. ASSUME NEW p \in Prio, Step(p) PROVE ReadyDespawn(p)
  BY <1>2 DEF Step, Dequeue, CallPollFn, Complete, WakeOr, WakePush, PendMark, PendSend, SpawnResult,
              SpawnWaker, SpawnFn, SpawnFut, SpawnOr, SpawnPush, SpawnPend, JoinStore, ReadyPtr,
              ReadyDrop, ReadyFn, slot
<1>3. ASSUME NEW p \in Prio, ReadyDespawn(p) PROVE polling[p] = u
  BY <1>3 DEF ReadyDespawn, Despawn
<1>4. ~(Start \/ MachineSoft \/ Interrupt \/ UNCHANGED vars)
  BY DEF Start, MachineSoft, Interrupt, ExternalMsi, IrqWake, vars, slot
<1>5. ~\E t \in Tasks, q \in Prio : BootSpawn(t, q)
  BY DEF BootSpawn
<1> QED BY <1>1, <1>2, <1>3, <1>4, <1>5 DEF Next

(* A handle appears at the end of a spawn, and goes when it is used up or  *)
(* its holder completes.                                                   *)
LEMMA HandleChanges ==
  ASSUME IInv, [Next]_vars, NEW u \in Tasks, handle'[u] # handle[u]
  PROVE  \/ \E p \in Prio : pc[p] \in InSpawn /\ arg[p] = u /\ handle'[u] = polling[p]
         \/ handle'[u] = NULL /\ \E p \in Prio : JoinTake(p, u) /\ awaiting'[polling[p]] = NULL
         \/ handle'[u] = NULL /\ \E p \in Prio : PollReady(p) /\ polling[p] = handle[u]
<1>1. JoinType
  BY DEF IInv
<1>2. ASSUME NEW p \in Prio, Body(p)
      PROVE  handle'[u] = NULL /\ JoinTake(p, u) /\ awaiting'[polling[p]] = NULL
  <2>1. PICK v \in Tasks : JoinTake(p, v)
    BY <1>2 DEF Body, WakeLoad, SpawnBegin, app
  <2>2. polling[p] \in Tasks
    BY <2>1, AtHolds DEF JoinTake, IInv
  <2> QED BY <1>1, <2>1, <2>2 DEF JoinTake, JoinType
<1>3. ASSUME NEW p \in Prio, PollReturn(p)
      PROVE  handle'[u] = NULL /\ PollReady(p) /\ polling[p] = handle[u]
  BY <1>1, <1>3 DEF PollReturn, PollPending, PollReady, JoinType, app
<1>4. ASSUME NEW p \in Prio, Step(p)
      PROVE  pc[p] \in InSpawn /\ arg[p] = u /\ handle'[u] = polling[p]
  <2>1. SpawnOr(p) \/ SpawnPend(p)
    BY <1>4 DEF Step, Dequeue, CallPollFn, Complete, WakeOr, WakePush, PendMark, PendSend, SpawnResult,
                SpawnWaker, SpawnFn, SpawnFut, SpawnPush, JoinStore, ReadyPtr, ReadyDrop, ReadyFn,
                ReadyDespawn, app
  <2>2. pc[p] \in InSpawn /\ GiveHandle(p)
    BY <2>1 DEF SpawnOr, SpawnPend, At, InSpawn
  <2> QED BY <1>1, <2>2 DEF GiveHandle, JoinType
<1>5. ~(Start \/ MachineSoft \/ Interrupt \/ UNCHANGED vars \/ \E t \in Tasks, q \in Prio : BootSpawn(t, q))
  BY DEF Start, MachineSoft, Interrupt, ExternalMsi, IrqWake, BootSpawn, vars, app
<1> QED BY <1>2, <1>3, <1>4, <1>5 DEF Next

(* Only JoinHandle::poll of the task itself suspends it on a handle. *)
LEMMA AwaitChanges ==
  ASSUME IInv, [Next]_vars, NEW t \in Tasks, awaiting'[t] # awaiting[t]
  PROVE  \E p \in Prio, u \in Tasks :
           /\ JoinTake(p, u) /\ polling[p] = t
           /\ awaiting'[t] = IF result[u] THEN NULL ELSE u
<1>1. JoinType
  BY DEF IInv
<1>2. ASSUME NEW p \in Prio, Body(p)
      PROVE  \E u \in Tasks : /\ JoinTake(p, u) /\ polling[p] = t
                              /\ awaiting'[t] = IF result[u] THEN NULL ELSE u
  <2>1. PICK v \in Tasks : JoinTake(p, v)
    BY <1>2 DEF Body, WakeLoad, SpawnBegin, app
  <2> QED BY <1>1, <2>1 DEF JoinTake, JoinType
<1>3. ASSUME NEW p \in Prio, Step(p) \/ PollReturn(p) PROVE FALSE
  BY <1>3 DEF Step, Dequeue, CallPollFn, Complete, WakeOr, WakePush, PendMark, PendSend, SpawnResult,
              SpawnWaker, SpawnFn, SpawnFut, SpawnOr, SpawnPush, SpawnPend, JoinStore, ReadyPtr,
              ReadyDrop, ReadyFn, ReadyDespawn, PollReturn, PollPending, PollReady, app
<1>4. ~(Start \/ MachineSoft \/ Interrupt \/ UNCHANGED vars \/ \E v \in Tasks, q \in Prio : BootSpawn(v, q))
  BY DEF Start, MachineSoft, Interrupt, ExternalMsi, IrqWake, BootSpawn, vars, app
<1> QED BY <1>2, <1>3, <1>4 DEF Next

(* The waker of a joiner is replaced by the next JoinHandle::poll, dropped *)
(* by the next spawn, or taken on completion.                              *)
LEMMA WakerChanges ==
  ASSUME IInv, [Next]_vars, NEW u \in Tasks, waker'[u] # waker[u]
  PROVE  \/ \E p \in Prio : JoinStore(p) /\ arg[p] = u /\ waker'[u] = polling[p]
         \/ \E p \in Prio : SpawnWaker(p) /\ arg[p] = u
         \/ \E p \in Prio : ReadyDespawn(p) /\ polling[p] = u
         \/ \E q \in Prio : BootSpawn(u, q)
<1>1. JoinType
  BY DEF IInv
<1>2. ASSUME NEW p \in Prio, Body(p) \/ PollReturn(p) PROVE FALSE
  BY <1>2 DEF Body, WakeLoad, SpawnBegin, JoinTake, PollReturn, PollPending, PollReady, join
<1>3. ASSUME NEW p \in Prio, Step(p)
      PROVE  \/ JoinStore(p) /\ arg[p] = u /\ waker'[u] = polling[p]
             \/ SpawnWaker(p) /\ arg[p] = u
             \/ ReadyDespawn(p) /\ polling[p] = u
  <2>1. JoinStore(p) \/ SpawnWaker(p) \/ ReadyDespawn(p)
    BY <1>3 DEF Step, Dequeue, CallPollFn, Complete, WakeOr, WakePush, PendMark, PendSend, SpawnResult,
                SpawnFn, SpawnFut, SpawnOr, SpawnPush, SpawnPend, ReadyPtr, ReadyDrop, ReadyFn, join
  <2> QED BY <1>1, <2>1 DEF JoinStore, SpawnWaker, ReadyDespawn, JoinType
<1>4. ASSUME NEW t \in Tasks, NEW q \in Prio, BootSpawn(t, q) PROVE t = u
  BY <1>1, <1>4 DEF BootSpawn, JoinType
<1>5. ~(Start \/ MachineSoft \/ Interrupt \/ UNCHANGED vars)
  BY DEF Start, MachineSoft, Interrupt, ExternalMsi, IrqWake, vars, join
<1> QED BY <1>2, <1>3, <1>4, <1>5 DEF Next

(* What a step does to the run queues and to the pointers behind wakes. *)
QueueChange ==
  \/ UNCHANGED <<executor_ptr, run_queue>> /\ run_queued \subseteq run_queued'
  \/ run_queued \subseteq run_queued' /\ \E u \in Tasks, q \in Prio : PushTask(u, q)
  \/ UNCHANGED <<run_queued, run_queue>> /\ \E p \in Prio : ReadyPtr(p)
  \/ UNCHANGED executor_ptr /\ \E p \in Prio : Dequeue(p) /\ run_queue[p] # <<>>

(* wake_task with interrupts off pushes or does nothing. *)
LEMMA WakeNowQueues ==
  ASSUME QueueType, NEW u \in Tasks, WakeNow(u)
  PROVE  /\ QueueChange
         /\ executor_ptr[u] # NULL => u \in run_queued'
<1>1. CASE executor_ptr[u] # NULL /\ FirstEnqueue(u)
  <2>1. executor_ptr[u] \in Prio
    BY <1>1 DEF QueueType
  <2>2. PushTask(u, executor_ptr[u]) /\ run_queued' = run_queued \cup {u}
    BY <1>1 DEF WakeNow
  <2> QED BY <2>1, <2>2 DEF QueueChange
<1>2. CASE ~(executor_ptr[u] # NULL /\ FirstEnqueue(u))
  BY <1>2 DEF WakeNow, FirstEnqueue, queues, QueueChange
<1> QED BY <1>1, <1>2

(* Every step does one of these. *)
LEMMA QueueChanges ==
  ASSUME IInv, [Next]_vars
  PROVE  QueueChange
<1> USE DEF IInv
<1>1. ASSUME NEW p \in Prio, WakePush(p) \/ SpawnPush(p) PROVE QueueChange
  <2>1. arg[p] \in Tasks /\ to[p] \in Prio
    BY <1>1 DEF WakePush, SpawnPush, At, InWake, InSpawn, FrameInv, FrameOK
  <2>2. PushTask(arg[p], to[p]) /\ run_queued' = run_queued
    BY <1>1 DEF WakePush, SpawnPush
  <2> QED BY <2>1, <2>2 DEF QueueChange
<1>2. ASSUME NEW p \in Prio, ReadyDespawn(p) PROVE QueueChange
  <2>1. polling[p] \in Tasks
    BY <1>2, AtHolds DEF ReadyDespawn
  <2>2. waker[polling[p]] \in {NULL} \cup Tasks
    BY <2>1 DEF JoinType
  <2>3. CASE waker[polling[p]] # NULL
    BY <1>2, <2>2, <2>3, WakeNowQueues DEF ReadyDespawn
  <2>4. CASE waker[polling[p]] = NULL
    BY <1>2, <2>4 DEF ReadyDespawn, queues, QueueChange
  <2> QED BY <2>3, <2>4
<1>3. ASSUME NEW p \in Prio, Dequeue(p) \/ ReadyPtr(p) \/ WakeOr(p) \/ SpawnOr(p) PROVE QueueChange
  BY <1>3 DEF Dequeue, ReadyPtr, WakeOr, SpawnOr, QueueChange
<1>4. ASSUME NEW p \in Prio,
             \/ CallPollFn(p) \/ Complete(p) \/ PendMark(p) \/ PendSend(p) \/ SpawnResult(p)
             \/ SpawnWaker(p) \/ SpawnFn(p) \/ SpawnFut(p) \/ SpawnPend(p) \/ JoinStore(p)
             \/ ReadyDrop(p) \/ ReadyFn(p) \/ Body(p) \/ PollReturn(p)
      PROVE  QueueChange
  BY <1>4 DEF CallPollFn, Complete, PendMark, PendSend, SpawnResult, SpawnWaker, SpawnFn, SpawnFut,
              SpawnPend, JoinStore, ReadyDrop, ReadyFn, Body, WakeLoad, SpawnBegin, JoinTake,
              PollReturn, PollPending, PollReady, queues, QueueChange
<1>5. ASSUME NEW t \in Tasks, NEW q \in Prio, BootSpawn(t, q) PROVE QueueChange
  BY <1>5 DEF BootSpawn, QueueChange
<1>6. ASSUME NEW u \in Tasks, IrqWake(u) PROVE QueueChange
  BY <1>6, WakeNowQueues DEF IrqWake
<1>7. CASE Start \/ MachineSoft \/ ExternalMsi \/ UNCHANGED vars
  BY <1>7 DEF Start, MachineSoft, ExternalMsi, vars, queues, QueueChange
<1> QED BY <1>1, <1>2, <1>3, <1>4, <1>5, <1>6, <1>7 DEF Next, Step, Interrupt

(* Only the completion of a task clears its executor pointer. *)
LEMMA PtrCleared ==
  ASSUME IInv, [Next]_vars, NEW t \in Tasks, executor_ptr[t] # NULL, executor_ptr'[t] = NULL
  PROVE  \E p \in Prio : ReadyPtr(p) /\ polling[p] = t
<1>1. QueueType
  BY DEF IInv
<1>2. ~\E u \in Tasks, q \in Prio : PushTask(u, q)
  BY <1>1, NullAssumption DEF PushTask, QueueType
<1>3. PICK p \in Prio : ReadyPtr(p)
  BY <1>2, QueueChanges DEF QueueChange
<1> QED BY <1>1, <1>3 DEF ReadyPtr, QueueType

(* A task that enters a run queue can be woken. *)
LEMMA NewlyLinked ==
  ASSUME LinkOK, IInv, [Next]_vars, NEW t \in Tasks, LinkedIn(run_queue', t), ~LinkedIn(run_queue, t)
  PROVE  executor_ptr'[t] # NULL
<1>1. QueueType
  BY DEF IInv
<1>2. ASSUME NEW u \in Tasks, NEW q \in Prio, PushTask(u, q) PROVE executor_ptr'[t] # NULL
  <2>1. /\ run_queue'[q] = Append(run_queue[q], u)
        /\ \A p \in Prio \ {q} : run_queue'[p] = run_queue[p]
        /\ run_queue \in [Prio -> Seq(Tasks)]
    BY <1>1, <1>2 DEF PushTask, QueueType
  <2>2. t = u
    BY <2>1, LinkAppend
  <2> QED BY <1>1, <1>2, <2>2, NullAssumption DEF PushTask, QueueType
<1>3. ASSUME NEW p \in Prio, Dequeue(p), run_queue[p] # <<>> PROVE FALSE
  <2>1. /\ run_queue'[p] = Tail(run_queue[p])
        /\ \A q \in Prio \ {p} : run_queue'[q] = run_queue[q]
        /\ run_queue \in [Prio -> Seq(Tasks)] /\ DistinctIn(run_queue)
    BY <1>1, <1>3 DEF Dequeue, PopFront, QueueType, LinkOK
  <2> QED BY <1>3, <2>1, LinkTail
<1> QED BY <1>2, <1>3, QueueChanges DEF QueueChange

(* A task that leaves RUN_QUEUED is about to be polled. *)
LEMMA TakenFromQueue ==
  ASSUME IInv, [Next]_vars, NEW t \in run_queued, t \notin run_queued'
  PROVE  \E p \in Prio : pc'[p] = "dequeued" /\ polling'[p] = t
<1>1. PICK p \in Prio : Dequeue(p) /\ run_queue[p] # <<>>
  BY QueueChanges DEF QueueChange
<1>2. pc \in [Prio -> PC] /\ polling \in [Prio -> {NULL} \cup Tasks]
  BY DEF IInv, FrameInv, FrameType
<1>3. t = Head(run_queue[p])
  BY <1>1 DEF Dequeue, PopFront, RunDequeue
<1> QED BY <1>1, <1>2, <1>3 DEF Dequeue

(* The task that spawns an awaited task is the one that awaits it, and it  *)
(* is not suspended meanwhile.                                             *)
LEMMA SpawnerJoins ==
  ASSUME OneJoiner, JoinOK, IInv, NEW t \in Tasks, NEW u \in Tasks, <<t, u>> \in Joins,
         NEW p \in Prio, pc[p] \in InSpawn, arg[p] = u
  PROVE  polling[p] = t /\ awaiting[t] = NULL
<1>1. polling[p] \in Tasks
  BY DEF IInv, FrameInv, FrameOK, InSpawn
<1> QED BY <1>1 DEF JoinOK, CallerOK, OneJoiner

(* A task never runs above the poll of the task that awaits it. *)
LEMMA JoinerOnTop ==
  ASSUME JoinsDown, AppOK, IInv, NEW t \in Tasks, NEW u \in Tasks, <<t, u>> \in Joins,
         NEW p \in Prio, pc[p] \notin Idle, polling[p] = t,
         NEW q \in Prio, NEW l, At(q, l), l \notin Idle, polling[q] = u
  PROVE  p = q
<1>1. pc[q] = l
  BY DEF At
<1>2. p \in SpawnPrios[t] /\ q \in SpawnPrios[u]
  BY <1>1 DEF AppOK, AppFrames, AppFrame
<1>3. p <= q
  BY <1>2 DEF JoinsDown
<1>4. q <= p
  BY TopLeast DEF Idle
<1> QED BY <1>3, <1>4, NAssumption DEF Prio

(* An awaited task is polled only while it is spawned. *)
LEMMA AwaitedSpawned ==
  ASSUME JoinsDown, AwaitOK, IInv, AppOK, JoinOK, BootFrames, [Next]_vars,
         NEW u \in Tasks, Joined(u)
  PROVE  /\ u \notin spawned' => poll_fn'[u] # "poll"
         /\ \A p \in Prio : Inside(p)' /\ polling'[p] = u => u \in spawned'
<1>1. AwaitedOK(u)
  BY DEF AwaitOK
<1>2. ASSUME u \notin spawned' PROVE poll_fn'[u] # "poll"
  <2>1. CASE u \notin spawned
    <3>1. ASSUME NEW p \in Prio, SpawnFn(p), arg[p] = u PROVE FALSE
      BY <1>1, <2>1, <3>1 DEF AwaitedOK, SpawnFn, At, InSpawn
    <3>2. ASSUME NEW q \in Prio, BootSpawn(u, q) PROVE FALSE
      BY <1>2, <3>2 DEF BootSpawn
    <3> QED BY <1>1, <2>1, <3>1, <3>2, FnChanges DEF AwaitedOK
  <2>2. CASE u \in spawned
    <3>1. PICK p \in Prio : ReadyDespawn(p) /\ polling[p] = u
      BY <1>2, <2>2, Despawns
    <3>2. poll_fn[u] # "poll" /\ poll_fn' = poll_fn
      BY <1>1, <3>1 DEF AwaitedOK, ReadyDespawn, At
    <3> QED BY <3>2
  <2> QED BY <2>1, <2>2
<1>3. ASSUME NEW p \in Prio, Inside(p)', polling'[p] = u PROVE u \in spawned'
  <2>1. \/ Inside(p) /\ polling[p] = u
        \/ CallPollFn(p) /\ poll_fn[u] = "poll"
    BY <1>3, FrameChanges
       DEF FrameChange, Still, Inside, Idle, InWake, InSpawn, InReady
  <2>2. u \in spawned
    BY <1>1, <2>1 DEF AwaitedOK
  <2>3. ASSUME NEW q \in Prio, ReadyDespawn(q), polling[q] = u PROVE FALSE
    <3>1. At(q, "r_cs") /\ pc[q] = "r_cs"
      BY <2>3 DEF ReadyDespawn, At
    <3>2. CASE CallPollFn(p)
      BY <2>3, <3>2 DEF CallPollFn, ReadyDespawn, At
    <3>3. CASE Inside(p) /\ polling[p] = u
      <4>1. p = q
        BY <2>3, <3>1, <3>3, OneFrame DEF JoinsDown, AppOK, IInv, Inside, Idle
      <4>2. pc'[p] = "loop"
        BY <2>3, <4>1, MovesEndPoll DEF ReadyDespawn, IInv, Moves
      <4> QED BY <1>3, <4>2 DEF Inside, Idle
    <3> QED BY <2>1, <3>2, <3>3
  <2> QED BY <2>2, <2>3, Despawns
<1> QED BY <1>2, <1>3

(* It is exited before it is despawned, and whole while it is spawned      *)
(* again.                                                                  *)
LEMMA AwaitedApart ==
  ASSUME JoinsDown, AwaitOK, IInv, AppOK, JoinOK, BootFrames, [Next]_vars,
         NEW u \in Tasks, Joined(u), NEW p \in Prio
  PROVE  /\ pc'[p] = "r_cs" /\ polling'[p] = u => poll_fn'[u] # "poll"
         /\ pc'[p] \in InSpawn /\ arg'[p] = u =>
              u \in spawned' /\ \A r \in Prio : Inside(r)' => polling'[r] # u
<1>1. AwaitedOK(u)
  BY DEF AwaitOK
<1>2. PICK t \in Tasks : <<t, u>> \in Joins
  BY DEF Joined
<1>3. ASSUME pc'[p] = "r_cs", polling'[p] = u PROVE poll_fn'[u] # "poll"
  <2>1. \/ pc[p] = "r_cs" /\ polling[p] = u
        \/ ReadyFn(p) /\ polling[p] = u
    BY <1>3, FrameChanges
       DEF FrameChange, Still, Idle, InWake, InSpawn, InReady
  <2>2. CASE ReadyFn(p) /\ polling[p] = u
    BY <2>2 DEF ReadyFn, IInv, SlotType
  <2>3. CASE pc[p] = "r_cs" /\ polling[p] = u
    <3>1. ASSUME NEW q \in Prio, SpawnFn(q), arg[q] = u PROVE FALSE
      BY <1>1, <2>3, <3>1 DEF AwaitedOK, SpawnFn, At, InSpawn, Inside, Idle
    <3>2. ASSUME NEW q \in Prio, BootSpawn(u, q) PROVE FALSE
      BY <2>3, <3>2 DEF BootSpawn, BootFrames
    <3> QED BY <1>1, <2>3, <3>1, <3>2, FnChanges DEF AwaitedOK
  <2> QED BY <2>1, <2>2, <2>3
<1>4. ASSUME pc'[p] \in InSpawn, arg'[p] = u
      PROVE  u \in spawned' /\ \A r \in Prio : Inside(r)' => polling'[r] # u
  <2>1. \/ pc[p] \in InSpawn /\ arg[p] = u
        \/ \E q \in Prio : SpawnBegin(p, u, q)
    BY <1>4, FrameChanges
       DEF FrameChange, Still, Idle, InWake, InSpawn, InReady
  <2>2. CASE \E q \in Prio : SpawnBegin(p, u, q)
    <3>1. u \notin spawned /\ u \in spawned' /\ At(p, "body")
      BY <2>2 DEF SpawnBegin, FirstSpawn
    <3>2. ASSUME NEW r \in Prio, Inside(r)', polling'[r] = u PROVE FALSE
      <4>1. ~(Inside(r) /\ polling[r] = u)
        BY <1>1, <3>1 DEF AwaitedOK
      <4>2. CallPollFn(r)
        BY <3>2, <4>1, FrameChanges
           DEF FrameChange, Still, Inside, Idle, InWake, InSpawn, InReady
      <4> QED BY <3>1, <4>2 DEF CallPollFn, At
    <3> QED BY <3>1, <3>2
  <2>3. CASE pc[p] \in InSpawn /\ arg[p] = u
    <3>1. u \in spawned /\ \A r \in Prio : Inside(r) => polling[r] # u
      BY <1>1, <2>3 DEF AwaitedOK
    <3>2. ASSUME NEW q \in Prio, ReadyDespawn(q), polling[q] = u PROVE FALSE
      BY <3>1, <3>2 DEF ReadyDespawn, At, Inside, Idle
    <3>3. ASSUME NEW r \in Prio, Inside(r)', polling'[r] = u PROVE FALSE
      <4>1. CallPollFn(r) /\ polling[r] = u
        BY <3>1, <3>3, FrameChanges
           DEF FrameChange, Still, Inside, Idle, InWake, InSpawn, InReady
      <4>2. At(r, "dequeued") /\ pc[r] = "dequeued"
        BY <4>1 DEF CallPollFn, At
      <4>3. polling[p] = t
        BY <1>2, <2>3, SpawnerJoins DEF JoinsDown
      <4>4. pc[p] \notin Idle
        BY <2>3 DEF InSpawn, Idle
      <4>5. p = r
        BY <1>2, <4>1, <4>2, <4>3, <4>4, JoinerOnTop DEF Idle
      <4> QED BY <2>3, <4>2, <4>5 DEF InSpawn
    <3> QED BY <3>1, <3>2, <3>3, Despawns
  <2> QED BY <2>1, <2>2, <2>3
<1> QED BY <1>3, <1>4

(* Once an awaited task is ready, its output stays until the joiner has    *)
(* used its handle.                                                        *)
LEMMA AwaitedResult ==
  ASSUME JoinsDown, AwaitOK, IInv, AppOK, JoinOK, BootFrames, [Next]_vars,
         NEW u \in Tasks, Joined(u), <<handle'[u], u>> \in Joins
  PROVE  /\ \A p \in Prio : pc'[p] \in InReady /\ polling'[p] = u => result'[u]
         /\ u \in spawned' \/ result'[u]
<1>1. AwaitedOK(u) /\ JoinType
  BY DEF AwaitOK, IInv
<1>2. handle'[u] # NULL
  BY NullAssumption, AppAssumption
<1>3. \/ handle'[u] = handle[u]
      \/ \E p \in Prio : pc[p] \in InSpawn /\ arg[p] = u
  BY <1>2, HandleChanges
<1>4. ASSUME NEW p \in Prio, JoinTake(p, u), result[u] PROVE FALSE
  BY <1>1, <1>2, <1>4 DEF JoinTake, JoinType
<1>5. ASSUME NEW p \in Prio, SpawnResult(p), arg[p] = u PROVE pc[p] \in InSpawn
  BY <1>5 DEF SpawnResult, At, InSpawn
<1>6. ASSUME NEW p \in Prio, pc'[p] \in InReady, polling'[p] = u PROVE result'[u]
  <2>1. \/ pc[p] \in InReady /\ polling[p] = u
        \/ PollReady(p) /\ polling[p] = u
    BY <1>6, FrameChanges
       DEF FrameChange, Still, Idle, InWake, InSpawn, InReady
  <2>2. CASE PollReady(p) /\ polling[p] = u
    BY <1>1, <2>2 DEF PollReady, JoinType
  <2>3. CASE pc[p] \in InReady /\ polling[p] = u
    <3>1. Inside(p) /\ pc[p] # "off"
      BY <2>3 DEF Inside, Idle, InReady
    <3>2. ~\E q \in Prio : pc[q] \in InSpawn /\ arg[q] = u
      BY <1>1, <2>3, <3>1 DEF AwaitedOK
    <3>3. result[u]
      BY <1>1, <1>3, <2>3, <3>2 DEF AwaitedOK
    <3>4. ~\E q \in Prio : BootSpawn(u, q)
      BY <3>1 DEF BootSpawn, BootFrames
    <3> QED BY <1>4, <1>5, <3>2, <3>3, <3>4, ResultTaken
  <2> QED BY <2>1, <2>2, <2>3
<1>7. ASSUME u \notin spawned' PROVE result'[u]
  <2>1. CASE u \in spawned
    <3>1. PICK q \in Prio : ReadyDespawn(q) /\ polling[q] = u
      BY <1>7, <2>1, Despawns
    <3>2. pc[q] = "r_cs" /\ result' = result
      BY <3>1 DEF ReadyDespawn, At
    <3>3. ~\E p \in Prio : pc[p] \in InSpawn /\ arg[p] = u
      BY <1>1, <3>1, <3>2 DEF AwaitedOK, Inside, Idle
    <3> QED BY <1>1, <1>3, <3>1, <3>2, <3>3 DEF AwaitedOK, InReady
  <2>2. CASE u \notin spawned
    <3>1. ~\E p \in Prio : pc[p] \in InSpawn /\ arg[p] = u
      BY <1>1, <2>2 DEF AwaitedOK
    <3>2. result[u]
      BY <1>1, <1>3, <2>2, <3>1 DEF AwaitedOK
    <3>3. ~\E q \in Prio : BootSpawn(u, q)
      BY <1>7 DEF BootSpawn
    <3> QED BY <1>4, <1>5, <3>1, <3>2, <3>3, ResultTaken
  <2> QED BY <2>1, <2>2
<1> QED BY <1>6, <1>7

(* A task that never completes stays wakeable. *)
LEMMA EndlessNext ==
  ASSUME AwaitOK, IInv, AppOK, LinkOK, [Next]_vars, NEW t \in Tasks \ Finite
  PROVE  EndlessOK(t)'
<1>1. EndlessOK(t) /\ SlotType
  BY DEF AwaitOK, IInv
<1>2. ASSUME NEW p \in Prio, pc[p] \in InReady PROVE polling[p] # t
  BY <1>2 DEF AppOK, AppFrames, AppFrame
<1>3. poll_fn'[t] # "exited"
  <2>1. ASSUME NEW p \in Prio, ReadyFn(p) PROVE polling[p] # t
    BY <1>2, <2>1 DEF ReadyFn, At, InReady
  <2>2. ASSUME NEW q \in Prio, BootSpawn(t, q) PROVE poll_fn'[t] # "exited"
    BY <1>1, <2>2 DEF BootSpawn, SlotType
  <2> QED BY <1>1, <2>1, <2>2, FnChanges DEF EndlessOK
<1>4. ASSUME executor_ptr[t] # NULL PROVE executor_ptr'[t] # NULL
  <2>1. ASSUME NEW p \in Prio, ReadyPtr(p) PROVE polling[p] # t
    BY <1>2, <2>1 DEF ReadyPtr, At, InReady
  <2> QED BY <1>4, <2>1, PtrCleared
<1>5. ASSUME LinkedIn(run_queue', t) PROVE executor_ptr'[t] # NULL
  BY <1>1, <1>4, <1>5, NewlyLinked DEF EndlessOK
<1>6. ASSUME NEW p \in Prio, pc'[p] \notin Idle, polling'[p] = t PROVE executor_ptr'[t] # NULL
  <2>1. \/ pc[p] \notin Idle /\ polling[p] = t
        \/ LinkedIn(run_queue, t)
    BY <1>6, FrameChanges
       DEF FrameChange, Still, Idle, InWake, InSpawn, InReady
  <2> QED BY <1>1, <1>4, <2>1 DEF EndlessOK
<1>7. ASSUME awaiting'[t] # NULL PROVE executor_ptr'[t] # NULL
  <2>1. CASE awaiting'[t] = awaiting[t]
    BY <1>1, <1>4, <1>7, <2>1 DEF EndlessOK
  <2>2. CASE awaiting'[t] # awaiting[t]
    <3>1. PICK p \in Prio, u \in Tasks : JoinTake(p, u) /\ polling[p] = t
      BY <2>2, AwaitChanges
    <3>2. pc[p] \notin Idle
      BY <3>1 DEF JoinTake, At, Idle
    <3> QED BY <1>1, <1>4, <3>1, <3>2 DEF EndlessOK
  <2> QED BY <2>1, <2>2
<1>8. /\ LinkedIn(run_queue', t) => executor_ptr'[t] # NULL
      /\ (\E p \in Prio : pc'[p] \notin Idle /\ polling'[p] = t) => executor_ptr'[t] # NULL
      /\ awaiting'[t] # NULL => executor_ptr'[t] # NULL
  BY <1>5, <1>6, <1>7
<1> QED BY <1>3, <1>8 DEF EndlessOK, LinkedIn

(* The task a joiner is about to store its waker in has not completed. *)
LEMMA StoringNext ==
  ASSUME JoinsDown, AwaitOK, IInv, AppOK, JoinOK, [Next]_vars
  PROVE  StoringOK'
<1> SUFFICES ASSUME NEW p \in Prio, pc'[p] = "j_store" PROVE arg'[p] \in spawned'
  BY DEF StoringOK
<1>1. \/ pc[p] = "j_store" /\ arg'[p] = arg[p]
      \/ arg'[p] \in Tasks /\ JoinTake(p, arg'[p]) /\ ~result[arg'[p]]
  BY FrameChanges DEF FrameChange, Still, Idle, InWake, InSpawn, InReady
<1>2. CASE pc[p] = "j_store" /\ arg'[p] = arg[p]
  <2> DEFINE t == polling[p]  u == arg[p]
  <2>1. t \in Tasks /\ u \in Tasks /\ u \in spawned
    BY <1>2 DEF AwaitOK, StoringOK, IInv, FrameInv, FrameOK
  <2>2. awaiting[t] = u
    BY <1>2 DEF JoinOK, CallerOK
  <2>3. <<t, u>> \in Joins
    BY <2>1, <2>2, NullAssumption DEF JoinOK, HandleOK
  <2>4. ASSUME NEW q \in Prio, ReadyDespawn(q), polling[q] = u PROVE FALSE
    <3>1. At(q, "r_cs") /\ pc[q] = "r_cs"
      BY <2>4 DEF ReadyDespawn, At
    <3>2. p = q
      BY <1>2, <2>1, <2>3, <2>4, <3>1, JoinerOnTop DEF Idle
    <3> QED BY <1>2, <3>1, <3>2
  <2> QED BY <1>2, <2>1, <2>4, Despawns
<1>3. CASE arg'[p] \in Tasks /\ JoinTake(p, arg'[p]) /\ ~result[arg'[p]]
  <2> DEFINE t == polling[p]  u == arg'[p]
  <2>1. t \in Tasks
    BY <1>3, AtHolds DEF JoinTake, IInv
  <2>2. MayJoin(t, u) /\ spawned' = spawned
    BY <1>3 DEF JoinTake, slot
  <2>3. t \in Tasks /\ u \in Tasks /\ <<t, u>> \in Joins /\ handle[u] = t
    <3>1. u \in Tasks /\ u # NULL
      BY <1>3, NullAssumption
    <3>2. CASE awaiting[t] = u
      BY <2>1, <3>1, <3>2 DEF AwaitOK, SuspendedOK, JoinOK, HandleOK
    <3> QED BY <2>1, <2>2, <3>1, <3>2 DEF MayJoin
  <2>4. AwaitedOK(u)
    BY <2>3 DEF AwaitOK, Joined
  <2> QED BY <1>3, <2>2, <2>3, <2>4 DEF AwaitedOK
<1> QED BY <1>1, <1>2, <1>3

(* A suspended joiner keeps its handle. *)
LEMMA HandleKept ==
  ASSUME JoinsDown, AwaitOK, IInv, AppOK, JoinOK, [Next]_vars,
         NEW t \in Tasks, NEW u \in Tasks, awaiting[t] = u, awaiting'[t] = u
  PROVE  handle'[u] = t
<1>1. u # NULL /\ handle[u] = t /\ <<t, u>> \in Joins
  BY NullAssumption DEF AwaitOK, SuspendedOK, JoinOK, HandleOK
<1>2. ASSUME NEW p \in Prio, pc[p] \in InSpawn, arg[p] = u PROVE FALSE
  BY <1>1, <1>2, SpawnerJoins DEF JoinsDown
<1>3. ASSUME NEW p \in Prio, JoinTake(p, u), awaiting'[polling[p]] = NULL PROVE FALSE
  <2>1. polling[p] \in Tasks /\ MayJoin(polling[p], u)
    BY <1>3, AtHolds DEF JoinTake, IInv
  <2>2. handle[u] = polling[p]
    BY <1>1, <2>1 DEF MayJoin, AwaitOK, SuspendedOK
  <2> QED BY <1>1, <1>3, <2>2
<1>4. ASSUME NEW p \in Prio, PollReady(p), polling[p] = t PROVE FALSE
  BY <1>1, <1>4 DEF PollReady
<1> QED BY <1>1, <1>2, <1>3, <1>4, HandleChanges

(* Whoever stops polling a suspended joiner has stored its waker. *)
LEMMA SuspendedLeaves ==
  ASSUME JoinsDown, AwaitOK, IInv, AppOK, JoinOK, [Next]_vars,
         NEW t \in Tasks, NEW u \in Tasks, awaiting[t] = u,
         NEW p \in Prio, pc[p] \notin Idle, polling[p] = t
  PROVE  \/ pc'[p] \notin Idle /\ polling'[p] = t
         \/ waker'[u] = t /\ u \in spawned'
<1>1. u # NULL /\ t \notin Finite
  BY NullAssumption DEF JoinOK, HandleOK, JoinsDown
<1>2. ~(CallPollFn(p) /\ poll_fn[t] = "exited")
  BY <1>1 DEF AwaitOK, EndlessOK
<1>3. ~PollPending(p)
  BY <1>1 DEF PollPending
<1>4. ~ReadyDespawn(p)
  BY <1>1 DEF ReadyDespawn, At, InReady, AppOK, AppFrames, AppFrame
<1>5. \/ pc'[p] \notin Idle /\ polling'[p] = t
      \/ JoinStore(p)
  BY <1>2, <1>3, <1>4, FrameChanges DEF FrameChange, Still, Idle, InWake, InSpawn, InReady
<1>6. ASSUME JoinStore(p) PROVE waker'[u] = t /\ u \in spawned'
  <2>1. arg[p] = u /\ arg[p] \in spawned
    BY <1>6 DEF JoinStore, At, JoinOK, CallerOK, AwaitOK, StoringOK
  <2> QED BY <1>6, <2>1 DEF JoinStore, IInv, JoinType, slot
<1> QED BY <1>5, <1>6

(* A waker that leaves the JoinState of the awaited task was used. *)
LEMMA SuspendedWoken ==
  ASSUME JoinsDown, AwaitOK, IInv, AppOK, JoinOK, [Next]_vars,
         NEW t \in Tasks, NEW u \in Tasks, awaiting[t] = u, waker[u] = t, u \in spawned
  PROVE  \/ waker'[u] = t /\ u \in spawned'
         \/ t \in run_queued'
<1>1. /\ u # NULL /\ handle[u] = t /\ <<t, u>> \in Joins /\ t \notin Finite /\ started
  BY NullAssumption DEF AwaitOK, SuspendedOK, JoinOK, HandleOK, JoinsDown
<1>2. ASSUME NEW p \in Prio, ReadyDespawn(p), polling[p] = u PROVE t \in run_queued'
  <2>1. WakeNow(t)
    BY <1>2, NullAssumption DEF ReadyDespawn
  <2>2. executor_ptr[t] # NULL
    BY <1>1 DEF AwaitOK, EndlessOK
  <2> QED BY <2>1, <2>2, WakeNowQueues DEF IInv
<1>3. ASSUME NEW p \in Prio, JoinStore(p), arg[p] = u PROVE polling[p] = t
  <2>1. awaiting[polling[p]] = u /\ polling[p] \in Tasks
    BY <1>3, AtHolds DEF JoinStore, At, JoinOK, CallerOK, IInv
  <2> QED BY <1>1, <2>1 DEF AwaitOK, SuspendedOK
<1>4. ASSUME NEW p \in Prio, SpawnWaker(p), arg[p] = u PROVE FALSE
  <2>1. pc[p] \in InSpawn
    BY <1>4 DEF SpawnWaker, At, InSpawn
  <2> QED BY <1>1, <1>4, <2>1, SpawnerJoins DEF JoinsDown
<1>5. ~\E q \in Prio : BootSpawn(u, q)
  BY <1>1 DEF BootSpawn
<1>6. waker'[u] = t \/ t \in run_queued'
  BY <1>2, <1>3, <1>4, <1>5, WakerChanges
<1>7. u \in spawned' \/ t \in run_queued'
  BY <1>2, Despawns
<1> QED BY <1>6, <1>7

(* A suspended joiner is polled, queued, or waited for. *)
LEMMA SuspendedNext ==
  ASSUME JoinsDown, AwaitOK, IInv, AppOK, JoinOK, [Next]_vars, NEW t \in Tasks
  PROVE  SuspendedOK(t)'
<1> SUFFICES ASSUME awaiting'[t] # NULL
             PROVE  /\ handle'[awaiting'[t]] = t
                    /\ \/ \E p \in Prio : pc'[p] \notin Idle /\ polling'[p] = t
                       \/ t \in run_queued'
                       \/ waker'[awaiting'[t]] = t /\ awaiting'[t] \in spawned'
  BY DEF SuspendedOK
<1>1. CASE awaiting'[t] # awaiting[t]
  <2>1. PICK p \in Prio, u \in Tasks :
          /\ JoinTake(p, u) /\ polling[p] = t
          /\ awaiting'[t] = IF result[u] THEN NULL ELSE u
    BY <1>1, AwaitChanges
  <2>2. ~result[u] /\ awaiting'[t] = u
    BY <2>1
  <2>3. Moves(p, "j_store", t, u, NULL) /\ handle' = handle
    BY <2>1, <2>2, MovesCall DEF JoinTake, IInv
  <2>4. handle[u] = t
    BY <1>1, <2>1, <2>2 DEF JoinTake, MayJoin
  <2> QED BY <2>2, <2>3, <2>4 DEF Moves, Idle
<1>2. CASE awaiting'[t] = awaiting[t]
  <2> DEFINE u == awaiting[t]
  <2>1. u \in Tasks /\ SuspendedOK(t)
    BY <1>2 DEF AwaitOK, IInv, JoinType
  <2>2. handle'[u] = t
    BY <1>2, <2>1, HandleKept
  <2>3. CASE \E p \in Prio : pc[p] \notin Idle /\ polling[p] = t
    BY <1>2, <2>1, <2>2, <2>3, SuspendedLeaves
  <2>4. CASE t \in run_queued
    <3>1. t \in run_queued' \/ \E p \in Prio : pc'[p] = "dequeued" /\ polling'[p] = t
      BY <2>4, TakenFromQueue
    <3> QED BY <1>2, <2>2, <3>1 DEF Idle
  <2>5. CASE waker[u] = t /\ u \in spawned
    BY <1>2, <2>1, <2>2, <2>5, SuspendedWoken
  <2> QED BY <1>2, <2>1, <2>3, <2>4, <2>5 DEF SuspendedOK
<1> QED BY <1>1, <1>2

(* Every step keeps the invariant of awaited and awaiting tasks. *)
LEMMA AwaitNext ==
  ASSUME JoinsDown
  PROVE  AwaitOK /\ IInv /\ LinkOK /\ AppOK /\ JoinOK /\ BootFrames /\ [Next]_vars => AwaitOK'
<1> SUFFICES ASSUME AwaitOK, IInv, LinkOK, AppOK, JoinOK, BootFrames, [Next]_vars PROVE AwaitOK'
  OBVIOUS
<1>1. ASSUME NEW u \in Tasks, Joined(u) PROVE AwaitedOK(u)'
  <2>1. /\ u \notin spawned' => poll_fn'[u] # "poll"
        /\ \A p \in Prio : Inside(p)' /\ polling'[p] = u => u \in spawned'
    BY <1>1, AwaitedSpawned
  <2>2. \A p \in Prio :
          /\ pc'[p] = "r_cs" /\ polling'[p] = u => poll_fn'[u] # "poll"
          /\ pc'[p] \in InSpawn /\ arg'[p] = u =>
               u \in spawned' /\ \A r \in Prio : Inside(r)' => polling'[r] # u
    BY <1>1, AwaitedApart
  <2>3. <<handle'[u], u>> \in Joins =>
          /\ \A p \in Prio : pc'[p] \in InReady /\ polling'[p] = u => result'[u]
          /\ u \in spawned' \/ result'[u]
    BY <1>1, AwaitedResult
  <2> QED BY <2>1, <2>2, <2>3 DEF AwaitedOK, Inside
<1>2. \A t \in Tasks \ Finite : EndlessOK(t)'
  BY EndlessNext
<1>3. \A t \in Tasks : SuspendedOK(t)'
  BY SuspendedNext
<1>4. StoringOK'
  BY StoringNext
<1> QED BY <1>1, <1>2, <1>3, <1>4 DEF AwaitOK, Joined

(* When every joiner is an endless task that its awaited tasks cannot      *)
(* preempt, a task suspended on a JoinHandle is queued, or its waker is    *)
(* stored in a task that has yet to despawn: the store of JoinHandle::poll *)
(* does not come after the take of TaskStorage::poll.                      *)
THEOREM JoinerNeverStranded ==
  ASSUME JoinsDown
  PROVE  Spec => []JoinerNotStranded
<1>1. ASSUME Init PROVE AwaitOK /\ BootFrames
  <2>1. \A p \in Prio : Len(run_queue[p]) = 0
    BY <1>1 DEF Init
  <2>2. \A p \in Prio : 1 .. Len(run_queue[p]) = {}
    BY <2>1
  <2>3. \A t : ~LinkedIn(run_queue, t)
    BY <2>2 DEF LinkedIn
  <2>4. \A p \in Prio : pc[p] = "off"
    BY <1>1 DEF Init
  <2>5. \A u \in Tasks : AwaitedOK(u)
    BY <1>1, <2>4, NullAssumption, AppAssumption
       DEF Init, AwaitedOK, Inside, Idle, InSpawn, InReady
  <2>6. \A t \in Tasks : EndlessOK(t)
    BY <1>1, <2>3, <2>4 DEF Init, EndlessOK, Idle
  <2>7. \A t \in Tasks : SuspendedOK(t)
    BY <1>1 DEF Init, SuspendedOK
  <2> QED BY <2>4, <2>5, <2>6, <2>7 DEF AwaitOK, StoringOK, BootFrames
<1>2. Init => AwaitOK /\ BootFrames
  BY <1>1
<1>3. ASSUME AwaitOK, IInv PROVE JoinerNotStranded
  BY <1>3 DEF AwaitOK, SuspendedOK, JoinerNotStranded
<1>4. AwaitOK /\ IInv => JoinerNotStranded
  BY <1>3
<1>5. OneJoiner
  BY DEF JoinsDown
<1>6. Spec => [](JoinOK /\ AppOK)
  BY <1>5, JoinAlways
<1> QED BY <1>2, <1>4, <1>6, InvAlways, LinkAlways, BootFramesNext, AwaitNext, PTL DEF Spec
===============================================================================
