------------------------------ MODULE AsyncMutex ------------------------------
(***************************************************************************)
(* The async Mutex<T, N> of modules/futures/src/mutex.rs.  Every access to *)
(* MutexInner is in a critical section, so poll, the two drops and what    *)
(* they do to the waiter list are single actions.  A task has at most one  *)
(* lock attempt or guard of this mutex at a time.                          *)
(*                                                                         *)
(* The executor is seen through one set: a woken task will be polled.      *)
(***************************************************************************)
EXTENDS Integers, Sequences, FiniteSets

CONSTANTS
  Tasks,      \* the tasks that use the mutex
  N,          \* the capacity of the waiter queue
  Cancels,    \* the tasks that may drop a pending MutexLockFuture
  Spurious    \* the tasks that may be polled without a wake (join, select)

ASSUME CapacityAssumption == N \in Nat \ {0}
ASSUME TasksAssumption == IsFiniteSet(Tasks)
ASSUME RolesAssumption == Cancels \cup Spurious \subseteq Tasks

VARIABLES
  locked,     \* MutexInner.locked
  waiters,    \* MutexInner.waiters: whose Option<Waker> each entry points to
  phase,      \* per task: no attempt, a MutexLockFuture, or a MutexGuard
  queued,     \* the futures with queued = true
  waker,      \* the futures whose waker is Some
  woken,      \* the tasks the executor will poll
  panicked,   \* push on a full waiter queue: "mutex: waiter queue full"
  \* history
  usurped     \* a wake was wasted: its task was overtaken, or gave up

vars == <<locked, waiters, phase, queued, waker, woken, panicked, usurped>>

Init ==
  /\ locked = FALSE /\ waiters = <<>>
  /\ phase = [t \in Tasks |-> "none"]
  /\ queued = {} /\ waker = {} /\ woken = {}
  /\ panicked = FALSE /\ usurped = FALSE

-------------------------------------------------------------------------------
(* Vec::retain(|&p| p != needle): kept[i] is what is left of the first i. *)
Retain(t) ==
  LET kept[i \in 0 .. Len(waiters)] ==
        IF i = 0 THEN <<>>
        ELSE IF waiters[i] = t THEN kept[i - 1] ELSE Append(kept[i - 1], waiters[i])
  IN  kept[Len(waiters)]

\* Mutant: locked is not looked at.
PollAcquireAnyway(t) ==
  /\ locked' = TRUE
  /\ waiters' = IF t \in queued THEN Retain(t) ELSE waiters
  /\ waker' = waker \ {t}
  /\ queued' = queued \ {t}
  /\ phase' = [phase EXCEPT ![t] = "guard"]
  /\ UNCHANGED panicked

(* MutexLockFuture::poll finds the mutex free.  The drop of the completed  *)
(* future that follows finds its entry already gone.                       *)
PollAcquire(t) ==
  /\ ~locked
  /\ locked' = TRUE
  /\ waiters' = IF t \in queued THEN Retain(t) ELSE waiters
  /\ waker' = waker \ {t}
  /\ queued' = queued \ {t}
  /\ phase' = [phase EXCEPT ![t] = "guard"]
  /\ UNCHANGED panicked

\* Mutant: every Pending poll pushes the entry again.
PollPendRepush(t) ==
  /\ locked
  /\ waker' = waker \cup {t}
  /\ IF Len(waiters) < N
       THEN waiters' = Append(waiters, t) /\ queued' = queued \cup {t}
            /\ UNCHANGED panicked
       ELSE panicked' = TRUE /\ UNCHANGED <<waiters, queued>>
  /\ phase' = [phase EXCEPT ![t] = "future"]
  /\ UNCHANGED locked

(* ... or taken: store the waker, and queue on the first such poll only. *)
PollPend(t) ==
  /\ locked
  /\ waker' = waker \cup {t}
  /\ IF t \in queued
       THEN UNCHANGED <<waiters, queued, panicked>>
       ELSE IF Len(waiters) < N
         THEN waiters' = Append(waiters, t) /\ queued' = queued \cup {t}
              /\ UNCHANGED panicked
         ELSE panicked' = TRUE /\ UNCHANGED <<waiters, queued>>
  /\ phase' = [phase EXCEPT ![t] = "future"]
  /\ UNCHANGED locked

Poll(t) ==
  /\ ~panicked
  /\ PollAcquire(t) \/ PollPend(t)
  /\ usurped' = (usurped \/ (~locked /\ woken \ {t} # {}))

(* lock().await: the future Mutex::lock makes is polled at once. *)
Lock(t) ==
  /\ phase[t] = "none"
  /\ Poll(t)
  /\ UNCHANGED woken

(* The executor polls the task again. *)
Repoll(t) ==
  /\ phase[t] = "future" /\ t \in woken \cup Spurious
  /\ Poll(t)
  /\ woken' = woken \ {t}

\* Mutant: MutexLockFuture has no Drop.
DropFutureLeaves(t) ==
  /\ ~panicked /\ phase[t] = "future" /\ t \in Cancels
  /\ queued' = queued \ {t} /\ waker' = waker \ {t}
  /\ phase' = [phase EXCEPT ![t] = "none"]
  /\ woken' = woken \ {t} /\ usurped' = (usurped \/ t \in woken)
  /\ UNCHANGED <<locked, waiters, panicked>>

(* Drop of a MutexLockFuture that has not completed. *)
DropFuture(t) ==
  /\ ~panicked /\ phase[t] = "future" /\ t \in Cancels
  /\ waiters' = IF t \in queued THEN Retain(t) ELSE waiters
  /\ queued' = queued \ {t} /\ waker' = waker \ {t}
  /\ phase' = [phase EXCEPT ![t] = "none"]
  /\ woken' = woken \ {t} /\ usurped' = (usurped \/ t \in woken)
  /\ UNCHANGED <<locked, panicked>>

\* Mutant: the head waiter is removed and its waker dropped.
DropGuardNoWake(t) ==
  /\ ~panicked /\ phase[t] = "guard"
  /\ locked' = FALSE
  /\ phase' = [phase EXCEPT ![t] = "none"]
  /\ waiters' = IF waiters = <<>> THEN waiters ELSE Tail(waiters)
  /\ UNCHANGED <<queued, waker, woken, panicked, usurped>>

\* Mutant: the newest waiter is taken.
DropGuardLast(t) ==
  /\ ~panicked /\ phase[t] = "guard"
  /\ locked' = FALSE
  /\ phase' = [phase EXCEPT ![t] = "none"]
  /\ IF waiters = <<>>
       THEN UNCHANGED <<waiters, woken>>
       ELSE /\ waiters' = SubSeq(waiters, 1, Len(waiters) - 1)
            /\ woken' = woken \cup {waiters[Len(waiters)]}
  /\ UNCHANGED <<queued, waker, panicked, usurped>>

(* Drop of a MutexGuard: unlock, remove the head waiter, wake it. *)
DropGuard(t) ==
  /\ ~panicked /\ phase[t] = "guard"
  /\ locked' = FALSE
  /\ phase' = [phase EXCEPT ![t] = "none"]
  /\ IF waiters = <<>>
       THEN UNCHANGED <<waiters, woken>>
       ELSE /\ waiters' = Tail(waiters)
            /\ woken' = IF Head(waiters) \in waker
                          THEN woken \cup {Head(waiters)} ELSE woken
  /\ UNCHANGED <<queued, waker, panicked, usurped>>

Next == \E t \in Tasks : Lock(t) \/ Repoll(t) \/ DropFuture(t) \/ DropGuard(t)

Spec == Init /\ [][Next]_vars

(* The executor polls a woken task, and a holder releases its guard. *)
Fairness ==
  \A t \in Tasks : WF_vars(t \in woken /\ Repoll(t)) /\ WF_vars(DropGuard(t))

FairSpec == Spec /\ Fairness

-------------------------------------------------------------------------------
TypeOK ==
  /\ locked \in BOOLEAN /\ panicked \in BOOLEAN /\ usurped \in BOOLEAN
  /\ waiters \in Seq(Tasks) /\ Len(waiters) <= N
  /\ phase \in [Tasks -> {"none", "future", "guard"}]
  /\ queued \subseteq Tasks /\ waker \subseteq Tasks /\ woken \subseteq Tasks

(* The flag and the guards agree: at most one guard, and locked exactly    *)
(* while it exists, through cancelled futures and repeated polls.          *)
MutualExclusion ==
  /\ \A t, u \in Tasks : phase[t] = "guard" /\ phase[u] = "guard" => t = u
  /\ locked <=> \E t \in Tasks : phase[t] = "guard"

(* Each pointer in the waiter list points into a MutexLockFuture that is   *)
(* still alive, knows it is queued and holds Some(waker), and no future is *)
(* there twice: MutexGuard::drop dereferences the head.                    *)
WaitersAlive ==
  /\ \A i \in 1 .. Len(waiters) :
       phase[waiters[i]] = "future" /\ waiters[i] \in queued \cap waker
  /\ \A i, j \in 1 .. Len(waiters) : waiters[i] = waiters[j] => i = j

(* With room for every task but the holder, lock() never panics: no future *)
(* is queued twice and none stays queued after it completes or is dropped. *)
NeverFull == Cardinality(Tasks) <= N + 1 => ~panicked

(* The queue is FIFO: a waiter leaves it from the front, or because its    *)
(* own future acquired the lock or was dropped.                            *)
FifoWaiters ==
  [][\A i \in 1 .. Len(waiters) :
       (i > 1 /\ phase'[waiters[i]] = "future")
         => \E j \in 1 .. Len(waiters') : j <= i /\ waiters'[j] = waiters[i]]_vars

(* "wakes the next waiter on drop": a pending future is in the waiter list *)
(* or its task has been woken, so that the next release or poll serves it. *)
NoStrandedWaiter ==
  \A t \in Tasks : phase[t] = "future" => t \in woken \/ \E i \in 1 .. Len(waiters) : waiters[i] = t

(* A waiter is only ever stranded by a wasted wake: as long as no lock()   *)
(* overtakes a woken waiter and no woken waiter is dropped, nobody is.     *)
StrandedOnlyWhenUsurped == ~usurped => NoStrandedWaiter

(* Unless a wake was wasted, every pending lock().await completes or is    *)
(* cancelled.                                                              *)
LockGranted == \A t \in Tasks : phase[t] = "future" ~> phase[t] # "future" \/ usurped
===============================================================================
