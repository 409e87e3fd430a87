------------------------------ MODULE TimerDelay ------------------------------
(***************************************************************************)
(* Delays: TimerQueue<N> (modules/timer/src/lib.rs), the TimerDelay future *)
(* and handle_timer_isr (modules/futures/src/timer.rs) and set_deadline of *)
(* the CLINT timer (modules/platform/src/drivers/timer_clint.rs).          *)
(*                                                                         *)
(* The 64-bit compare register is two words of base W, written one at a    *)
(* time.  The queue is only touched in critical sections; programming the  *)
(* compare register after schedule() is not, so a more urgent task or the  *)
(* timer interrupt can come between.                                       *)
(***************************************************************************)
EXTENDS Integers, Sequences, FiniteSets, FiniteSetsExt

CONSTANTS
  Tasks,       \* tasks, each with at most one TimerDelay at a time
  TaskPrio,    \* their priorities, 0 the most urgent
  N,           \* capacity of the queue
  W,           \* one word of the compare register counts 0 .. W - 1
  Durations,   \* the durations passed to after(), in nanoseconds
  NANOS,       \* the nanoseconds of a second
  freq_hz,     \* the ticks of a second
  LastStart,   \* bound: after() is called up to this time
  MaxTime,     \* bound: the last tick of mtime
  Cancels,     \* the tasks that may drop a pending TimerDelay
  Spurious,    \* the tasks that may be polled without a wake
  PromptMtip   \* the interrupt is taken before anything else once it is due

MAX == W * W - 1        \* u64::MAX

ASSUME BoundsAssumption ==
  /\ N \in Nat \ {0} /\ W \in Nat \ {0, 1}
  /\ TaskPrio \in [Tasks -> Nat]
  /\ Durations \subseteq Nat /\ LastStart \in Nat
  /\ NANOS \in Nat \ {0} /\ freq_hz \in Nat
  /\ MaxTime \in Nat /\ MaxTime < MAX
  /\ PromptMtip \in BOOLEAN

VARIABLES
  now,         \* mtime
  cmpHi, cmpLo,\* mtimecmp
  entries,     \* the queue: deadline and the TimerDelay data points into
  alive,       \* the tasks with a TimerDelay
  deadline,    \* its deadline
  registered,  \* the TimerDelays with registered = true
  pc,          \* where the task is in TimerDelay::poll
  woken,       \* the tasks the executor will poll
  panicked,    \* "timer: TimerQueue full"
  due          \* history: when the duration is over, exactly, in 1 / NANOS ticks

delay == <<alive, deadline, registered, due>>
vars == <<now, cmpHi, cmpLo, entries, delay, pc, woken, panicked>>

mtimecmp == cmpHi * W + cmpLo
Mtip == now >= mtimecmp
Deadlines(q) == {q[i].deadline : i \in DOMAIN q}
SetDeadline(d) == cmpHi' = d \div W /\ cmpLo' = d % W

(* platform::start() has pushed the deadline out. *)
Init ==
  /\ now = 0 /\ cmpHi = MAX \div W /\ cmpLo = MAX % W
  /\ entries = <<>> /\ alive = {} /\ registered = {}
  /\ deadline = [f \in Tasks |-> 0] /\ due = [f \in Tasks |-> 0]
  /\ pc = [f \in Tasks |-> "idle"]
  /\ woken = {} /\ panicked = FALSE

-------------------------------------------------------------------------------
Polling == {f \in Tasks : pc[f] # "idle"}

(* f has the CPU: every other poll in progress is one it preempted. *)
Runs(f) ==
  /\ ~panicked /\ (PromptMtip => ~Mtip)
  /\ \A g \in Polling \ {f} : TaskPrio[f] < TaskPrio[g]

Goto(f, l) == pc' = [pc EXCEPT ![f] = l]

\* Mutant: whole seconds only.
TicksDivided(d) == (d \div NANOS) * freq_hz

(* The duration in ticks: rounded down, and cut to the width of u64. *)
Ticks(d) == ((d * freq_hz) \div NANOS) % (MAX + 1)

After(f, d) ==
  /\ Runs(f) /\ f \notin alive /\ now <= LastStart
  /\ alive' = alive \cup {f}
  /\ deadline' = [deadline EXCEPT ![f] = Min({now + Ticks(d), MAX})]
  /\ due' = [due EXCEPT ![f] = now * NANOS + d * freq_hz]
  /\ woken' = woken \cup {f}
  /\ UNCHANGED <<now, cmpHi, cmpLo, entries, registered, pc, panicked>>

(* Ready: registered is reset without a cancel, and the await drops the    *)
(* future, whose Drop then does nothing.                                   *)
PollReady(f) ==
  /\ now >= deadline[f]
  /\ registered' = registered \ {f}
  /\ alive' = alive \ {f}
  /\ UNCHANGED <<deadline, due, pc>>

PollPending(f) ==
  /\ now < deadline[f]
  /\ IF f \in registered THEN UNCHANGED pc ELSE Goto(f, "sched")
  /\ UNCHANGED delay

Poll(f) ==
  /\ Runs(f) /\ f \in alive /\ pc[f] = "idle"
  /\ f \in woken \cup Spurious
  /\ woken' = woken \ {f}
  /\ PollReady(f) \/ PollPending(f)
  /\ UNCHANGED <<now, cmpHi, cmpLo, entries, panicked>>

\* Mutant: is_earliest compares with the previous minimum the wrong way round.
IsLatest(d) == entries # <<>> /\ d > Min(Deadlines(entries))

(* prev_min.map_or(true, |p| new_min < p) *)
IsEarliest(d) == entries = <<>> \/ d < Min(Deadlines(entries))

(* TimerQueue::schedule: one critical section, panics when full. *)
Schedule(f) ==
  /\ Runs(f) /\ pc[f] = "sched"
  /\ IF Len(entries) < N
       THEN /\ entries' = Append(entries, [deadline |-> deadline[f], data |-> f])
            /\ Goto(f, IF IsEarliest(deadline[f]) THEN "hi" ELSE "reg")
            /\ UNCHANGED panicked
       ELSE panicked' = TRUE /\ UNCHANGED <<entries, pc>>
  /\ UNCHANGED <<now, cmpHi, cmpLo, delay, woken>>

(* set_deadline: the high word, then the low word. *)
SetHi(f) ==
  /\ Runs(f) /\ pc[f] = "hi"
  /\ cmpHi' = deadline[f] \div W
  /\ Goto(f, "lo")
  /\ UNCHANGED <<now, cmpLo, entries, delay, woken, panicked>>

SetLo(f) ==
  /\ Runs(f) /\ pc[f] = "lo"
  /\ cmpLo' = deadline[f] % W
  /\ Goto(f, "reg")
  /\ UNCHANGED <<now, cmpHi, entries, delay, woken, panicked>>

Register(f) ==
  /\ Runs(f) /\ pc[f] = "reg"
  /\ registered' = registered \cup {f}
  /\ Goto(f, "idle")
  /\ UNCHANGED <<now, cmpHi, cmpLo, entries, alive, deadline, due, woken, panicked>>

-------------------------------------------------------------------------------
SwapRemove(q, i) == SubSeq([q EXCEPT ![i] = q[Len(q)]], 1, Len(q) - 1)

\* Mutant: no entry is removed.
CancelNothing(q, f) == q

\* Mutant: the first entry is removed, whatever its data pointer.
CancelFirst(q, f) == IF q = <<>> THEN q ELSE SwapRemove(q, 1)

(* TimerQueue::cancel: the first entry with that data pointer. *)
Cancel(q, f) ==
  LET hits == {i \in DOMAIN q : q[i].data = f}
  IN  IF hits = {} THEN q ELSE SwapRemove(q, Min(hits))

(* Drop of a TimerDelay that has not completed. *)
DropDelay(f) ==
  /\ Runs(f) /\ f \in alive \cap Cancels /\ pc[f] = "idle"
  /\ entries' = IF f \in registered THEN Cancel(entries, f) ELSE entries
  /\ registered' = registered \ {f} /\ alive' = alive \ {f}
  /\ woken' = woken \ {f}
  /\ UNCHANGED <<now, cmpHi, cmpLo, deadline, due, pc, panicked>>

\* Mutant: the index advances past the entry that was swapped in.
ExpireStepSkips(s, t) ==
  IF s.q[s.i].deadline <= t
    THEN [q |-> SwapRemove(s.q, s.i), i |-> s.i + 1, fired |-> s.fired \cup {s.q[s.i].data}]
    ELSE [s EXCEPT !.i = @ + 1]

(* One round of the loop of dequeue_expired at time t. *)
ExpireStep(s, t) ==
  IF s.q[s.i].deadline <= t
    THEN [q |-> SwapRemove(s.q, s.i), i |-> s.i, fired |-> s.fired \cup {s.q[s.i].data}]
    ELSE [s EXCEPT !.i = @ + 1]

(* TimerQueue::dequeue_expired: what is left of the queue and the data     *)
(* whose callbacks were called.  Each round moves i or shortens the queue. *)
DequeueExpired(q, t) ==
  LET round[k \in 0 .. Len(q)] ==
        IF k = 0 THEN [q |-> q, i |-> 1, fired |-> {}]
        ELSE LET s == round[k - 1]
             IN  IF s.i <= Len(s.q) THEN ExpireStep(s, t) ELSE s
  IN  round[Len(q)]

\* Mutant: the compare register is not armed again for the rest of the queue.
TimerIsrNoRearm ==
  /\ ~panicked /\ Mtip
  /\ LET r == DequeueExpired(entries, now) IN
       /\ entries' = r.q
       /\ woken' = woken \cup (r.fired \cap alive)
       /\ SetDeadline(MAX)
  /\ UNCHANGED <<now, delay, pc, panicked>>

(* handle_timer_isr, with interrupts off throughout. *)
TimerIsr ==
  /\ ~panicked /\ Mtip
  /\ LET r == DequeueExpired(entries, now) IN
       /\ entries' = r.q
       /\ woken' = woken \cup (r.fired \cap alive)
       /\ SetDeadline(IF r.q = <<>> THEN MAX ELSE Min(Deadlines(r.q)))
  /\ UNCHANGED <<now, delay, pc, panicked>>

Tick ==
  /\ now < MaxTime /\ now' = now + 1
  /\ UNCHANGED <<cmpHi, cmpLo, entries, delay, pc, woken, panicked>>

Step(f) == Schedule(f) \/ SetHi(f) \/ SetLo(f) \/ Register(f)

Next ==
  \/ Tick \/ TimerIsr
  \/ \E f \in Tasks : (\E d \in Durations : After(f, d)) \/ Poll(f) \/ Step(f) \/ DropDelay(f)

Spec == Init /\ [][Next]_vars

(* Time passes, a due timer interrupt is taken, and the executor polls     *)
(* woken tasks and finishes a poll it began.                               *)
Fairness ==
  /\ WF_vars(Tick) /\ WF_vars(TimerIsr)
  /\ \A f \in Tasks : WF_vars(Step(f)) /\ WF_vars(f \in woken /\ Poll(f))

FairSpec == Spec /\ Fairness

-------------------------------------------------------------------------------
TypeOK ==
  /\ now \in 0 .. MaxTime /\ cmpHi \in 0 .. W - 1 /\ cmpLo \in 0 .. W - 1
  /\ entries \in Seq([deadline : 0 .. MAX, data : Tasks]) /\ Len(entries) <= N
  /\ alive \subseteq Tasks /\ registered \subseteq alive /\ woken \subseteq alive
  /\ deadline \in [Tasks -> 0 .. MAX] /\ due \in [Tasks -> Nat]
  /\ pc \in [Tasks -> {"idle", "sched", "hi", "lo", "reg"}]
  /\ panicked \in BOOLEAN

(* A queue entry points into a TimerDelay that is still alive, with its    *)
(* deadline, and no TimerDelay has two entries: the interrupt handler      *)
(* dereferences data.                                                      *)
EntriesAlive ==
  /\ \A i \in DOMAIN entries :
       entries[i].data \in alive /\ entries[i].deadline = deadline[entries[i].data]
  /\ \A i, j \in DOMAIN entries : entries[i].data = entries[j].data => i = j

(* Unless a task is about to program it, the compare register is not later *)
(* than the earliest queued deadline, so no delay is overslept.            *)
CompareCovers ==
  (entries # <<>> /\ \A f \in Tasks : pc[f] \notin {"hi", "lo"})
    => mtimecmp <= Min(Deadlines(entries))

(* A pending delay whose poll has returned is in the queue or its task is  *)
(* woken.                                                                  *)
DelayWatched ==
  \A f \in alive : pc[f] = "idle" /\ f \notin woken =>
    \E i \in DOMAIN entries : entries[i].data = f

(* The loop with swap_remove calls exactly the callbacks that are due: the *)
(* handler leaves no due entry behind and removes no other.                *)
IsrFiresExactlyDue ==
  [][TimerIsr =>
       {entries'[i] : i \in DOMAIN entries'}
         = {e \in {entries[i] : i \in DOMAIN entries} : e.deadline > now}]_vars

(* A delay that is Ready is less than a tick short of its duration: what   *)
(* after() rounds off is all that is ever missing, through the queue, the  *)
(* interrupt and polls out of turn.                                        *)
NeverEarly ==
  [][\A f \in Tasks : Poll(f) /\ f \notin alive' => (now + 1) * NANOS > due[f]]_vars

(* Writing the high word before the low one never makes the interrupt      *)
(* pending ahead of the deadline being written.                            *)
NoEarlyTrigger ==
  [][\A f \in Tasks : SetHi(f) /\ ~Mtip /\ now < deadline[f] => ~Mtip']_vars

(* Every delay elapses, unless a task calls after() with a full queue.     *)
DelayElapses == \A f \in Tasks : f \in alive ~> f \notin alive \/ panicked
===============================================================================
