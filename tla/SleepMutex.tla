----------------------------- MODULE SleepMutex -----------------------------
(***************************************************************************)
(* BlockingMutex of sync/mutex/sleep_mutex.rs: a mutex whose waiters sleep *)
(* in a FIFO queue and are woken to retry, with the bounded reservation    *)
(* (handoff) of the fair variant.                                          *)
(*                                                                         *)
(* One step is one critical section of the inner spin lock, or the call    *)
(* of block_current_kernel_continuation or wakeup_task_front made without  *)
(* it.  Those two are taken from the scheduler as the token pending_wakeup *)
(* and the sleep it cancels; module Sched has their details.  The callers  *)
(* are tasks: the idle context, which spins instead of queueing, is left   *)
(* out.  A holder's kernel_critical_depth is 1 from its acquisition to the *)
(* end of its unlock, so pc stands for it.                                 *)
(***************************************************************************)
EXTENDS Naturals, Sequences, FiniteSets

CONSTANTS
  Tasks,
  NoTask,
  Fair,        \* new_fair() or new()
  Interval,    \* FAIR_HANDOFF_INTERVAL
  Stray        \* wakeups from outside the mutex happen (signals, the reaper
               \* that wakes every task of a parent, expired timers)

ASSUME SleepMutexAssumption ==
  /\ NoTask \notin Tasks
  /\ IsFiniteSet(Tasks)
  /\ Fair \in BOOLEAN /\ Stray \in BOOLEAN
  /\ Interval \in Nat \ {0}

VARIABLES
  locked,      \* inner.locked
  handoff,     \* inner.handoff
  aged,        \* FAIR_HANDOFF_TIMEOUT_NS has passed since the reservation
  bypass,      \* inner.fair_bypass_releases
  waitQueue,   \* inner.wait_queue
  pc,          \* where each task is
  next,        \* the waiter an unlocking task is about to wake
  pending,     \* TCB pending_wakeup
  wasted       \* history: the wakeup of the last unlock went to a task that
               \* was not waiting for this mutex

inner == <<locked, handoff, aged, bypass, waitQueue>>
vars  == <<inner, pc, next, pending, wasted>>

\* "out" and "zombie" are outside the mutex; a "zombie" still has its TCB, a
\* "gone" one does not (the queue holds weak references).
Pcs == {"out", "lock", "block", "asleep", "held", "wake", "woken",
        "relock", "zombie", "gone"}

TypeOK ==
  /\ locked \in BOOLEAN
  /\ handoff \in Tasks \cup {NoTask}
  /\ aged \in BOOLEAN
  /\ bypass \in Nat
  /\ waitQueue \in Seq(Tasks)
  /\ pc \in [Tasks -> Pcs]
  /\ next \in [Tasks -> Tasks \cup {NoTask}]
  /\ pending \in [Tasks -> BOOLEAN]
  /\ wasted \in BOOLEAN

Init ==
  /\ locked = FALSE
  /\ handoff = NoTask
  /\ aged = FALSE
  /\ bypass = 0
  /\ waitQueue = <<>>
  /\ pc = [t \in Tasks |-> "out"]
  /\ next = [t \in Tasks |-> NoTask]
  /\ pending = [t \in Tasks |-> FALSE]
  /\ wasted = FALSE

Goto(t, l) == pc' = [pc EXCEPT ![t] = l]

Queued(t) == \E i \in 1..Len(waitQueue) : waitQueue[i] = t

-----------------------------------------------------------------------------
(* lock and try_lock *)

\* handoff_allows_acquire: a fair mutex reserved for a live task admits that
\* task, or anyone once the reservation is too old.
HandoffAllows(waiting) ==
  \/ ~Fair
  \/ handoff \in {NoTask, waiting} \cup {t \in Tasks : pc[t] = "gone"}
  \/ aged

CanAcquire(waiting) == ~locked /\ HandoffAllows(waiting)

\* The lock is taken; an admitted acquisition clears the reservation.
Take(t) ==
  /\ locked' = TRUE
  /\ handoff' = NoTask
  /\ aged' = FALSE
  /\ wasted' = FALSE
  /\ Goto(t, "held")

CallLock(t) ==
  /\ pc[t] = "out"
  /\ Goto(t, "lock")
  /\ UNCHANGED <<inner, next, pending, wasted>>

LockAcquire(t) ==
  /\ pc[t] = "lock"
  /\ CanAcquire(t)
  /\ Take(t)
  /\ UNCHANGED <<bypass, waitQueue, next, pending>>

\* Bug: a waiter that is still queued queues again.
QueueWithWaiterTwice(t) == Append(waitQueue, t)

\* Bug: the holder of the reservation is queued in the caller's place.
QueueWithHandoff(t) == Append(waitQueue, handoff)

QueueWith(t) == IF Queued(t) THEN waitQueue ELSE Append(waitQueue, t)

\* The caller queues itself once, and blocks after the spin lock is released.
LockQueue(t) ==
  /\ pc[t] = "lock"
  /\ ~CanAcquire(t)
  /\ waitQueue' = QueueWith(t)
  /\ Goto(t, "block")
  /\ UNCHANGED <<locked, handoff, aged, bypass, next, pending, wasted>>

\* try_lock passes no waiting task: a reservation refuses even its target.
TryLock(t) ==
  /\ pc[t] = "out"
  /\ CanAcquire(NoTask)
  /\ Take(t)
  /\ UNCHANGED <<bypass, waitQueue, next, pending>>

-----------------------------------------------------------------------------
(* Dropping the guard *)

\* The queue positions of tasks that still exist; the others are passed over.
LivePositions == {i \in 1..Len(waitQueue) : pc[waitQueue[i]] # "gone"}

\* No waiter is left: the reservation and the count are reset and the unlock
\* is over.
PopNobody(t) ==
  /\ LivePositions = {}
  /\ waitQueue' = <<>>
  /\ handoff' = NoTask
  /\ aged' = FALSE
  /\ bypass' = 0
  /\ next' = [next EXCEPT ![t] = NoTask]
  /\ Goto(t, "out")
  /\ UNCHANGED wasted

\* The first live waiter is popped; every Interval-th release of a fair mutex
\* that finds one reserves the lock for it.
PopFirst(t) ==
  \E k \in LivePositions :
    LET n == waitQueue[k]
        reserve == Fair /\ bypass + 1 >= Interval
    IN /\ \A i \in LivePositions : k <= i
       /\ waitQueue' = SubSeq(waitQueue, k + 1, Len(waitQueue))
       /\ handoff' = IF reserve THEN n ELSE NoTask
       /\ aged' = FALSE
       /\ bypass' = IF ~Fair THEN bypass ELSE IF reserve THEN 0 ELSE bypass + 1
       /\ next' = [next EXCEPT ![t] = n]
       /\ Goto(t, "wake")
       /\ wasted' = (pc[n] \in {"out", "held", "wake", "woken", "relock"})

PopWaiter(t) == PopNobody(t) \/ PopFirst(t)

Unlock(t) ==
  /\ pc[t] = "held"
  /\ locked' = FALSE
  /\ PopWaiter(t)
  /\ UNCHANGED pending

\* A task in one of these places runs inside the mutex and cannot be preempted.
Inside == {"block", "wake", "woken", "relock"}

\* wakeup_task_front for a task that has a CPU: it keeps the token for its
\* next block, and the call returns true.
WakeOnCpu(n) ==
  /\ pc[n] \notin {"asleep", "zombie", "gone"}
  /\ pending' = [pending EXCEPT ![n] = TRUE]

\* For a task that has none: a sleeper becomes runnable, a task that is in a
\* run queue or sleeps elsewhere gets no token.
WakeOffCpu(n) ==
  /\ pc[n] \notin Inside \cup {"zombie", "gone"}
  /\ pending' = pending

UnlockWakeOnCpu(t) ==
  /\ pc[t] = "wake"
  /\ WakeOnCpu(next[t])
  /\ Goto(t, "out")
  /\ next' = [next EXCEPT ![t] = NoTask]
  /\ UNCHANGED <<inner, wasted>>

UnlockWake(t) ==
  /\ pc[t] = "wake"
  /\ WakeOffCpu(next[t])
  /\ pc' = [u \in Tasks |-> IF u = t THEN "woken"
                            ELSE IF u = next[t] /\ pc[u] = "asleep" THEN "lock"
                            ELSE pc[u]]
  /\ UNCHANGED <<inner, next, wasted>>

\* wakeup_task_front then returns whether the task is queued or on a CPU: it
\* may already have run and gone to sleep again, or exited.
UnlockReturn(t) ==
  /\ pc[t] = "woken"
  /\ \/ Goto(t, "out") /\ next' = [next EXCEPT ![t] = NoTask]
     \/ /\ pc[next[t]] \in {"asleep", "out", "held", "zombie"}
        /\ Goto(t, "relock") /\ UNCHANGED next
  /\ UNCHANGED <<inner, pending, wasted>>

\* Bug: the unlock is over although the wakeup failed.
UnlockGivesUp(t) ==
  /\ pc[t] = "wake"
  /\ pc[next[t]] \in {"zombie", "gone"}
  /\ next' = [next EXCEPT ![t] = NoTask]
  /\ Goto(t, "out")
  /\ UNCHANGED <<inner, pending, wasted>>

\* wakeup_task_front refuses a zombie: the spin lock is taken again, ...
UnlockWakeFails(t) ==
  /\ pc[t] = "wake"
  /\ pc[next[t]] \in {"zombie", "gone"}
  /\ Goto(t, "relock")
  /\ UNCHANGED <<inner, next, pending, wasted>>

\* Bug: the retry releases the lock once more.
UnlockAgain(t) ==
  /\ pc[t] = "relock"
  /\ locked' = FALSE
  /\ PopWaiter(t)
  /\ UNCHANGED pending

\* ... a reservation for it is dropped, and the next waiter is tried.
UnlockRetry(t) ==
  /\ pc[t] = "relock"
  /\ PopWaiter(t)
  /\ UNCHANGED <<locked, pending>>

-----------------------------------------------------------------------------
(* block_current_kernel_continuation, and the rest of the kernel *)

BlockCancelled(t) ==
  /\ pc[t] = "block"
  /\ pending[t]
  /\ pending' = [pending EXCEPT ![t] = FALSE]
  /\ Goto(t, "lock")
  /\ UNCHANGED <<inner, next, wasted>>

\* Bug: the block does not look at the token.
BlockBlindly(t) ==
  /\ pc[t] = "block"
  /\ Goto(t, "asleep")
  /\ UNCHANGED <<inner, next, pending, wasted>>

Block(t) ==
  /\ pc[t] = "block"
  /\ ~pending[t]
  /\ Goto(t, "asleep")
  /\ UNCHANGED <<inner, next, pending, wasted>>

\* A wakeup that is not the mutex's.
StrayWakeup(t) ==
  /\ Stray
  /\ WakeOnCpu(t) \/ WakeOffCpu(t)
  /\ pc' = [pc EXCEPT ![t] = IF @ = "asleep" THEN "lock" ELSE @]
  /\ UNCHANGED <<inner, next, wasted>>

\* Outside the mutex a task yields or blocks on something else, which uses
\* the token up.
ForgetWakeup(t) ==
  /\ pc[t] \in {"out", "held"}
  /\ pending[t]
  /\ pending' = [pending EXCEPT ![t] = FALSE]
  /\ UNCHANGED <<inner, pc, next, wasted>>

\* The reservation outlives its timeout.
HandoffAges ==
  /\ handoff # NoTask
  /\ ~aged
  /\ aged' = TRUE
  /\ UNCHANGED <<locked, handoff, bypass, waitQueue, pc, next, pending, wasted>>

\* A task exits outside the mutex; some time later its TCB is freed.
Exit(t) ==
  /\ pc[t] = "out"
  /\ Goto(t, "zombie")
  /\ UNCHANGED <<inner, next, pending, wasted>>

Free(t) ==
  /\ pc[t] = "zombie"
  /\ \A u \in Tasks : next[u] # t
  /\ Goto(t, "gone")
  /\ UNCHANGED <<inner, next, pending, wasted>>

\* The steps of a call once begun: the task runs on.
Progress(t) ==
  \/ LockAcquire(t)
  \/ LockQueue(t)
  \/ Unlock(t)
  \/ UnlockWakeOnCpu(t)
  \/ UnlockWake(t)
  \/ UnlockReturn(t)
  \/ UnlockWakeFails(t)
  \/ UnlockRetry(t)
  \/ BlockCancelled(t)
  \/ Block(t)

Next ==
  \/ HandoffAges
  \/ \E t \in Tasks :
       \/ Progress(t)
       \/ CallLock(t)
       \/ TryLock(t)
       \/ StrayWakeup(t)
       \/ ForgetWakeup(t)
       \/ Exit(t)
       \/ Free(t)

Spec == Init /\ [][Next]_vars

\* A runnable task runs on (module Sched) and every critical section ends.
FairSpec == Spec /\ \A t \in Tasks : WF_vars(Progress(t))

-----------------------------------------------------------------------------
(* Properties *)

\* `locked' is set exactly while one task holds the guard, and no two tasks
\* ever hold it: neither barging, nor a reservation, nor its expiry, nor a
\* wakeup without a reason admits a second one (lock, try_lock, drop).
MutualExclusion ==
  /\ locked <=> \E t \in Tasks : pc[t] = "held"
  /\ \A t, u \in Tasks : pc[t] = "held" /\ pc[u] = "held" => t = u

\* A waiter that is about to sleep or sleeps can be found by the unlocking
\* task: it is in the queue exactly once, or has been popped by a task that
\* is about to wake it, or its wakeup is already there (lock against drop).
WaiterIsFindable ==
  /\ \A t \in Tasks :
       pc[t] \in {"block", "asleep"}
         => \/ Queued(t)
            \/ \E u \in Tasks : pc[u] = "wake" /\ next[u] = t
            \/ pc[t] = "block" /\ pending[t]
  /\ \A i, j \in 1..Len(waitQueue) : waitQueue[i] = waitQueue[j] => i = j

\* Somebody is on the way to the free lock, or about to wake somebody.
Contender ==
  \E t \in Tasks :
    \/ pc[t] \in {"lock", "wake", "relock"}
    \/ pc[t] = "block" /\ pending[t]

\* A free lock never has all its waiters asleep, unless the last unlock spent
\* its wakeup on a task that was not waiting (drop).
NoForgottenWaiter ==
  ~locked /\ ~wasted /\ (\E t \in Tasks : pc[t] = "asleep") => Contender

\* Every sleeping waiter is woken in the end, barging and reservations
\* notwithstanding, unless a wakeup was wasted.
SleeperIsWoken ==
  \A t \in Tasks : pc[t] = "asleep" ~> pc[t] # "asleep" \/ wasted

\* The documentation of BlockingMutex: when the lock is released, it becomes
\* available and one waiter is woken to retry acquisition.
ReleaseWakesWaiter ==
  ~locked /\ (\E t \in Tasks : pc[t] = "asleep") => Contender

=============================================================================
