-------------------------- MODULE SleepMutexProofs --------------------------
(* Theorems about SleepMutex for any tasks, fair or not, any interval. *)
EXTENDS SleepMutex, TLAPS

-----------------------------------------------------------------------------
(* Type correctness *)

\* The queue without its first k entries is a queue of tasks.
LEMMA DropType ==
  ASSUME NEW S, NEW q \in Seq(S), NEW k \in 1..Len(q)
  PROVE  /\ SubSeq(q, k + 1, Len(q)) \in Seq(S)
         /\ Len(SubSeq(q, k + 1, Len(q))) = Len(q) - k
         /\ \A i \in 1..(Len(q) - k) : SubSeq(q, k + 1, Len(q))[i] = q[i + k]
OBVIOUS

\* The empty queue is a queue of tasks.
LEMMA EmptyType == ASSUME NEW S PROVE <<>> \in Seq(S)
OBVIOUS

\* Popping a waiter keeps the types of what it writes.
LEMMA PopType ==
  ASSUME TypeOK, NEW t \in Tasks, PopWaiter(t)
  PROVE  /\ handoff' \in Tasks \cup {NoTask} /\ aged' \in BOOLEAN /\ bypass' \in Nat
         /\ waitQueue' \in Seq(Tasks) /\ pc' \in [Tasks -> Pcs]
         /\ next' \in [Tasks -> Tasks \cup {NoTask}] /\ wasted' \in BOOLEAN
<1>1. CASE PopNobody(t)
  BY <1>1, EmptyType DEF PopNobody, Goto, TypeOK, Pcs
<1>2. CASE PopFirst(t)
  <2>1. PICK k \in LivePositions :
          LET n == waitQueue[k]
              reserve == Fair /\ bypass + 1 >= Interval
          IN /\ waitQueue' = SubSeq(waitQueue, k + 1, Len(waitQueue))
             /\ handoff' = IF reserve THEN n ELSE NoTask
             /\ aged' = FALSE
             /\ bypass' = IF ~Fair THEN bypass ELSE IF reserve THEN 0 ELSE bypass + 1
             /\ next' = [next EXCEPT ![t] = n]
             /\ Goto(t, "wake")
             /\ wasted' = (pc[n] \in {"out", "held", "wake", "woken", "relock"})
    BY <1>2 DEF PopFirst
  <2>2. k \in 1..Len(waitQueue) /\ waitQueue[k] \in Tasks
    BY DEF LivePositions, TypeOK
  <2>3. waitQueue' \in Seq(Tasks)
    BY <2>1, <2>2, DropType DEF TypeOK
  <2>4. handoff' \in Tasks \cup {NoTask} /\ bypass' \in Nat
    BY <2>1, <2>2 DEF TypeOK
  <2>5. pc' \in [Tasks -> Pcs]
    BY <2>1 DEF Goto, TypeOK, Pcs
  <2>6. next' \in [Tasks -> Tasks \cup {NoTask}]
    BY <2>1, <2>2 DEF TypeOK
  <2>7. wasted' \in BOOLEAN
    BY <2>1
  <2> QED BY <2>1, <2>3, <2>4, <2>5, <2>6, <2>7
<1> QED BY <1>1, <1>2 DEF PopWaiter

\* Every step keeps the types.
LEMMA TypeStep == ASSUME TypeOK, [Next]_vars PROVE TypeOK'
<1> USE SleepMutexAssumption DEF inner, Goto, Pcs
<1>1. CASE HandoffAges
  BY <1>1 DEF HandoffAges, TypeOK
<1>2. ASSUME NEW t \in Tasks, CallLock(t) PROVE TypeOK'
  BY <1>2 DEF CallLock, TypeOK
<1>3. ASSUME NEW t \in Tasks, LockAcquire(t) PROVE TypeOK'
  BY <1>3 DEF LockAcquire, Take, TypeOK
<1>4. ASSUME NEW t \in Tasks, LockQueue(t) PROVE TypeOK'
  <2>1. waitQueue' \in Seq(Tasks)
    BY <1>4 DEF LockQueue, QueueWith, TypeOK
  <2> QED BY <1>4, <2>1 DEF LockQueue, TypeOK
<1>5. ASSUME NEW t \in Tasks, TryLock(t) PROVE TypeOK'
  BY <1>5 DEF TryLock, Take, TypeOK
<1>6. ASSUME NEW t \in Tasks, Unlock(t) PROVE TypeOK'
  BY <1>6, PopType DEF Unlock, TypeOK
<1>7. ASSUME NEW t \in Tasks, UnlockWake(t) PROVE TypeOK'
  <2>1. pending' \in [Tasks -> BOOLEAN]
    BY <1>7 DEF UnlockWake, WakeOffCpu, Inside, TypeOK
  <2> QED BY <1>7, <2>1 DEF UnlockWake, TypeOK
<1>8. ASSUME NEW t \in Tasks, UnlockWakeOnCpu(t) PROVE TypeOK'
  BY <1>8 DEF UnlockWakeOnCpu, WakeOnCpu, TypeOK
<1>9. ASSUME NEW t \in Tasks, UnlockReturn(t) PROVE TypeOK'
  BY <1>9 DEF UnlockReturn, TypeOK
<1>10. ASSUME NEW t \in Tasks, UnlockWakeFails(t) PROVE TypeOK'
  BY <1>10 DEF UnlockWakeFails, TypeOK
<1>11. ASSUME NEW t \in Tasks, UnlockRetry(t) PROVE TypeOK'
  BY <1>11, PopType DEF UnlockRetry, TypeOK
<1>12. ASSUME NEW t \in Tasks, BlockCancelled(t) PROVE TypeOK'
  BY <1>12 DEF BlockCancelled, TypeOK
<1>13. ASSUME NEW t \in Tasks, Block(t) PROVE TypeOK'
  BY <1>13 DEF Block, TypeOK
<1>14. ASSUME NEW t \in Tasks, StrayWakeup(t) PROVE TypeOK'
  BY <1>14 DEF StrayWakeup, WakeOnCpu, WakeOffCpu, Inside, TypeOK
<1>15. ASSUME NEW t \in Tasks, ForgetWakeup(t) PROVE TypeOK'
  BY <1>15 DEF ForgetWakeup, TypeOK
<1>16. ASSUME NEW t \in Tasks, Exit(t) PROVE TypeOK'
  BY <1>16 DEF Exit, TypeOK
<1>17. ASSUME NEW t \in Tasks, Free(t) PROVE TypeOK'
  BY <1>17 DEF Free, TypeOK
<1>18. CASE UNCHANGED vars
  BY <1>18 DEF vars, TypeOK
<1> QED BY <1>1, <1>2, <1>3, <1>4, <1>5, <1>6, <1>7, <1>8, <1>9, <1>10, <1>11,
           <1>12, <1>13, <1>14, <1>15, <1>16, <1>17, <1>18 DEF Next, Progress

\* Every variable keeps its type in every behaviour.
THEOREM TypeCorrect == Spec => []TypeOK
<1>1. Init => TypeOK
  <2> SUFFICES ASSUME Init PROVE TypeOK
    OBVIOUS
  <2>1. waitQueue \in Seq(Tasks)
    BY EmptyType DEF Init
  <2>2. /\ locked \in BOOLEAN /\ aged \in BOOLEAN /\ bypass \in Nat /\ wasted \in BOOLEAN
        /\ handoff \in Tasks \cup {NoTask}
    BY DEF Init
  <2>3. pc \in [Tasks -> Pcs]
    BY DEF Init, Pcs
  <2>4. next \in [Tasks -> Tasks \cup {NoTask}] /\ pending \in [Tasks -> BOOLEAN]
    BY DEF Init
  <2> QED BY <2>1, <2>2, <2>3, <2>4 DEF TypeOK
<1> QED BY <1>1, TypeStep, PTL DEF Spec

-----------------------------------------------------------------------------
(* Mutual exclusion *)

\* An unlocking task that pops a waiter, or nobody, is not in the section.
LEMMA PopLeaves ==
  ASSUME TypeOK, NEW t \in Tasks, PopWaiter(t)
  PROVE  /\ pc'[t] \in {"out", "wake"}
         /\ \A u \in Tasks \ {t} : pc'[u] = pc[u]
BY DEF PopWaiter, PopNobody, PopFirst, Goto, TypeOK

\* Every step keeps the lock bit and the holder together.
LEMMA MutexStep == ASSUME TypeOK, MutualExclusion, [Next]_vars PROVE MutualExclusion'
<1> USE DEF inner, Goto, MutualExclusion
<1>1. CASE HandoffAges
  BY <1>1 DEF HandoffAges
<1>2. ASSUME NEW t \in Tasks, CallLock(t) PROVE MutualExclusion'
  BY <1>2 DEF CallLock, TypeOK
<1>3. ASSUME NEW t \in Tasks, LockAcquire(t) PROVE MutualExclusion'
  BY <1>3 DEF LockAcquire, Take, CanAcquire, TypeOK
<1>4. ASSUME NEW t \in Tasks, LockQueue(t) PROVE MutualExclusion'
  BY <1>4 DEF LockQueue, TypeOK
<1>5. ASSUME NEW t \in Tasks, TryLock(t) PROVE MutualExclusion'
  BY <1>5 DEF TryLock, Take, CanAcquire, TypeOK
<1>6. ASSUME NEW t \in Tasks, Unlock(t) PROVE MutualExclusion'
  BY <1>6, PopLeaves DEF Unlock
<1>7. ASSUME NEW t \in Tasks, UnlockWake(t) PROVE MutualExclusion'
  BY <1>7 DEF UnlockWake, TypeOK
<1>8. ASSUME NEW t \in Tasks, UnlockWakeOnCpu(t) PROVE MutualExclusion'
  BY <1>8 DEF UnlockWakeOnCpu, TypeOK
<1>9. ASSUME NEW t \in Tasks, UnlockReturn(t) PROVE MutualExclusion'
  BY <1>9 DEF UnlockReturn, TypeOK
<1>10. ASSUME NEW t \in Tasks, UnlockWakeFails(t) PROVE MutualExclusion'
  BY <1>10 DEF UnlockWakeFails, TypeOK
<1>11. ASSUME NEW t \in Tasks, UnlockRetry(t) PROVE MutualExclusion'
  BY <1>11, PopLeaves DEF UnlockRetry
<1>12. ASSUME NEW t \in Tasks, BlockCancelled(t) PROVE MutualExclusion'
  BY <1>12 DEF BlockCancelled, TypeOK
<1>13. ASSUME NEW t \in Tasks, Block(t) PROVE MutualExclusion'
  BY <1>13 DEF Block, TypeOK
<1>14. ASSUME NEW t \in Tasks, StrayWakeup(t) PROVE MutualExclusion'
  BY <1>14 DEF StrayWakeup, TypeOK
<1>15. ASSUME NEW t \in Tasks, ForgetWakeup(t) PROVE MutualExclusion'
  BY <1>15 DEF ForgetWakeup
<1>16. ASSUME NEW t \in Tasks, Exit(t) PROVE MutualExclusion'
  BY <1>16 DEF Exit, TypeOK
<1>17. ASSUME NEW t \in Tasks, Free(t) PROVE MutualExclusion'
  BY <1>17 DEF Free, TypeOK
<1>18. CASE UNCHANGED vars
  BY <1>18 DEF vars
<1> QED BY <1>1, <1>2, <1>3, <1>4, <1>5, <1>6, <1>7, <1>8, <1>9, <1>10, <1>11,
           <1>12, <1>13, <1>14, <1>15, <1>16, <1>17, <1>18 DEF Next, Progress

\* At most one task holds the guard, and `locked' says whether one does.
THEOREM MutexCorrect == Spec => []MutualExclusion
<1>1. Init => MutualExclusion
  BY DEF Init, MutualExclusion
<1> QED BY <1>1, MutexStep, TypeCorrect, PTL DEF Spec

-----------------------------------------------------------------------------
(* Waiters *)

\* A task in the queue once, or on its way to be woken (WaiterIsFindable).
Findable(t) ==
  \/ Queued(t)
  \/ \E u \in Tasks : pc[u] = "wake" /\ next[u] = t
  \/ pc[t] = "block" /\ pending[t]

\* The two parts of WaiterIsFindable.
WaitersFound == \A t \in Tasks : pc[t] \in {"block", "asleep"} => Findable(t)
QueueOnce == \A i, j \in 1..Len(waitQueue) : waitQueue[i] = waitQueue[j] => i = j

\* Popping a waiter leaves the others in the queue, once each, and hands the
\* popped one to the unlocking task.
LEMMA PopFinds ==
  ASSUME TypeOK, WaitersFound, QueueOnce, NEW t \in Tasks, PopWaiter(t),
         pc[t] \in {"held", "relock"}, pending' = pending
  PROVE  WaitersFound' /\ QueueOnce'
<1>1. CASE PopNobody(t)
  <2>1. QueueOnce'
    BY <1>1 DEF PopNobody, QueueOnce
  <2>2. ASSUME NEW u \in Tasks, pc'[u] \in {"block", "asleep"} PROVE Findable(u)'
    <3>1. u # t /\ pc[u] = pc'[u]
      BY <1>1, <2>2 DEF PopNobody, Goto, TypeOK
    <3>2. ~Queued(u)
      BY <1>1, <2>2, <3>1 DEF PopNobody, Queued, LivePositions
    <3>3. CASE \E v \in Tasks : pc[v] = "wake" /\ next[v] = u
      BY <1>1, <3>3 DEF PopNobody, Goto, TypeOK, Findable
    <3>4. CASE pc[u] = "block" /\ pending[u]
      BY <3>1, <3>4 DEF Findable
    <3> QED BY <2>2, <3>1, <3>2, <3>3, <3>4 DEF WaitersFound, Findable
  <2> QED BY <2>1, <2>2 DEF WaitersFound
<1>2. CASE PopFirst(t)
  <2>1. PICK k \in LivePositions :
          /\ \A i \in LivePositions : k <= i
          /\ waitQueue' = SubSeq(waitQueue, k + 1, Len(waitQueue))
          /\ next' = [next EXCEPT ![t] = waitQueue[k]]
          /\ pc' = [pc EXCEPT ![t] = "wake"]
    BY <1>2 DEF PopFirst, Goto
  <2>2. k \in 1..Len(waitQueue)
    BY DEF LivePositions
  <2>3. /\ Len(waitQueue') = Len(waitQueue) - k
        /\ \A i \in 1..(Len(waitQueue) - k) : waitQueue'[i] = waitQueue[i + k]
    BY <2>1, <2>2, DropType DEF TypeOK
  <2>4. QueueOnce'
    BY <2>2, <2>3 DEF QueueOnce, TypeOK
  <2>5. ASSUME NEW u \in Tasks, pc'[u] \in {"block", "asleep"} PROVE Findable(u)'
    <3>1. u # t /\ pc[u] = pc'[u]
      BY <2>1, <2>5 DEF TypeOK
    <3>2. CASE Queued(u)
      <4>1. PICK i \in 1..Len(waitQueue) : waitQueue[i] = u
        BY <3>2 DEF Queued
      <4>2. i \in LivePositions
        BY <4>1, <3>1, <2>5 DEF LivePositions
      <4>3. CASE i = k
        BY <4>1, <4>3, <2>1 DEF Findable, TypeOK
      <4>4. CASE i # k
        <5>1. i - k \in 1..(Len(waitQueue) - k) /\ (i - k) + k = i
          BY <4>2, <4>4, <2>1, <2>2 DEF TypeOK, LivePositions
        <5>2. waitQueue'[i - k] = u
          BY <5>1, <4>1, <2>3
        <5> QED BY <5>1, <5>2, <2>3 DEF Findable, Queued
      <4> QED BY <4>3, <4>4
    <3>3. CASE \E v \in Tasks : pc[v] = "wake" /\ next[v] = u
      BY <3>3, <2>1 DEF Findable, TypeOK
    <3>4. CASE pc[u] = "block" /\ pending[u]
      BY <3>1, <3>4 DEF Findable
    <3> QED BY <2>5, <3>1, <3>2, <3>3, <3>4 DEF WaitersFound, Findable
  <2> QED BY <2>4, <2>5 DEF WaitersFound
<1> QED BY <1>1, <1>2 DEF PopWaiter

\* Every step keeps the waiters findable.
LEMMA FindStep ==
  ASSUME TypeOK, WaitersFound, QueueOnce, [Next]_vars PROVE WaitersFound' /\ QueueOnce'
<1> USE DEF inner, Goto, WaitersFound, QueueOnce, Findable, Queued
<1>1. CASE HandoffAges
  BY <1>1 DEF HandoffAges
<1>2. ASSUME NEW t \in Tasks, CallLock(t) PROVE WaitersFound' /\ QueueOnce'
  BY <1>2 DEF CallLock, TypeOK
<1>3. ASSUME NEW t \in Tasks, LockAcquire(t) PROVE WaitersFound' /\ QueueOnce'
  BY <1>3 DEF LockAcquire, Take, TypeOK
<1>4. ASSUME NEW t \in Tasks, LockQueue(t) PROVE WaitersFound' /\ QueueOnce'
  <2>1. CASE Queued(t)
    BY <1>4, <2>1 DEF LockQueue, QueueWith, TypeOK
  <2>2. CASE ~Queued(t)
    <3>1. /\ Len(waitQueue') = Len(waitQueue) + 1
          /\ waitQueue'[Len(waitQueue) + 1] = t
          /\ \A i \in 1..Len(waitQueue) : waitQueue'[i] = waitQueue[i]
      BY <1>4, <2>2 DEF LockQueue, QueueWith, TypeOK
    <3>2. Len(waitQueue) \in Nat
      BY DEF TypeOK
    <3>3. QueueOnce'
      BY <2>2, <3>1, <3>2
    <3>4. ASSUME NEW u \in Tasks, pc'[u] \in {"block", "asleep"} PROVE Findable(u)'
      <4>1. CASE u = t
        BY <3>1, <3>2, <4>1
      <4>2. CASE u # t
        BY <1>4, <3>1, <3>2, <3>4, <4>2 DEF LockQueue, TypeOK
      <4> QED BY <4>1, <4>2
    <3> QED BY <3>3, <3>4
  <2> QED BY <2>1, <2>2
<1>5. ASSUME NEW t \in Tasks, TryLock(t) PROVE WaitersFound' /\ QueueOnce'
  BY <1>5 DEF TryLock, Take, TypeOK
<1>6. ASSUME NEW t \in Tasks, Unlock(t) PROVE WaitersFound' /\ QueueOnce'
  BY <1>6, PopFinds DEF Unlock
<1>7. ASSUME NEW t \in Tasks, UnlockWake(t) PROVE WaitersFound' /\ QueueOnce'
  BY <1>7 DEF UnlockWake, WakeOffCpu, Inside, TypeOK
<1>8. ASSUME NEW t \in Tasks, UnlockWakeOnCpu(t) PROVE WaitersFound' /\ QueueOnce'
  BY <1>8 DEF UnlockWakeOnCpu, WakeOnCpu, TypeOK
<1>9. ASSUME NEW t \in Tasks, UnlockReturn(t) PROVE WaitersFound' /\ QueueOnce'
  BY <1>9 DEF UnlockReturn, TypeOK
<1>10. ASSUME NEW t \in Tasks, UnlockWakeFails(t) PROVE WaitersFound' /\ QueueOnce'
  BY <1>10 DEF UnlockWakeFails, TypeOK
<1>11. ASSUME NEW t \in Tasks, UnlockRetry(t) PROVE WaitersFound' /\ QueueOnce'
  BY <1>11, PopFinds DEF UnlockRetry
<1>12. ASSUME NEW t \in Tasks, BlockCancelled(t) PROVE WaitersFound' /\ QueueOnce'
  BY <1>12 DEF BlockCancelled, TypeOK
<1>13. ASSUME NEW t \in Tasks, Block(t) PROVE WaitersFound' /\ QueueOnce'
  BY <1>13 DEF Block, TypeOK
<1>14. ASSUME NEW t \in Tasks, StrayWakeup(t) PROVE WaitersFound' /\ QueueOnce'
  BY <1>14 DEF StrayWakeup, WakeOnCpu, WakeOffCpu, Inside, TypeOK
<1>15. ASSUME NEW t \in Tasks, ForgetWakeup(t) PROVE WaitersFound' /\ QueueOnce'
  BY <1>15 DEF ForgetWakeup, TypeOK
<1>16. ASSUME NEW t \in Tasks, Exit(t) PROVE WaitersFound' /\ QueueOnce'
  BY <1>16 DEF Exit, TypeOK
<1>17. ASSUME NEW t \in Tasks, Free(t) PROVE WaitersFound' /\ QueueOnce'
  BY <1>17 DEF Free, TypeOK
<1>18. CASE UNCHANGED vars
  BY <1>18 DEF vars
<1> QED BY <1>1, <1>2, <1>3, <1>4, <1>5, <1>6, <1>7, <1>8, <1>9, <1>10, <1>11,
           <1>12, <1>13, <1>14, <1>15, <1>16, <1>17, <1>18 DEF Next, Progress

\* The next unlock can find every waiter that sleeps or is about to.
THEOREM WaitersAreFindable == Spec => []WaiterIsFindable
<1>1. Init => WaitersFound /\ QueueOnce
  BY DEF Init, WaitersFound, QueueOnce
<1>2. WaitersFound /\ QueueOnce => WaiterIsFindable
  BY DEF WaitersFound, QueueOnce, Findable, WaiterIsFindable
<1> QED BY <1>1, <1>2, FindStep, TypeCorrect, PTL DEF Spec

-----------------------------------------------------------------------------
(* A free lock does not forget its waiters *)

\* A task the next unlock, or a wakeup already on its way, can still use: it
\* waits for this mutex, or cannot be woken any more and is passed over.
Usable(t) == pc[t] \in {"lock", "block", "asleep", "zombie"}

\* A task on the way to the lock, or about to wake one that is.  A contender
\* whose wakeup goes to a task that does not wait is not enough: its step
\* leaves nobody behind.
RealContender ==
  \E t \in Tasks :
    \/ pc[t] \in {"lock", "relock"}
    \/ pc[t] = "block" /\ pending[t]
    \/ pc[t] = "wake" /\ next[t] \in Tasks /\ Usable(next[t])

\* The strengthening of NoForgottenWaiter: a task that is about to sleep counts
\* as asleep.
WaitersServed ==
  ~locked /\ ~wasted /\ (\E t \in Tasks : pc[t] \in {"block", "asleep"})
    => RealContender

\* A reservation that turns others away is for a task that is on its way.
ReservationServed ==
  ~locked /\ ~wasted /\ handoff # NoTask
    => \/ pc[handoff] = "lock"
       \/ pc[handoff] = "block" /\ pending[handoff]
       \/ \E u \in Tasks : pc[u] = "wake" /\ next[u] = handoff /\ Usable(handoff)
       \/ \E u \in Tasks : pc[u] = "relock"

\* Popping a waiter leaves nobody forgotten: the popped one is usable, and when
\* nobody is left in the queue every sleeper already has its waker.
LEMMA PopServes ==
  ASSUME TypeOK, WaitersFound, NEW t \in Tasks, PopWaiter(t),
         pc[t] \in {"held", "relock"}, pending' = pending
  PROVE  WaitersServed' /\ ReservationServed'
<1> USE SleepMutexAssumption
<1>1. CASE PopNobody(t)
  <2>1. ReservationServed'
    BY <1>1 DEF PopNobody, ReservationServed
  <2>2. ASSUME NEW u \in Tasks, pc'[u] \in {"block", "asleep"} PROVE RealContender'
    <3>1. u # t /\ pc[u] = pc'[u]
      BY <1>1, <2>2 DEF PopNobody, Goto, TypeOK
    <3>2. ~Queued(u)
      BY <1>1, <2>2, <3>1 DEF PopNobody, Queued, LivePositions
    <3>3. CASE \E v \in Tasks : pc[v] = "wake" /\ next[v] = u
      <4>1. PICK v \in Tasks : pc[v] = "wake" /\ next[v] = u
        BY <3>3
      <4>2. pc'[v] = "wake" /\ next'[v] = u
        BY <1>1, <4>1 DEF PopNobody, Goto, TypeOK
      <4> QED BY <4>2, <2>2 DEF RealContender, Usable
    <3>4. CASE pc[u] = "block" /\ pending[u]
      BY <3>1, <3>4 DEF RealContender
    <3> QED BY <2>2, <3>1, <3>2, <3>3, <3>4 DEF WaitersFound, Findable
  <2> QED BY <2>1, <2>2 DEF WaitersServed
<1>2. CASE PopFirst(t)
  <2>1. PICK k \in LivePositions :
          /\ handoff' \in {waitQueue[k], NoTask}
          /\ next' = [next EXCEPT ![t] = waitQueue[k]]
          /\ pc' = [pc EXCEPT ![t] = "wake"]
          /\ wasted' = (pc[waitQueue[k]] \in {"out", "held", "wake", "woken", "relock"})
    BY <1>2 DEF PopFirst, Goto
  <2>2. waitQueue[k] \in Tasks /\ pc[waitQueue[k]] # "gone"
    BY DEF LivePositions, TypeOK
  <2>3. ~wasted' => pc[waitQueue[k]] \in {"lock", "block", "asleep", "zombie"}
    BY <2>1, <2>2 DEF TypeOK, Pcs
  <2>4. ASSUME NEW n \in Tasks, n = waitQueue[k], ~wasted'
        PROVE  Usable(n)' /\ pc'[t] = "wake" /\ next'[t] = n
    BY <2>1, <2>3, <2>4 DEF TypeOK, Usable
  <2>5. ASSUME ~wasted' PROVE RealContender'
    BY <2>2, <2>4, <2>5 DEF RealContender, Usable
  <2>6. ASSUME ~wasted', handoff' # NoTask
        PROVE  \E u \in Tasks : pc'[u] = "wake" /\ next'[u] = handoff' /\ Usable(handoff)'
    BY <2>1, <2>2, <2>4, <2>6 DEF Usable
  <2> QED BY <2>5, <2>6 DEF WaitersServed, ReservationServed
<1> QED BY <1>1, <1>2 DEF PopWaiter

\* Every step keeps the waiters and the reservation served.
LEMMA ServeStep ==
  ASSUME TypeOK, WaitersFound, WaitersServed, ReservationServed, [Next]_vars
  PROVE  WaitersServed' /\ ReservationServed'
<1> USE SleepMutexAssumption
        DEF inner, Goto, WaitersServed, ReservationServed, RealContender, Usable
<1>1. CASE HandoffAges
  BY <1>1 DEF HandoffAges
<1>2. ASSUME NEW t \in Tasks, CallLock(t) PROVE WaitersServed' /\ ReservationServed'
  BY <1>2 DEF CallLock, TypeOK
<1>3. ASSUME NEW t \in Tasks, LockAcquire(t) PROVE WaitersServed' /\ ReservationServed'
  BY <1>3 DEF LockAcquire, Take, TypeOK
<1>4. ASSUME NEW t \in Tasks, LockQueue(t) PROVE WaitersServed' /\ ReservationServed'
  BY <1>4 DEF LockQueue, CanAcquire, HandoffAllows, TypeOK
<1>5. ASSUME NEW t \in Tasks, TryLock(t) PROVE WaitersServed' /\ ReservationServed'
  BY <1>5 DEF TryLock, Take, TypeOK
<1>6. ASSUME NEW t \in Tasks, Unlock(t) PROVE WaitersServed' /\ ReservationServed'
  BY <1>6, PopServes DEF Unlock
<1>7. ASSUME NEW t \in Tasks, UnlockWake(t) PROVE WaitersServed' /\ ReservationServed'
  BY <1>7 DEF UnlockWake, WakeOffCpu, Inside, TypeOK
<1>8. ASSUME NEW t \in Tasks, UnlockWakeOnCpu(t) PROVE WaitersServed' /\ ReservationServed'
  BY <1>8 DEF UnlockWakeOnCpu, WakeOnCpu, TypeOK
<1>9. ASSUME NEW t \in Tasks, UnlockReturn(t) PROVE WaitersServed' /\ ReservationServed'
  <2>1. /\ pc[t] = "woken" /\ pc'[t] \in {"out", "relock"}
        /\ \A u \in Tasks \ {t} : pc'[u] = pc[u] /\ next'[u] = next[u]
        /\ UNCHANGED <<locked, handoff, pending, wasted>>
    BY <1>9 DEF UnlockReturn, TypeOK
  <2>2. RealContender => RealContender'
    BY <2>1
  <2>3. (\E u \in Tasks : pc'[u] \in {"block", "asleep"})
          => \E u \in Tasks : pc[u] \in {"block", "asleep"}
    BY <2>1
  <2>4. ReservationServed'
    BY <2>1 DEF TypeOK
  <2> QED BY <2>1, <2>2, <2>3, <2>4
<1>10. ASSUME NEW t \in Tasks, UnlockWakeFails(t) PROVE WaitersServed' /\ ReservationServed'
  BY <1>10 DEF UnlockWakeFails, TypeOK
<1>11. ASSUME NEW t \in Tasks, UnlockRetry(t) PROVE WaitersServed' /\ ReservationServed'
  BY <1>11, PopServes DEF UnlockRetry
<1>12. ASSUME NEW t \in Tasks, BlockCancelled(t) PROVE WaitersServed' /\ ReservationServed'
  BY <1>12 DEF BlockCancelled, TypeOK
<1>13. ASSUME NEW t \in Tasks, Block(t) PROVE WaitersServed' /\ ReservationServed'
  BY <1>13 DEF Block, TypeOK
<1>14. ASSUME NEW t \in Tasks, StrayWakeup(t) PROVE WaitersServed' /\ ReservationServed'
  BY <1>14 DEF StrayWakeup, WakeOnCpu, WakeOffCpu, Inside, TypeOK
<1>15. ASSUME NEW t \in Tasks, ForgetWakeup(t) PROVE WaitersServed' /\ ReservationServed'
  BY <1>15 DEF ForgetWakeup, TypeOK
<1>16. ASSUME NEW t \in Tasks, Exit(t) PROVE WaitersServed' /\ ReservationServed'
  BY <1>16 DEF Exit, TypeOK
<1>17. ASSUME NEW t \in Tasks, Free(t) PROVE WaitersServed' /\ ReservationServed'
  BY <1>17 DEF Free, TypeOK
<1>18. CASE UNCHANGED vars
  BY <1>18 DEF vars
<1> QED BY <1>1, <1>2, <1>3, <1>4, <1>5, <1>6, <1>7, <1>8, <1>9, <1>10, <1>11,
           <1>12, <1>13, <1>14, <1>15, <1>16, <1>17, <1>18 DEF Next, Progress

\* A free lock never has all its waiters asleep, unless the last unlock spent
\* its wakeup on a task that was not waiting (drop of the guard).
THEOREM NoWaiterForgotten == Spec => []NoForgottenWaiter
<1>1. Init => WaitersFound /\ QueueOnce /\ WaitersServed /\ ReservationServed
  BY DEF Init, WaitersFound, QueueOnce, WaitersServed, ReservationServed
<1>2. WaitersServed => NoForgottenWaiter
  BY DEF WaitersServed, RealContender, NoForgottenWaiter, Contender
<1> QED BY <1>1, <1>2, FindStep, ServeStep, TypeCorrect, PTL DEF Spec

=============================================================================
