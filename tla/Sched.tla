------------------------------- MODULE Sched -------------------------------
(***************************************************************************)
(* Task ownership in the Kairix SMP scheduler: task/manager.rs (wakeup,    *)
(* enqueue, claim, remove), task/processor.rs (the idle loop run_tasks),   *)
(* task/mod.rs (block, yield, stop, exit, reap) and the group stop,        *)
(* continue and kill of syscall/signal/common.rs.                          *)
(*                                                                         *)
(* One atomic step is one critical section of the code: a section under a  *)
(* TCB lock, under a run-queue lock, or under a PCB lock, or one unlocked  *)
(* access to the atomics on_cpu and ready_queued.  Every process has one   *)
(* thread, so a task stands for its process too.  A run queue is the set   *)
(* of its entries: which one pop_next picks (real-time order, MLFQ level)  *)
(* and which CPU select_enqueue_cpu picks are left open.                   *)
(***************************************************************************)
EXTENDS Naturals, FiniteSets

CONSTANTS
  Tasks,    \* task control blocks
  Cpus,     \* harts, each running run_tasks()
  Agents,   \* other contexts that call into the scheduler: interrupts,
            \* timers, system calls of tasks outside Tasks
  Ops,      \* the calls agents make in this instance
  NoCpu,    \* the NO_CPU value of on_cpu and ready_queued
  NoTask

AllOps == {"fork", "wake", "stop", "cont", "kill"}

ASSUME SchedAssumption ==
  /\ IsFiniteSet(Tasks) /\ IsFiniteSet(Cpus) /\ IsFiniteSet(Agents)
  /\ Cpus \cap Agents = {}
  /\ NoCpu \notin Cpus
  /\ NoTask \notin Tasks
  /\ Ops \subseteq AllOps

Actors == Cpus \cup Agents

VARIABLES
  \* --- TCB state
  status,        \* inner.task_status; "None" before TaskControlBlock::new
  onCpu,         \* on_cpu
  queued,        \* ready_queued
  pending,       \* inner.pending_wakeup
  requeue,       \* inner.requeue_after_switch
  groupStopped,  \* inner.group_stopped
  stopResume,    \* inner.group_stop_resume
  zombieFlag,    \* inner.zombie_flag
  \* --- PCB state
  procStopped,   \* inner.is_stopped
  procZombie,    \* inner.is_zombie
  \* --- run queues and the deferred-exit list
  rq,            \* TASK_MANAGER[c]: the entries of all levels
  ready,         \* READY_TASKS[c]
  deferred,      \* DEFERRED_EXITED_TASKS
  released,      \* tasks whose kernel stack was released
  \* --- where each context is in the code
  pc, arg, tgt, op,
  \* --- history, read by the properties only
  owed,          \* a wakeup reached the task since it last began to run
  parked,        \* switched out by schedule_stopped_task and not woken since
  dropped,       \* runnable, but left without an owner by a race: made Ready
                 \* between run_tasks' skip decision and its clear_on_cpu,
                 \* dequeued by a stop that holds no record to resume it, or
                 \* made Ready on its CPU by the fork that created it
  undead         \* exited before its fork was over: the fork stored Ready
                 \* over Zombie

tcb   == <<status, onCpu, queued, pending, requeue, groupStopped, stopResume, zombieFlag>>
proc  == <<procStopped, procZombie>>
queue == <<rq, ready>>
exitq == <<deferred, released>>
ctl   == <<pc, arg, tgt, op>>
hist  == <<owed, parked, dropped, undead>>
vars  == <<tcb, proc, queue, exitq, ctl, hist>>

Statuses == {"None", "Ready", "Running", "Blocked", "Sleep", "Zombie"}

\* A context between the Ready check of add_task_to_cpu and the end of the
\* enqueue; the idle loop and every agent go through these.
EnqueuePcs == {"add", "check", "mark"}
CpuPcs     == {"loop", "claimed", "skip", "run", "sleeping", "stopping",
               "exiting", "detach", "switch", "reap"} \cup EnqueuePcs
AgentPcs   == {"idle", "start", "wake", "recheck", "stop", "cont", "deliver",
               "kill", "remove", "decr"} \cup EnqueuePcs

\* A hart with one of these pcs holds the claim on its task.
OwnerPcs == {"claimed", "skip", "run", "sleeping", "stopping", "exiting",
             "detach", "switch"}
\* A hart with one of these pcs executes on its task's kernel stack.
StackPcs == {"run", "sleeping", "stopping", "exiting", "detach", "switch"}

DataOK ==
  /\ status \in [Tasks -> Statuses]
  /\ onCpu \in [Tasks -> Cpus \cup {NoCpu}]
  /\ queued \in [Tasks -> Cpus \cup {NoCpu}]
  /\ pending \in [Tasks -> BOOLEAN]
  /\ requeue \in [Tasks -> BOOLEAN]
  /\ groupStopped \in [Tasks -> BOOLEAN]
  /\ stopResume \in [Tasks -> BOOLEAN]
  /\ zombieFlag \in [Tasks -> BOOLEAN]
  /\ procStopped \in [Tasks -> BOOLEAN]
  /\ procZombie \in [Tasks -> BOOLEAN]
  /\ rq \in [Cpus -> SUBSET Tasks]
  /\ ready \in [Cpus -> Nat]
  /\ deferred \subseteq Tasks
  /\ released \subseteq Tasks
  /\ owed \in [Tasks -> BOOLEAN]
  /\ parked \subseteq Tasks
  /\ dropped \subseteq Tasks
  /\ undead \subseteq Tasks

\* A context works on a task, for some call, unless it is idle, and on a run
\* queue only while it enqueues or still owes a decrement.
CtlOK ==
  /\ pc \in [Actors -> CpuPcs \cup AgentPcs]
  /\ \A c \in Cpus : pc[c] \in CpuPcs
  /\ \A a \in Agents : pc[a] \in AgentPcs
  /\ arg \in [Actors -> Tasks \cup {NoTask}]
  /\ \A x \in Actors : (arg[x] = NoTask) <=> (pc[x] \in {"loop", "idle"})
  /\ tgt \in [Actors -> Cpus \cup {NoCpu}]
  /\ \A x \in Actors : (tgt[x] = NoCpu) <=> (pc[x] \notin {"mark", "decr"})
  /\ op \in [Agents -> AllOps \cup {"none"}]
  /\ \A a \in Agents : pc[a] = "idle" => op[a] = "none"

TypeOK == DataOK /\ CtlOK

-----------------------------------------------------------------------------
(* Control helpers *)

\* The context is through with its call: a hart is back in the idle loop.
Leave(x) ==
  /\ pc'  = [pc EXCEPT ![x] = IF x \in Cpus THEN "loop" ELSE "idle"]
  /\ arg' = [arg EXCEPT ![x] = NoTask]
  /\ tgt' = [tgt EXCEPT ![x] = NoCpu]
  /\ op'  = IF x \in Agents THEN [op EXCEPT ![x] = "none"] ELSE op

\* deliver_signal_with_info goes on when continue_process has returned.
Continues(x) == x \in Agents /\ op[x] = "cont"

\* The context has returned from the scheduler.
Done(x) ==
  IF Continues(x)
    THEN /\ pc'  = [pc EXCEPT ![x] = "deliver"]
         /\ tgt' = [tgt EXCEPT ![x] = NoCpu]
         /\ UNCHANGED <<arg, op>>
    ELSE Leave(x)

Goto(x, l) ==
  /\ pc' = [pc EXCEPT ![x] = l]
  /\ UNCHANGED <<arg, tgt, op>>

\* Agent a starts call o on task t, its next critical section at l.
Enter(a, t, o, l) ==
  /\ o \in Ops
  /\ pc[a] = "idle"
  /\ pc'  = [pc EXCEPT ![a] = l]
  /\ arg' = [arg EXCEPT ![a] = t]
  /\ op'  = [op EXCEPT ![a] = o]
  /\ UNCHANGED tgt

\* TASK_MANAGER[c] is not held: enqueue_task_on_cpu holds it from its
\* ownership checks to its commit, every other holder in a single step.
RunQueueFree(c) == \A x \in Actors : ~(pc[x] = "mark" /\ tgt[x] = c)

\* Bug: the ownership check looks at the queue only.
UnownedIgnoresCpu(t) == queued[t] = NoCpu

\* Neither ownership atomic names a hart.
Unowned(t) == queued[t] = NoCpu /\ onCpu[t] = NoCpu

-----------------------------------------------------------------------------
Init ==
  /\ status = [t \in Tasks |-> "None"]
  /\ onCpu = [t \in Tasks |-> NoCpu]
  /\ queued = [t \in Tasks |-> NoCpu]
  /\ pending = [t \in Tasks |-> FALSE]
  /\ requeue = [t \in Tasks |-> FALSE]
  /\ groupStopped = [t \in Tasks |-> FALSE]
  /\ stopResume = [t \in Tasks |-> FALSE]
  /\ zombieFlag = [t \in Tasks |-> FALSE]
  /\ procStopped = [t \in Tasks |-> FALSE]
  /\ procZombie = [t \in Tasks |-> FALSE]
  /\ rq = [c \in Cpus |-> {}]
  /\ ready = [c \in Cpus |-> 0]
  /\ deferred = {}
  /\ released = {}
  /\ pc = [x \in Actors |-> IF x \in Cpus THEN "loop" ELSE "idle"]
  /\ arg = [x \in Actors |-> NoTask]
  /\ tgt = [x \in Actors |-> NoCpu]
  /\ op = [a \in Agents |-> "none"]
  /\ owed = [t \in Tasks |-> FALSE]
  /\ parked = {}
  /\ dropped = {}
  /\ undead = {}

-----------------------------------------------------------------------------
(* Creation and enqueue: task/manager.rs *)

\* _clone: TaskControlBlock::new starts Ready, and the child is in tid2task
\* and pid2process from here on, where signals find it.
ForkTask(a, t) ==
  /\ status[t] = "None"
  /\ Enter(a, t, "fork", "start")
  /\ status' = [status EXCEPT ![t] = "Ready"]
  /\ UNCHANGED <<onCpu, queued, pending, requeue, groupStopped, stopResume,
                 zombieFlag, proc, queue, exitq, hist>>

\* _clone stores Ready once more, over whatever the status is by now, then
\* enqueue_new_clone_task calls add_task.
StartForked(a) ==
  /\ pc[a] = "start"
  /\ LET t == arg[a] IN
       /\ status' = [status EXCEPT ![t] = "Ready"]
       /\ dropped' = IF status[t] # "Ready" /\ onCpu[t] # NoCpu
                       THEN dropped \cup {t} ELSE dropped
       /\ undead' = IF status[t] = "Zombie" THEN undead \cup {t} ELSE undead
       /\ parked' = parked \ {t}
  /\ Goto(a, "add")
  /\ UNCHANGED <<onCpu, queued, pending, requeue, groupStopped, stopResume,
                 zombieFlag, proc, queue, exitq, owed>>

\* add_task_to_cpu(_front): the status check under the TCB lock, which is
\* released before the enqueue.
AddTaskToCpu(x) ==
  /\ pc[x] = "add"
  /\ IF status[arg[x]] = "Ready" THEN Goto(x, "check") ELSE Done(x)
  /\ UNCHANGED <<tcb, proc, queue, exitq, hist>>

\* enqueue_task_on_cpu: takes the lock of the chosen run queue and looks at
\* the two ownership atomics.
EnqueueCheck(x, c) ==
  /\ pc[x] = "check"
  /\ RunQueueFree(c)
  /\ IF Unowned(arg[x])
       THEN /\ pc' = [pc EXCEPT ![x] = "mark"]
            /\ tgt' = [tgt EXCEPT ![x] = c]
            /\ UNCHANGED <<arg, op>>
       ELSE Done(x)
  /\ UNCHANGED <<tcb, proc, queue, exitq, hist>>

\* Bug: the result of try_mark_ready_queued is not looked at.
MarkAlways(t) == TRUE

\* try_mark_ready_queued: only one of several enqueuers gets the marker.
TryMarkReadyQueued(t) == queued[t] = NoCpu

\* enqueue_task_on_cpu: try_mark_ready_queued, the push and the count, then
\* the run-queue lock is released.
EnqueueMark(x) ==
  /\ pc[x] = "mark"
  /\ LET t == arg[x]  c == tgt[x] IN
       IF TryMarkReadyQueued(t)
         THEN /\ queued' = [queued EXCEPT ![t] = c]
              /\ rq' = [rq EXCEPT ![c] = @ \cup {t}]
              /\ ready' = [ready EXCEPT ![c] = @ + 1]
              /\ dropped' = IF onCpu[t] = NoCpu THEN dropped \ {t} ELSE dropped
         ELSE UNCHANGED <<queued, queue, dropped>>
  /\ Done(x)
  /\ UNCHANGED <<status, onCpu, pending, requeue, groupStopped, stopResume,
                 zombieFlag, proc, exitq, owed, parked, undead>>

-----------------------------------------------------------------------------
(* wakeup_task and wakeup_task_front: task/manager.rs *)

\* Agent a calls wakeup_task on t of its own accord, or as the last part of
\* a continue or a kill.
Waking(a, t) ==
  /\ status[t] # "None"
  /\ \/ pc[a] = "idle" /\ "wake" \in Ops
     \/ pc[a] = "wake" /\ arg[a] = t

WakeZombie(a, t) ==
  /\ Waking(a, t)
  /\ status[t] = "Zombie"
  /\ Done(a)
  /\ UNCHANGED <<tcb, proc, queue, exitq, hist>>

WakeStopped(a, t) ==
  /\ Waking(a, t)
  /\ status[t] # "Zombie"
  /\ groupStopped[t]
  /\ stopResume' = [stopResume EXCEPT ![t] = TRUE]
  /\ pending' = [pending EXCEPT ![t] = TRUE]
  /\ owed' = [owed EXCEPT ![t] = TRUE]
  /\ Done(a)
  /\ UNCHANGED <<status, onCpu, queued, requeue, groupStopped, zombieFlag,
                 proc, queue, exitq, parked, dropped, undead>>

\* Bug: a wakeup between Blocked and the switch asks for no requeue.
WakeAsksNothing(t) == requeue[t]

\* A wakeup between Blocked and the end of the switch is left to the hart that
\* switches the task out.
WakeRequeues(t) == requeue[t] \/ status[t] = "Blocked"

\* The task is claimed by a hart, or marked Running.
WakeOnCpu(a, t) ==
  /\ Waking(a, t)
  /\ status[t] # "Zombie"
  /\ ~groupStopped[t]
  /\ onCpu[t] # NoCpu \/ status[t] = "Running"
  /\ pending' = [pending EXCEPT ![t] = TRUE]
  /\ requeue' = [requeue EXCEPT ![t] = WakeRequeues(t)]
  /\ status' = [status EXCEPT ![t] = IF @ = "Running" THEN @ ELSE "Ready"]
  /\ owed' = [owed EXCEPT ![t] = TRUE]
  /\ parked' = parked \ {t}
  /\ Done(a)
  /\ UNCHANGED <<onCpu, queued, groupStopped, stopResume, zombieFlag, proc,
                 queue, exitq, dropped, undead>>

\* Already Ready: the TCB lock is dropped, then the atomics are looked at.
WakeReady(a, t) ==
  /\ Waking(a, t)
  /\ ~groupStopped[t]
  /\ onCpu[t] = NoCpu
  /\ status[t] = "Ready"
  /\ pc' = [pc EXCEPT ![a] = "recheck"]
  /\ arg' = [arg EXCEPT ![a] = t]
  /\ UNCHANGED <<tgt, op, tcb, proc, queue, exitq, hist>>

\* Bug: the task is pushed without a run queue having been chosen and locked.
WakeRecheckPushes(a) ==
  /\ pc[a] = "recheck"
  /\ IF Unowned(arg[a]) THEN Goto(a, "mark") ELSE Done(a)
  /\ UNCHANGED <<tcb, proc, queue, exitq, hist>>

WakeRecheck(a) ==
  /\ pc[a] = "recheck"
  /\ IF Unowned(arg[a]) THEN Goto(a, "add") ELSE Done(a)
  /\ UNCHANGED <<tcb, proc, queue, exitq, hist>>

\* Bug: the group stop is not looked at.
WakesStoppedSleeper(t) == onCpu[t] = NoCpu /\ status[t] \in {"Blocked", "Sleep"}

WakesSleeper(t) ==
  /\ ~groupStopped[t]
  /\ onCpu[t] = NoCpu
  /\ status[t] \in {"Blocked", "Sleep"}

\* The sleeping task becomes Ready, then enqueue_woken_task runs unlocked.
WakeBlocked(a, t) ==
  /\ Waking(a, t)
  /\ WakesSleeper(t)
  /\ status' = [status EXCEPT ![t] = "Ready"]
  /\ owed' = [owed EXCEPT ![t] = TRUE]
  /\ parked' = parked \ {t}
  /\ pc' = [pc EXCEPT ![a] = "add"]
  /\ arg' = [arg EXCEPT ![a] = t]
  /\ UNCHANGED <<tgt, op, onCpu, queued, pending, requeue, groupStopped,
                 stopResume, zombieFlag, proc, queue, exitq, dropped, undead>>

WakeupTask(a, t) ==
  \/ WakeZombie(a, t)
  \/ WakeStopped(a, t)
  \/ WakeOnCpu(a, t)
  \/ WakeReady(a, t)
  \/ WakeBlocked(a, t)

-----------------------------------------------------------------------------
(* remove_task: task/manager.rs *)

\* Bug: the killer forgets the wakeup.
AfterRemoveNothing(a) == Done(a)

\* What follows remove_task in the caller: a kill goes on to wakeup_task.
AfterRemove(a) ==
  IF op[a] = "kill"
    THEN /\ pc' = [pc EXCEPT ![a] = "wake"]
         /\ tgt' = [tgt EXCEPT ![a] = NoCpu]
         /\ UNCHANGED <<arg, op>>
    ELSE Done(a)

RemoveTask(a) ==
  /\ pc[a] = "remove"
  /\ LET t == arg[a]  c == queued[t] IN
       IF c = NoCpu
         THEN AfterRemove(a) /\ UNCHANGED <<queued, rq>>
         ELSE /\ RunQueueFree(c)
              /\ rq' = [rq EXCEPT ![c] = @ \ {t}]
              /\ queued' = [queued EXCEPT ![t] = NoCpu]
              /\ pc' = [pc EXCEPT ![a] = "decr"]
              /\ tgt' = [tgt EXCEPT ![a] = c]
              /\ UNCHANGED <<arg, op>>
  /\ dropped' = IF /\ op[a] = "stop" /\ queued[arg[a]] # NoCpu
                   /\ ~(groupStopped[arg[a]] /\ stopResume[arg[a]])
                  THEN dropped \cup {arg[a]} ELSE dropped
  /\ UNCHANGED <<status, onCpu, pending, requeue, groupStopped, stopResume,
                 zombieFlag, proc, ready, exitq, owed, parked, undead>>

\* Bug: the entry is removed and still counted.
DecrementForgotten(a) ==
  /\ pc[a] = "decr"
  /\ AfterRemove(a)
  /\ UNCHANGED <<tcb, proc, queue, exitq, hist>>

\* decrement_ready_tasks, called after the run-queue lock is released; the
\* subtraction saturates.
DecrementReadyTasks(a) ==
  /\ pc[a] = "decr"
  /\ ready' = [ready EXCEPT ![tgt[a]] = IF @ = 0 THEN 0 ELSE @ - 1]
  /\ AfterRemove(a)
  /\ UNCHANGED <<tcb, proc, rq, exitq, hist>>

-----------------------------------------------------------------------------
(* Group stop, continue, kill: syscall/signal/common.rs *)

\* stop_process: the PCB section.
StopProcess(a, t) ==
  /\ status[t] # "None"
  /\ ~procZombie[t]
  /\ Enter(a, t, "stop", "stop")
  /\ procStopped' = [procStopped EXCEPT ![t] = TRUE]
  /\ UNCHANGED <<tcb, procZombie, queue, exitq, hist>>

\* stop_process: the TCB section; remove_task follows.
StopTask(a) ==
  /\ pc[a] = "stop"
  /\ LET t == arg[a]
         resume == IF groupStopped[t] THEN stopResume[t]
                                      ELSE status[t] \in {"Ready", "Running"}
     IN IF status[t] = "Zombie"
          THEN Done(a) /\ UNCHANGED <<status, requeue, groupStopped, stopResume>>
          ELSE /\ groupStopped' = [groupStopped EXCEPT ![t] = TRUE]
               /\ stopResume' = [stopResume EXCEPT ![t] = resume]
               /\ status' = [status EXCEPT ![t] = IF resume THEN "Blocked" ELSE @]
               /\ requeue' = [requeue EXCEPT ![t] = @ /\ ~resume]
               /\ Goto(a, "remove")
  /\ UNCHANGED <<onCpu, queued, pending, zombieFlag, proc, queue, exitq, hist>>

\* continue_process: the PCB section.
ContinueProcess(a, t) ==
  /\ status[t] # "None"
  /\ Enter(a, t, "cont", "cont")
  /\ procStopped' = [procStopped EXCEPT ![t] = FALSE]
  /\ UNCHANGED <<tcb, procZombie, queue, exitq, hist>>

\* continue_process: the TCB section; wakeup_task follows when the task has
\* to resume.
ContinueTask(a) ==
  /\ pc[a] = "cont"
  /\ LET t == arg[a]
         shouldWake == groupStopped[t] /\ stopResume[t] /\ status[t] # "Zombie"
     IN /\ groupStopped' = [groupStopped EXCEPT ![t] = FALSE]
        /\ stopResume' = [stopResume EXCEPT ![t] = FALSE]
        /\ pending' = [pending EXCEPT ![t] = @ /\ ~shouldWake]
        /\ IF shouldWake THEN Goto(a, "wake") ELSE Done(a)
  /\ UNCHANGED <<status, onCpu, queued, requeue, zombieFlag, proc, queue, exitq, hist>>

\* deliver_signal_with_info after continue_process: a SIGCONT that is ignored,
\* or that the thread blocks, wakes nobody; any other one is queued and
\* wakeup_signal_receivers calls wakeup_task.
DeliverCont(a) ==
  /\ pc[a] = "deliver"
  /\ \/ Leave(a)
     \/ /\ pc' = [pc EXCEPT ![a] = "wake"]
        /\ op' = [op EXCEPT ![a] = "none"]
        /\ UNCHANGED <<arg, tgt>>
  /\ UNCHANGED <<tcb, proc, queue, exitq, hist>>

\* finish_signaled_process: the PCB section.
FinishSignaledProcess(a, t) ==
  /\ status[t] # "None"
  /\ ~procZombie[t]
  /\ Enter(a, t, "kill", "kill")
  /\ procZombie' = [procZombie EXCEPT ![t] = TRUE]
  /\ UNCHANGED <<tcb, procStopped, queue, exitq, hist>>

\* request_tasks_exit: a Running task gets a reschedule interrupt and exits
\* by itself, any other is removed from its queue and then woken.
RequestTaskExit(a) ==
  /\ pc[a] = "kill"
  /\ zombieFlag' = [zombieFlag EXCEPT ![arg[a]] = TRUE]
  /\ IF status[arg[a]] = "Running" THEN Done(a) ELSE Goto(a, "remove")
  /\ UNCHANGED <<status, onCpu, queued, pending, requeue, groupStopped,
                 stopResume, proc, queue, exitq, hist>>

-----------------------------------------------------------------------------
(* The idle loop: run_tasks of task/processor.rs, fetch_task of manager.rs *)

\* Bug: on_cpu is set without looking whether another hart has it.
ClaimsAnyEntry(c, t) == t \in rq[c]

\* try_claim_queued: an entry whose on_cpu claim is still held goes back to
\* the queue.
TryClaimQueued(c, t) == t \in rq[c] /\ onCpu[t] = NoCpu

\* claim_task_from_cpu takes an entry nobody is executing.
ClaimTask(c, t) ==
  /\ pc[c] = "loop"
  /\ RunQueueFree(c)
  /\ TryClaimQueued(c, t)
  /\ onCpu' = [onCpu EXCEPT ![t] = c]
  /\ queued' = [queued EXCEPT ![t] = NoCpu]
  /\ rq' = [rq EXCEPT ![c] = @ \ {t}]
  /\ ready' = [ready EXCEPT ![c] = IF @ = 0 THEN 0 ELSE @ - 1]
  /\ pc' = [pc EXCEPT ![c] = "claimed"]
  /\ arg' = [arg EXCEPT ![c] = t]
  /\ UNCHANGED <<tgt, op, status, pending, requeue, groupStopped, stopResume,
                 zombieFlag, proc, exitq, hist>>

\* The TCB section: only a Ready task is switched to.
DispatchTask(c) ==
  /\ pc[c] = "claimed"
  /\ LET t == arg[c] IN
       IF status[t] = "Ready"
         THEN /\ status' = [status EXCEPT ![t] = "Running"]
              /\ owed' = [owed EXCEPT ![t] = FALSE]
              /\ Goto(c, "run")
         ELSE /\ Goto(c, "skip")
              /\ UNCHANGED <<status, owed>>
  /\ UNCHANGED <<onCpu, queued, pending, requeue, groupStopped, stopResume,
                 zombieFlag, proc, queue, exitq, parked, dropped, undead>>

\* Bug: the skipped task keeps its claim.
SkipKeepsClaim(c) ==
  /\ pc[c] = "skip"
  /\ Done(c)
  /\ UNCHANGED <<tcb, proc, queue, exitq, hist>>

\* The skipped task's claim is released after the TCB lock was.
SkipTask(c) ==
  /\ pc[c] = "skip"
  /\ onCpu' = [onCpu EXCEPT ![arg[c]] = NoCpu]
  /\ dropped' = IF status[arg[c]] = "Ready" THEN dropped \cup {arg[c]} ELSE dropped
  /\ Done(c)
  /\ UNCHANGED <<status, queued, pending, requeue, groupStopped, stopResume,
                 zombieFlag, proc, queue, exitq, owed, parked, undead>>

\* Back on the idle stack: the claim is released and the requeue decision
\* taken in one TCB section.
SwitchedOut(c) ==
  /\ pc[c] = "switch"
  /\ LET t == arg[c] IN
       /\ onCpu' = [onCpu EXCEPT ![t] = NoCpu]
       /\ IF requeue[t]
            THEN /\ requeue' = [requeue EXCEPT ![t] = FALSE]
                 /\ pending' = [pending EXCEPT ![t] = FALSE]
                 /\ status' = [status EXCEPT ![t] = IF @ = "Zombie" THEN @ ELSE "Ready"]
                 /\ Goto(c, "add")
            ELSE /\ Done(c)
                 /\ UNCHANGED <<requeue, pending, status>>
  /\ UNCHANGED <<queued, groupStopped, stopResume, zombieFlag, proc, queue, exitq, hist>>

\* reap_deferred_exited_tasks: an entry nobody executes or has queued leaves
\* the list.
ReapDeferred(c, t) ==
  /\ pc[c] = "loop"
  /\ t \in deferred
  /\ Unowned(t)
  /\ deferred' = deferred \ {t}
  /\ pc' = [pc EXCEPT ![c] = "reap"]
  /\ arg' = [arg EXCEPT ![c] = t]
  /\ UNCHANGED <<tgt, op, released, tcb, proc, queue, hist>>

\* release_exited_resources gives the kernel stack back.
ReleaseExited(c) ==
  /\ pc[c] = "reap"
  /\ released' = released \cup {arg[c]}
  /\ Done(c)
  /\ UNCHANGED <<deferred, tcb, proc, queue, hist>>

-----------------------------------------------------------------------------
(* What the current task of a hart does: task/mod.rs *)

\* nanosleep publishes Sleep, then blocks.
MarkSleep(c) ==
  /\ pc[c] = "run"
  /\ status' = [status EXCEPT ![arg[c]] = "Sleep"]
  /\ Goto(c, "sleeping")
  /\ UNCHANGED <<onCpu, queued, pending, requeue, groupStopped, stopResume,
                 zombieFlag, proc, queue, exitq, hist>>

\* Bug: a fatal signal is not looked at before blocking.
NeverKilled(t) == FALSE

\* A fatal signal is waiting for the task (zombie_flag and the PCB's is_zombie).
Killed(t) == zombieFlag[t] /\ procZombie[t]

\* block_current_and_run_next_impl for a task being killed: it stays on the
\* CPU and will exit.
BlockCancelledByExit(c) ==
  /\ pc[c] \in {"run", "sleeping"}
  /\ Killed(arg[c])
  /\ status' = [status EXCEPT ![arg[c]] = "Running"]
  /\ Goto(c, "run")
  /\ UNCHANGED <<onCpu, queued, pending, requeue, groupStopped, stopResume,
                 zombieFlag, proc, queue, exitq, hist>>

\* block_current_and_run_next_impl consumes a wakeup that came before.
BlockCancelledByWakeup(c) ==
  /\ pc[c] \in {"run", "sleeping"}
  /\ ~Killed(arg[c])
  /\ pending[arg[c]]
  /\ pending' = [pending EXCEPT ![arg[c]] = FALSE]
  /\ requeue' = [requeue EXCEPT ![arg[c]] = FALSE]
  /\ status' = [status EXCEPT ![arg[c]] = "Running"]
  /\ owed' = [owed EXCEPT ![arg[c]] = FALSE]
  /\ Goto(c, "run")
  /\ UNCHANGED <<onCpu, queued, groupStopped, stopResume, zombieFlag, proc,
                 queue, exitq, parked, dropped, undead>>

\* Bug: pending_wakeup is not looked at before blocking.
BlockOverWakeup(c) ==
  /\ pc[c] \in {"run", "sleeping"}
  /\ status' = [status EXCEPT ![arg[c]] = "Blocked"]
  /\ Goto(c, "switch")
  /\ UNCHANGED <<onCpu, queued, pending, requeue, groupStopped, stopResume,
                 zombieFlag, proc, queue, exitq, hist>>

\* block_current_and_run_next_impl goes to sleep.
BlockCurrent(c) ==
  /\ pc[c] \in {"run", "sleeping"}
  /\ ~Killed(arg[c])
  /\ ~pending[arg[c]]
  /\ status' = [status EXCEPT ![arg[c]] = "Blocked"]
  /\ Goto(c, "switch")
  /\ UNCHANGED <<onCpu, queued, pending, requeue, groupStopped, stopResume,
                 zombieFlag, proc, queue, exitq, hist>>

\* suspend, preempt and kernel-continuation yields.  The process state is not
\* consulted when its lock is busy or a kernel critical section is active.
SuspendCurrent(c) ==
  /\ pc[c] = "run"
  /\ status' = [status EXCEPT ![arg[c]] = "Ready"]
  /\ requeue' = [requeue EXCEPT ![arg[c]] = TRUE]
  /\ Goto(c, "switch")
  /\ UNCHANGED <<onCpu, queued, pending, groupStopped, stopResume, zombieFlag,
                 proc, queue, exitq, hist>>

\* The same safe points find the process stopped (current_task_exit_state).
ObserveStopped(c) ==
  /\ pc[c] = "run"
  /\ procStopped[arg[c]] /\ ~procZombie[arg[c]]
  /\ Goto(c, "stopping")
  /\ UNCHANGED <<tcb, proc, queue, exitq, hist>>

\* schedule_stopped_task.
ScheduleStoppedTask(c) ==
  /\ pc[c] = "stopping"
  /\ status' = [status EXCEPT ![arg[c]] = "Blocked"]
  /\ requeue' = [requeue EXCEPT ![arg[c]] = FALSE]
  /\ parked' = parked \cup {arg[c]}
  /\ Goto(c, "switch")
  /\ UNCHANGED <<onCpu, queued, pending, groupStopped, stopResume, zombieFlag,
                 proc, queue, exitq, owed, dropped, undead>>

\* exit_current_and_run_next: the task becomes a zombie on its own stack.
ExitCurrent(c) ==
  /\ pc[c] = "run"
  /\ status' = [status EXCEPT ![arg[c]] = "Zombie"]
  /\ Goto(c, "exiting")
  /\ UNCHANGED <<onCpu, queued, pending, requeue, groupStopped, stopResume,
                 zombieFlag, proc, queue, exitq, hist>>

\* exit_current_and_run_next: with its only thread the process ends, unless a
\* fatal signal has ended it before.
ExitProcess(c) ==
  /\ pc[c] = "exiting"
  /\ procZombie' = [procZombie EXCEPT ![arg[c]] = TRUE]
  /\ zombieFlag' = [zombieFlag EXCEPT ![arg[c]] = @ \/ ~procZombie[arg[c]]]
  /\ Goto(c, "detach")
  /\ UNCHANGED <<status, onCpu, queued, pending, requeue, groupStopped,
                 stopResume, procStopped, queue, exitq, hist>>

\* exit_current_and_run_next: the detached task is handed to the reaper, still
\* on its own stack, before the last switch.
DeferDrop(c) ==
  /\ pc[c] = "detach"
  /\ deferred' = deferred \cup {arg[c]}
  /\ Goto(c, "switch")
  /\ UNCHANGED <<released, tcb, proc, queue, hist>>

-----------------------------------------------------------------------------
(* Steps of one context *)

\* The rest of a call that context x has begun.
EnqueueStep(x) ==
  \/ AddTaskToCpu(x)
  \/ \E c \in Cpus : EnqueueCheck(x, c)
  \/ EnqueueMark(x)

AgentCall(a) ==
  \E t \in Tasks :
    \/ ForkTask(a, t)
    \/ StopProcess(a, t)
    \/ ContinueProcess(a, t)
    \/ FinishSignaledProcess(a, t)

AgentStep(a) ==
  \/ StartForked(a)
  \/ EnqueueStep(a)
  \/ WakeRecheck(a)
  \/ RemoveTask(a)
  \/ DecrementReadyTasks(a)
  \/ StopTask(a)
  \/ ContinueTask(a)
  \/ DeliverCont(a)
  \/ RequestTaskExit(a)

\* What run_tasks does by itself.
LoopStep(c) ==
  \/ EnqueueStep(c)
  \/ \E t \in Tasks : ClaimTask(c, t) \/ ReapDeferred(c, t)
  \/ DispatchTask(c)
  \/ SkipTask(c)
  \/ SwitchedOut(c)
  \/ ReleaseExited(c)
  \/ ScheduleStoppedTask(c)
  \/ ExitProcess(c)
  \/ DeferDrop(c)

\* What the running task decides.
TaskStep(c) ==
  \/ MarkSleep(c)
  \/ BlockCancelledByExit(c)
  \/ BlockCancelledByWakeup(c)
  \/ BlockCurrent(c)
  \/ SuspendCurrent(c)
  \/ ObserveStopped(c)
  \/ ExitCurrent(c)

Next ==
  \/ \E a \in Agents :
       AgentCall(a) \/ AgentStep(a) \/ \E t \in Tasks : WakeupTask(a, t)
  \/ \E c \in Cpus : LoopStep(c) \/ TaskStep(c)

Spec == Init /\ [][Next]_vars

\* The scheduling the code provides.  A call that has begun goes on: harts
\* make progress, and a run-queue lock is released in bounded time to a
\* context that keeps trying (the owner and remote intents of manager.rs).
\* An entry that can be claimed again and again is claimed in the end (the
\* round robin and the aging of the MLFQ).  The timer takes the CPU from a
\* task that keeps it, and the last check before user mode makes a killed
\* task exit.
Fairness ==
  /\ \A a \in Agents :
       /\ SF_vars(AgentStep(a))
       /\ WF_vars(pc[a] = "wake" /\ WakeupTask(a, arg[a]))
  /\ \A c \in Cpus :
       /\ SF_vars(pc[c] # "loop" /\ LoopStep(c))
       /\ WF_vars(pc[c] = "sleeping" /\ TaskStep(c))
       /\ SF_vars(SuspendCurrent(c))
  /\ \A t \in Tasks :
       /\ SF_vars(\E c \in Cpus : ClaimTask(c, t))
       /\ SF_vars(\E c \in Cpus : ReapDeferred(c, t))
       /\ SF_vars(\E c \in Cpus : arg[c] = t /\ procZombie[t] /\ ExitCurrent(c))

FairSpec == Spec /\ Fairness

-----------------------------------------------------------------------------
(* Safety properties *)

\* A task is an entry of the run queue its ready_queued marker names and of
\* no other: the marker and the entry are committed, moved and deleted
\* together although enqueue, claim and remove run on different harts
\* (enqueue_task_on_cpu, claim_task_from_cpu, remove_task).
QueueMarker == \A t \in Tasks, c \in Cpus : t \in rq[c] <=> queued[t] = c

\* on_cpu names the one hart that has the task between its claim and the
\* release on the idle stack, so no two harts ever execute one kernel stack
\* (try_claim_queued, clear_on_cpu in run_tasks).
SingleOwner ==
  \A t \in Tasks, c \in Cpus :
    onCpu[t] = c <=> (pc[c] \in OwnerPcs /\ arg[c] = t)

\* READY_TASKS[c] exceeds the number of entries by exactly the removals whose
\* decrement is still to come: decrement_ready_tasks never underflows, and a
\* non-empty queue never shows a zero count to the idle loop.
ReadyCount ==
  \A c \in Cpus :
    ready[c] = Cardinality(rq[c])
               + Cardinality({a \in Agents : pc[a] = "decr" /\ tgt[a] = c})

\* Some context has begun a call that ends by enqueueing t, or by seeing that
\* another owner has it.
BeingEnqueued(t) ==
  \E x \in Actors :
    /\ arg[x] = t
    /\ \/ pc[x] \in EnqueuePcs \cup {"start", "recheck", "wake"}
       \/ pc[x] \in {"remove", "decr"} /\ op[x] = "kill"

\* A Ready task always has an owner: a queue, a hart, or a context about to
\* enqueue it, unless it is group-stopped with its resumption recorded or was
\* dropped by one of the three races that `dropped' names
\* (wakeup_task, enqueue_task_on_cpu, run_tasks, _clone).
NoStrandedReady ==
  \A t \in Tasks :
    status[t] = "Ready" /\ Unowned(t)
      => \/ BeingEnqueued(t)
         \/ groupStopped[t] /\ stopResume[t]
         \/ t \in dropped

\* Nobody sleeps over a wakeup: a task asleep off every CPU got no wakeup
\* since it was last given a CPU, unless the wakeup is remembered by a group
\* stop or the task was switched out by schedule_stopped_task (pending_wakeup
\* of wakeup_task against block_current_and_run_next_impl and run_tasks).
NoSleepOverWakeup ==
  \A t \in Tasks :
    status[t] \in {"Blocked", "Sleep"} /\ onCpu[t] = NoCpu /\ owed[t]
      => \/ groupStopped[t] /\ stopResume[t]
         \/ BeingEnqueued(t)
         \/ t \in parked

\* A fatal signal leaves no task asleep: once request_tasks_exit is through
\* with a task, it is not asleep off every CPU, unless it is group-stopped or
\* was switched out by schedule_stopped_task.
KilledIsWoken ==
  \A t \in Tasks :
    zombieFlag[t] /\ status[t] \in {"Blocked", "Sleep"} /\ onCpu[t] = NoCpu
      => \/ BeingEnqueued(t)
         \/ groupStopped[t]
         \/ t \in parked

\* No hart executes on a kernel stack that the reaper has released, and the
\* reaper never picks a task that is still on its stack
\* (reap_deferred_exited_tasks against the last switch of the exiting task).
\* Excepted is a task that was killed and exited while _clone had yet to store
\* Ready: that store over Zombie makes it runnable on the released stack.
ReapedStackUnused ==
  \A t \in Tasks \ undead, c \in Cpus :
    pc[c] \in StackPcs /\ arg[c] = t
      => t \notin released /\ \A d \in Cpus : ~(pc[d] = "reap" /\ arg[d] = t)

\* The fork that creates t has yet to store Ready.
Nascent(t) == \E a \in Agents : pc[a] = "start" /\ arg[a] = t

\* While a task stays group-stopped no step makes it runnable once it is
\* asleep off every CPU: a wakeup is only remembered until SIGCONT
\* (wakeup_task's group_stopped branch).  Excepted is a task that is stopped
\* while _clone has yet to store Ready, which ends the sleep and not the stop.
StopHolds ==
  [][\A t \in Tasks :
       /\ groupStopped[t] /\ groupStopped'[t]
       /\ status[t] \in {"Blocked", "Sleep"} /\ onCpu[t] = NoCpu
       /\ ~Nascent(t)
       => status'[t] = status[t]]_vars

-----------------------------------------------------------------------------
(* Liveness *)

\* Every runnable task is run: through wakeup, enqueue, claim and dispatch,
\* whatever the other contexts do to it, unless a race dropped it, a stop
\* took it or it exited.
ReadyRuns ==
  \A t \in Tasks :
    status[t] = "Ready"
      ~> status[t] \in {"Running", "Zombie"} \/ groupStopped[t] \/ t \in dropped

\* Every killed task exits, unless a race dropped it or it is group-stopped
\* (request_tasks_exit, block_current_and_run_next_impl, prepare_user_return).
KilledExits ==
  \A t \in Tasks :
    procZombie[t]
      ~> status[t] = "Zombie" \/ groupStopped[t] \/ t \in dropped

\* Every task handed to the reaper is released.
DeferredIsReleased == \A t \in Tasks : t \in deferred ~> t \in released

-----------------------------------------------------------------------------
(* What the code's comments and assertions say, and the code does not do *)

\* No call about t is under way.
Quiet(t) == \A x \in Agents : arg[x] # t

\* stop_process: only tasks that were already sleeping remain asleep across
\* SIGCONT.  A task that the stop itself took off its CPU is awake, or being
\* woken, once the process is continued.
ContinueResumes ==
  \A t \in Tasks :
    t \in parked /\ ~procStopped[t] /\ Quiet(t) => onCpu[t] # NoCpu

\* request_tasks_exit: a task that is not running is woken so that it exits
\* on its own stack; no killed task is left asleep once that call is over.
KilledWakesUp ==
  \A t \in Tasks :
    zombieFlag[t] /\ Quiet(t) /\ onCpu[t] = NoCpu
      => status[t] \notin {"Blocked", "Sleep"}

\* The assertion of release_exited_resources: the task is on no CPU and in no
\* run queue while its resources are released.
ReleaseAssertion == \A c \in Cpus : pc[c] = "reap" => Unowned(arg[c])

=============================================================================
