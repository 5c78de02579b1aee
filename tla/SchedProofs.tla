---------------------------- MODULE SchedProofs ----------------------------
(* Theorems about Sched for any tasks, harts, agents and calls: types,        *)
(* ownership of tasks and counts of queues; and that no runnable task is left *)
(* without an owner, and no wakeup or fatal signal is slept over.             *)
EXTENDS Sched, FiniteSetTheorems, TLAPS

USE DEF Actors, Statuses, EnqueuePcs, CpuPcs, AgentPcs, AllOps,
        TryMarkReadyQueued, TryClaimQueued, Leave, Continues

-----------------------------------------------------------------------------
(* Type correctness *)

\* A context that returns from its call leaves a well-formed control state.
LEMMA DoneCtl == ASSUME CtlOK, NEW x \in Actors, Done(x) PROVE CtlOK'
<1>1. CASE Continues(x)
  BY <1>1, SchedAssumption DEF CtlOK, Done
<1>2. CASE ~Continues(x)
  BY <1>2, SchedAssumption DEF CtlOK, Done
<1> QED BY <1>1, <1>2

\* So does one that goes on to a section that works on a task and on no queue.
LEMMA GotoCtl ==
  ASSUME CtlOK, NEW x \in Actors, NEW l, Goto(x, l),
         pc[x] \notin {"loop", "idle", "mark", "decr"},
         l \notin {"loop", "idle", "mark", "decr"},
         x \in Cpus => l \in CpuPcs,
         x \in Agents => l \in AgentPcs
  PROVE  CtlOK'
BY SchedAssumption DEF CtlOK, Goto

\* An idle agent that starts a call works on a task.
LEMMA EnterCtl ==
  ASSUME CtlOK, NEW a \in Agents, NEW t \in Tasks, NEW o, NEW l, Enter(a, t, o, l),
         l \in AgentPcs \ {"idle", "mark", "decr"}
  PROVE  CtlOK'
BY SchedAssumption DEF CtlOK, Enter

\* After a removal the agent is done, or wakes the task it kills.
LEMMA AfterRemoveCtl ==
  ASSUME CtlOK, NEW a \in Agents, AfterRemove(a), pc[a] \in {"remove", "decr"}
  PROVE  CtlOK'
<1>1. CASE op[a] = "kill"
  BY <1>1, SchedAssumption DEF CtlOK, AfterRemove
<1>2. CASE op[a] # "kill"
  BY <1>2, DoneCtl DEF AfterRemove
<1> QED BY <1>1, <1>2

\* The task and the run queue a context works on.
LEMMA ArgType ==
  ASSUME CtlOK, NEW x \in Actors
  PROVE  /\ pc[x] \notin {"loop", "idle"} => arg[x] \in Tasks
         /\ pc[x] \in {"mark", "decr"} => tgt[x] \in Cpus
BY DEF CtlOK

\* Initially every variable has its type.
LEMMA TypeInit == ASSUME Init PROVE TypeOK
BY SchedAssumption DEF Init, TypeOK, DataOK, CtlOK

\* Every step of every context keeps the types.
LEMMA TypeStep == ASSUME TypeOK, [Next]_vars PROVE TypeOK'
<1> USE SchedAssumption
<1> USE DEF TypeOK, tcb, proc, queue, exitq, ctl, hist
<1>1. ASSUME NEW a \in Agents, NEW t \in Tasks, ForkTask(a, t) PROVE TypeOK'
  <2>1. DataOK'
    BY <1>1, ArgType DEF ForkTask, DataOK
  <2>2. CtlOK'
    BY <1>1, EnterCtl DEF ForkTask
  <2> QED BY <2>1, <2>2
<1>f. ASSUME NEW a \in Agents, StartForked(a) PROVE TypeOK'
  <2>1. DataOK'
    BY <1>f, ArgType DEF StartForked, DataOK
  <2>2. CtlOK'
    BY <1>f, GotoCtl DEF StartForked
  <2> QED BY <2>1, <2>2
<1>d. ASSUME NEW a \in Agents, DeliverCont(a) PROVE TypeOK'
  <2>1. DataOK'
    BY <1>d DEF DeliverCont, DataOK
  <2>2. CtlOK'
    BY <1>d DEF DeliverCont, CtlOK
  <2> QED BY <2>1, <2>2
<1>2. ASSUME NEW x \in Actors, AddTaskToCpu(x) PROVE TypeOK'
  <2>1. DataOK'
    BY <1>2, ArgType DEF AddTaskToCpu, DataOK
  <2>2. CtlOK'
    BY <1>2, DoneCtl, GotoCtl DEF AddTaskToCpu
  <2> QED BY <2>1, <2>2
<1>3. ASSUME NEW x \in Actors, NEW c \in Cpus, EnqueueCheck(x, c) PROVE TypeOK'
  <2>1. DataOK'
    BY <1>3, ArgType DEF EnqueueCheck, DataOK
  <2>2. CtlOK'
    <3>1. CASE Unowned(arg[x])
      BY <1>3, <3>1 DEF EnqueueCheck, CtlOK
    <3>2. CASE ~Unowned(arg[x])
      BY <1>3, <3>2, DoneCtl DEF EnqueueCheck
    <3> QED BY <3>1, <3>2
  <2> QED BY <2>1, <2>2
<1>4. ASSUME NEW x \in Actors, EnqueueMark(x) PROVE TypeOK'
  <2>1. DataOK'
    BY <1>4, ArgType DEF EnqueueMark, DataOK
  <2>2. CtlOK'
    BY <1>4, DoneCtl DEF EnqueueMark
  <2> QED BY <2>1, <2>2
<1>5. ASSUME NEW a \in Agents, NEW t \in Tasks, WakeupTask(a, t) PROVE TypeOK'
  <2>1. CASE WakeZombie(a, t)
    <3>1. DataOK'
      BY <2>1 DEF WakeZombie, DataOK
    <3>2. CtlOK'
      BY <2>1, DoneCtl DEF WakeZombie
    <3> QED BY <3>1, <3>2
  <2>2. CASE WakeStopped(a, t)
    <3>1. DataOK'
      BY <2>2 DEF WakeStopped, DataOK
    <3>2. CtlOK'
      BY <2>2, DoneCtl DEF WakeStopped
    <3> QED BY <3>1, <3>2
  <2>3. CASE WakeOnCpu(a, t)
    <3>1. DataOK'
      <4>1. WakeRequeues(t) \in BOOLEAN
        BY DEF WakeRequeues
      <4> QED BY <2>3, <4>1 DEF WakeOnCpu, DataOK
    <3>2. CtlOK'
      BY <2>3, DoneCtl DEF WakeOnCpu
    <3> QED BY <3>1, <3>2
  <2>4. CASE WakeReady(a, t)
    <3>1. DataOK'
      BY <2>4 DEF WakeReady, DataOK
    <3>2. CtlOK'
      BY <2>4 DEF WakeReady, Waking, CtlOK
    <3> QED BY <3>1, <3>2
  <2>5. CASE WakeBlocked(a, t)
    <3>1. DataOK'
      BY <2>5 DEF WakeBlocked, DataOK
    <3>2. CtlOK'
      BY <2>5 DEF WakeBlocked, Waking, CtlOK
    <3> QED BY <3>1, <3>2
  <2> QED BY <1>5, <2>1, <2>2, <2>3, <2>4, <2>5 DEF WakeupTask
<1>6. ASSUME NEW a \in Agents, WakeRecheck(a) PROVE TypeOK'
  <2>1. DataOK'
    BY <1>6, ArgType DEF WakeRecheck, DataOK
  <2>2. CtlOK'
    BY <1>6, DoneCtl, GotoCtl DEF WakeRecheck
  <2> QED BY <2>1, <2>2
<1>7. ASSUME NEW a \in Agents, RemoveTask(a) PROVE TypeOK'
  <2>1. DataOK'
    BY <1>7, ArgType DEF RemoveTask, DataOK
  <2>2. CtlOK'
    <3>1. CASE queued[arg[a]] = NoCpu
      BY <1>7, <3>1, AfterRemoveCtl DEF RemoveTask
    <3>2. CASE queued[arg[a]] # NoCpu
      <4>1. arg[a] \in Tasks /\ pc[a] = "remove"
        BY <1>7, ArgType DEF RemoveTask
      <4>2. queued[arg[a]] \in Cpus
        BY <3>2, <4>1 DEF DataOK
      <4>3. /\ pc' = [pc EXCEPT ![a] = "decr"] /\ tgt' = [tgt EXCEPT ![a] = queued[arg[a]]]
            /\ arg' = arg /\ op' = op
        BY <1>7, <3>2 DEF RemoveTask
      <4> QED BY <4>1, <4>2, <4>3 DEF CtlOK
    <3> QED BY <3>1, <3>2
  <2> QED BY <2>1, <2>2
<1>8. ASSUME NEW a \in Agents, DecrementReadyTasks(a) PROVE TypeOK'
  <2>1. DataOK'
    BY <1>8, ArgType DEF DecrementReadyTasks, DataOK
  <2>2. CtlOK'
    BY <1>8, AfterRemoveCtl DEF DecrementReadyTasks
  <2> QED BY <2>1, <2>2
<1>9. ASSUME NEW a \in Agents, StopTask(a) PROVE TypeOK'
  <2>1. DataOK'
    <3>1. arg[a] \in Tasks
      BY <1>9, ArgType DEF StopTask
    <3>2. CASE status[arg[a]] = "Zombie"
      BY <1>9, <3>1, <3>2 DEF StopTask, DataOK
    <3>3. CASE status[arg[a]] # "Zombie"
      <4>1. status' \in [Tasks -> Statuses] /\ requeue' \in [Tasks -> BOOLEAN]
        BY <1>9, <3>1, <3>3 DEF StopTask, DataOK
      <4>2. groupStopped' \in [Tasks -> BOOLEAN]
        BY <1>9, <3>1, <3>3 DEF StopTask, DataOK
      <4>3. stopResume' \in [Tasks -> BOOLEAN]
        <5>1. CASE groupStopped[arg[a]]
          BY <1>9, <3>1, <3>3, <5>1 DEF StopTask, DataOK
        <5>2. CASE ~groupStopped[arg[a]]
          <6> DEFINE runnable == status[arg[a]] \in {"Ready", "Running"}
          <6>1. stopResume' = [stopResume EXCEPT ![arg[a]] = runnable]
            BY <1>9, <3>3, <5>2 DEF StopTask
          <6>2. runnable \in BOOLEAN
            OBVIOUS
          <6> HIDE DEF runnable
          <6> QED BY <6>1, <6>2, <3>1 DEF DataOK
        <5> QED BY <5>1, <5>2
      <4> QED BY <1>9, <4>1, <4>2, <4>3 DEF StopTask, DataOK
    <3> QED BY <3>2, <3>3
  <2>2. CtlOK'
    BY <1>9, DoneCtl, GotoCtl DEF StopTask
  <2> QED BY <2>1, <2>2
<1>10. ASSUME NEW a \in Agents, ContinueTask(a) PROVE TypeOK'
  <2>1. DataOK'
    BY <1>10, ArgType DEF ContinueTask, DataOK
  <2>2. CtlOK'
    BY <1>10, DoneCtl, GotoCtl DEF ContinueTask
  <2> QED BY <2>1, <2>2
<1>11. ASSUME NEW a \in Agents, RequestTaskExit(a) PROVE TypeOK'
  <2>1. DataOK'
    BY <1>11, ArgType DEF RequestTaskExit, DataOK
  <2>2. CtlOK'
    BY <1>11, DoneCtl, GotoCtl DEF RequestTaskExit
  <2> QED BY <2>1, <2>2
<1>12. ASSUME NEW a \in Agents, NEW t \in Tasks, StopProcess(a, t) PROVE TypeOK'
  <2>1. DataOK'
    BY <1>12, ArgType DEF StopProcess, DataOK
  <2>2. CtlOK'
    BY <1>12, EnterCtl DEF StopProcess
  <2> QED BY <2>1, <2>2
<1>13. ASSUME NEW a \in Agents, NEW t \in Tasks, ContinueProcess(a, t) PROVE TypeOK'
  <2>1. DataOK'
    BY <1>13, ArgType DEF ContinueProcess, DataOK
  <2>2. CtlOK'
    BY <1>13, EnterCtl DEF ContinueProcess
  <2> QED BY <2>1, <2>2
<1>14. ASSUME NEW a \in Agents, NEW t \in Tasks, FinishSignaledProcess(a, t) PROVE TypeOK'
  <2>1. DataOK'
    BY <1>14, ArgType DEF FinishSignaledProcess, DataOK
  <2>2. CtlOK'
    BY <1>14, EnterCtl DEF FinishSignaledProcess
  <2> QED BY <2>1, <2>2
<1>15. ASSUME NEW c \in Cpus, NEW t \in Tasks, ClaimTask(c, t) PROVE TypeOK'
  <2>1. DataOK'
    BY <1>15, ArgType DEF ClaimTask, DataOK
  <2>2. CtlOK'
    BY <1>15 DEF ClaimTask, CtlOK
  <2> QED BY <2>1, <2>2
<1>16. ASSUME NEW c \in Cpus, NEW t \in Tasks, ReapDeferred(c, t) PROVE TypeOK'
  <2>1. DataOK'
    BY <1>16, ArgType DEF ReapDeferred, Unowned, DataOK
  <2>2. CtlOK'
    BY <1>16 DEF ReapDeferred, Unowned, CtlOK
  <2> QED BY <2>1, <2>2
<1>17. ASSUME NEW c \in Cpus, DispatchTask(c) PROVE TypeOK'
  <2>1. DataOK'
    BY <1>17, ArgType DEF DispatchTask, DataOK
  <2>2. CtlOK'
    BY <1>17, GotoCtl DEF DispatchTask
  <2> QED BY <2>1, <2>2
<1>18. ASSUME NEW c \in Cpus, SkipTask(c) PROVE TypeOK'
  <2>1. DataOK'
    BY <1>18, ArgType DEF SkipTask, DataOK
  <2>2. CtlOK'
    BY <1>18, DoneCtl DEF SkipTask
  <2> QED BY <2>1, <2>2
<1>19. ASSUME NEW c \in Cpus, SwitchedOut(c) PROVE TypeOK'
  <2>1. DataOK'
    <3>1. arg[c] \in Tasks
      BY <1>19, ArgType DEF SwitchedOut
    <3>2. CASE requeue[arg[c]]
      BY <1>19, <3>1, <3>2 DEF SwitchedOut, DataOK
    <3>3. CASE ~requeue[arg[c]]
      BY <1>19, <3>1, <3>3 DEF SwitchedOut, DataOK
    <3> QED BY <3>2, <3>3
  <2>2. CtlOK'
    BY <1>19, DoneCtl, GotoCtl DEF SwitchedOut
  <2> QED BY <2>1, <2>2
<1>20. ASSUME NEW c \in Cpus, ReleaseExited(c) PROVE TypeOK'
  <2>1. DataOK'
    BY <1>20, ArgType DEF ReleaseExited, DataOK
  <2>2. CtlOK'
    BY <1>20, DoneCtl DEF ReleaseExited
  <2> QED BY <2>1, <2>2
<1>21. ASSUME NEW c \in Cpus, ScheduleStoppedTask(c) PROVE TypeOK'
  <2>1. DataOK'
    BY <1>21, ArgType DEF ScheduleStoppedTask, DataOK
  <2>2. CtlOK'
    BY <1>21, GotoCtl DEF ScheduleStoppedTask
  <2> QED BY <2>1, <2>2
<1>e. ASSUME NEW c \in Cpus, ExitProcess(c) PROVE TypeOK'
  <2>1. DataOK'
    BY <1>e, ArgType DEF ExitProcess, DataOK
  <2>2. CtlOK'
    BY <1>e, GotoCtl DEF ExitProcess
  <2> QED BY <2>1, <2>2
<1>22. ASSUME NEW c \in Cpus, DeferDrop(c) PROVE TypeOK'
  <2>1. DataOK'
    BY <1>22, ArgType DEF DeferDrop, DataOK
  <2>2. CtlOK'
    BY <1>22, GotoCtl DEF DeferDrop
  <2> QED BY <2>1, <2>2
<1>23. ASSUME NEW c \in Cpus, MarkSleep(c) PROVE TypeOK'
  <2>1. DataOK'
    BY <1>23, ArgType DEF MarkSleep, DataOK
  <2>2. CtlOK'
    BY <1>23, GotoCtl DEF MarkSleep
  <2> QED BY <2>1, <2>2
<1>24. ASSUME NEW c \in Cpus, BlockCancelledByExit(c) PROVE TypeOK'
  <2>1. DataOK'
    BY <1>24, ArgType DEF BlockCancelledByExit, DataOK
  <2>2. CtlOK'
    BY <1>24, GotoCtl DEF BlockCancelledByExit
  <2> QED BY <2>1, <2>2
<1>25. ASSUME NEW c \in Cpus, BlockCancelledByWakeup(c) PROVE TypeOK'
  <2>1. DataOK'
    BY <1>25, ArgType DEF BlockCancelledByWakeup, DataOK
  <2>2. CtlOK'
    BY <1>25, GotoCtl DEF BlockCancelledByWakeup
  <2> QED BY <2>1, <2>2
<1>26. ASSUME NEW c \in Cpus, BlockCurrent(c) PROVE TypeOK'
  <2>1. DataOK'
    BY <1>26, ArgType DEF BlockCurrent, DataOK
  <2>2. CtlOK'
    BY <1>26, GotoCtl DEF BlockCurrent
  <2> QED BY <2>1, <2>2
<1>27. ASSUME NEW c \in Cpus, SuspendCurrent(c) PROVE TypeOK'
  <2>1. DataOK'
    BY <1>27, ArgType DEF SuspendCurrent, DataOK
  <2>2. CtlOK'
    BY <1>27, GotoCtl DEF SuspendCurrent
  <2> QED BY <2>1, <2>2
<1>28. ASSUME NEW c \in Cpus, ObserveStopped(c) PROVE TypeOK'
  <2>1. DataOK'
    BY <1>28, ArgType DEF ObserveStopped, DataOK
  <2>2. CtlOK'
    BY <1>28, GotoCtl DEF ObserveStopped
  <2> QED BY <2>1, <2>2
<1>29. ASSUME NEW c \in Cpus, ExitCurrent(c) PROVE TypeOK'
  <2>1. DataOK'
    BY <1>29, ArgType DEF ExitCurrent, DataOK
  <2>2. CtlOK'
    BY <1>29, GotoCtl DEF ExitCurrent
  <2> QED BY <2>1, <2>2
<1>30. CASE UNCHANGED vars
  BY <1>30 DEF vars, DataOK, CtlOK
<1> QED
  BY <1>1, <1>d, <1>e, <1>f, <1>2, <1>3, <1>4, <1>5, <1>6, <1>7, <1>8, <1>9, <1>10, <1>11,
     <1>12, <1>13, <1>14, <1>15, <1>16, <1>17, <1>18, <1>19, <1>20, <1>21,
     <1>22, <1>23, <1>24, <1>25, <1>26, <1>27, <1>28, <1>29, <1>30
  DEF Next, AgentCall, AgentStep, LoopStep, TaskStep, EnqueueStep

\* Every variable keeps its type in every behaviour.
THEOREM TypeCorrect == Spec => []TypeOK
BY TypeInit, TypeStep, PTL DEF Spec

-----------------------------------------------------------------------------
(* Run queues and ownership *)

\* The steps that neither enqueue, remove nor claim leave every queue alone.
LEMMA QueueFrame ==
  ASSUME [Next]_vars
  PROVE  \/ \E x \in Actors : EnqueueMark(x)
         \/ \E a \in Agents : RemoveTask(a)
         \/ \E c \in Cpus, t \in Tasks : ClaimTask(c, t)
         \/ UNCHANGED <<queued, rq>>
<1> USE DEF tcb, proc, queue, exitq, hist
<1>1. ASSUME NEW a \in Agents, AgentCall(a) PROVE UNCHANGED <<queued, rq>>
  BY <1>1 DEF AgentCall, ForkTask, StopProcess, ContinueProcess, FinishSignaledProcess
<1>2. ASSUME NEW a \in Agents, NEW t \in Tasks, WakeupTask(a, t)
      PROVE  UNCHANGED <<queued, rq>>
  BY <1>2 DEF WakeupTask, WakeZombie, WakeStopped, WakeOnCpu, WakeReady, WakeBlocked
<1>3. ASSUME NEW a \in Agents, AgentStep(a)
      PROVE  EnqueueMark(a) \/ RemoveTask(a) \/ UNCHANGED <<queued, rq>>
  BY <1>3 DEF AgentStep, StartForked, EnqueueStep, AddTaskToCpu, EnqueueCheck, WakeRecheck,
              DecrementReadyTasks, StopTask, ContinueTask, DeliverCont, RequestTaskExit
<1>4. ASSUME NEW c \in Cpus, LoopStep(c)
      PROVE  EnqueueMark(c) \/ (\E t \in Tasks : ClaimTask(c, t)) \/ UNCHANGED <<queued, rq>>
  BY <1>4 DEF LoopStep, EnqueueStep, AddTaskToCpu, EnqueueCheck, ReapDeferred,
              DispatchTask, SkipTask, SwitchedOut, ReleaseExited,
              ScheduleStoppedTask, ExitProcess, DeferDrop
<1>5. ASSUME NEW c \in Cpus, TaskStep(c) PROVE UNCHANGED <<queued, rq>>
  BY <1>5 DEF TaskStep, MarkSleep, BlockCancelledByExit, BlockCancelledByWakeup,
              BlockCurrent, SuspendCurrent, ObserveStopped, ExitCurrent
<1>6. CASE UNCHANGED vars
  BY <1>6 DEF vars
<1> QED BY <1>1, <1>2, <1>3, <1>4, <1>5, <1>6 DEF Next

\* The marker and the entry move together in every step.
LEMMA QueueStepKeeps ==
  ASSUME TypeOK, QueueMarker, [Next]_vars PROVE QueueMarker'
<1> USE SchedAssumption DEF TypeOK, DataOK
<1>1. ASSUME NEW x \in Actors, EnqueueMark(x) PROVE QueueMarker'
  <2>1. arg[x] \in Tasks /\ tgt[x] \in Cpus
    BY <1>1, ArgType DEF EnqueueMark
  <2>2. CASE queued[arg[x]] = NoCpu
    BY <1>1, <2>1, <2>2 DEF EnqueueMark, QueueMarker
  <2>3. CASE queued[arg[x]] # NoCpu
    BY <1>1, <2>3 DEF EnqueueMark, QueueMarker, queue
  <2> QED BY <2>2, <2>3
<1>2. ASSUME NEW a \in Agents, RemoveTask(a) PROVE QueueMarker'
  <2>1. arg[a] \in Tasks
    BY <1>2, ArgType DEF RemoveTask
  <2>2. CASE queued[arg[a]] = NoCpu
    BY <1>2, <2>2 DEF RemoveTask, QueueMarker
  <2>3. CASE queued[arg[a]] # NoCpu
    BY <1>2, <2>1, <2>3 DEF RemoveTask, QueueMarker
  <2> QED BY <2>2, <2>3
<1>3. ASSUME NEW c \in Cpus, NEW t \in Tasks, ClaimTask(c, t) PROVE QueueMarker'
  BY <1>3 DEF ClaimTask, QueueMarker
<1>4. CASE UNCHANGED <<queued, rq>>
  BY <1>4 DEF QueueMarker
<1> QED BY <1>1, <1>2, <1>3, <1>4, QueueFrame

\* The ready_queued marker names the one run queue that holds the task.
THEOREM MarkerNamesQueue == Spec => []QueueMarker
<1>1. Init => QueueMarker
  BY SchedAssumption DEF Init, QueueMarker
<1>2. TypeOK /\ QueueMarker /\ [Next]_vars => QueueMarker'
  BY QueueStepKeeps
<1> QED BY <1>1, <1>2, TypeCorrect, PTL DEF Spec

\* No step of an agent moves a hart, its claim or the reaper, none makes a
\* zombie or puts a task to sleep, and only a fork brings a zombie back.
AgentFrame ==
  /\ UNCHANGED <<onCpu, deferred, released>>
  /\ undead \subseteq undead'
  /\ \A c \in Cpus : pc'[c] = pc[c] /\ arg'[c] = arg[c]
  /\ \A t \in Tasks : status'[t] = "Zombie" => status[t] = "Zombie"
  /\ \A t \in Tasks \ undead' : status[t] = "Zombie" => status'[t] = "Zombie"
  /\ \A t \in Tasks : status'[t] = "Sleep" => status[t] = "Sleep"

\* An agent's control state is no hart's.
LEMMA AgentMovesItself ==
  ASSUME CtlOK, NEW a \in Agents,
         \/ Done(a)
         \/ \E l \in AgentPcs : Goto(a, l)
         \/ \E t \in Tasks, o \in AllOps, l \in AgentPcs : Enter(a, t, o, l)
         \/ AfterRemove(a)
  PROVE  \A c \in Cpus : pc'[c] = pc[c] /\ arg'[c] = arg[c]
<1> USE SchedAssumption DEF CtlOK
<1>1. CASE Done(a)
  <2>1. CASE Continues(a)
    BY <1>1, <2>1 DEF Done
  <2>2. CASE ~Continues(a)
    BY <1>1, <2>2 DEF Done
  <2> QED BY <2>1, <2>2
<1>2. CASE \E l \in AgentPcs : Goto(a, l)
  BY <1>2 DEF Goto
<1>3. CASE \E t \in Tasks, o \in AllOps, l \in AgentPcs : Enter(a, t, o, l)
  BY <1>3 DEF Enter
<1>4. CASE AfterRemove(a)
  BY <1>1, <1>4 DEF AfterRemove
<1> QED BY <1>1, <1>2, <1>3, <1>4

\* Agents frame the harts in each of their steps.
LEMMA AgentFrames ==
  ASSUME TypeOK, NEW a \in Agents,
         \/ AgentCall(a)
         \/ AgentStep(a)
         \/ \E t \in Tasks : WakeupTask(a, t)
  PROVE  AgentFrame
<1> USE SchedAssumption DEF TypeOK, tcb, proc, queue, exitq, hist, AgentFrame
<1>1. ASSUME NEW t \in Tasks, ForkTask(a, t) PROVE AgentFrame
  <2>1. \A c \in Cpus : pc'[c] = pc[c] /\ arg'[c] = arg[c]
    BY <1>1, AgentMovesItself DEF ForkTask
  <2> QED BY <1>1, <2>1 DEF ForkTask, DataOK
<1>2. ASSUME NEW t \in Tasks, StopProcess(a, t) PROVE AgentFrame
  <2>1. \A c \in Cpus : pc'[c] = pc[c] /\ arg'[c] = arg[c]
    BY <1>2, AgentMovesItself DEF StopProcess
  <2> QED BY <1>2, <2>1 DEF StopProcess, DataOK
<1>3. ASSUME NEW t \in Tasks, ContinueProcess(a, t) PROVE AgentFrame
  <2>1. \A c \in Cpus : pc'[c] = pc[c] /\ arg'[c] = arg[c]
    BY <1>3, AgentMovesItself DEF ContinueProcess
  <2> QED BY <1>3, <2>1 DEF ContinueProcess, DataOK
<1>4. ASSUME NEW t \in Tasks, FinishSignaledProcess(a, t) PROVE AgentFrame
  <2>1. \A c \in Cpus : pc'[c] = pc[c] /\ arg'[c] = arg[c]
    BY <1>4, AgentMovesItself DEF FinishSignaledProcess
  <2> QED BY <1>4, <2>1 DEF FinishSignaledProcess, DataOK
<1>5. ASSUME NEW t \in Tasks, WakeZombie(a, t) PROVE AgentFrame
  <2>1. \A c \in Cpus : pc'[c] = pc[c] /\ arg'[c] = arg[c]
    BY <1>5, AgentMovesItself DEF WakeZombie
  <2> QED BY <1>5, <2>1 DEF WakeZombie, DataOK
<1>6. ASSUME NEW t \in Tasks, WakeStopped(a, t) PROVE AgentFrame
  <2>1. \A c \in Cpus : pc'[c] = pc[c] /\ arg'[c] = arg[c]
    BY <1>6, AgentMovesItself DEF WakeStopped
  <2> QED BY <1>6, <2>1 DEF WakeStopped, DataOK
<1>7. ASSUME NEW t \in Tasks, WakeOnCpu(a, t) PROVE AgentFrame
  <2>1. \A c \in Cpus : pc'[c] = pc[c] /\ arg'[c] = arg[c]
    BY <1>7, AgentMovesItself DEF WakeOnCpu
  <2> QED BY <1>7, <2>1 DEF WakeOnCpu, DataOK
<1>8. ASSUME NEW t \in Tasks, WakeReady(a, t) PROVE AgentFrame
  BY <1>8 DEF WakeReady, CtlOK, DataOK
<1>9. ASSUME NEW t \in Tasks, WakeBlocked(a, t) PROVE AgentFrame
  BY <1>9 DEF WakeBlocked, WakesSleeper, CtlOK, DataOK
<1>10. ASSUME AddTaskToCpu(a) PROVE AgentFrame
  <2>1. \A c \in Cpus : pc'[c] = pc[c] /\ arg'[c] = arg[c]
    BY <1>10, AgentMovesItself DEF AddTaskToCpu
  <2> QED BY <1>10, <2>1 DEF AddTaskToCpu, DataOK
<1>11. ASSUME EnqueueMark(a) PROVE AgentFrame
  <2>1. \A c \in Cpus : pc'[c] = pc[c] /\ arg'[c] = arg[c]
    BY <1>11, AgentMovesItself DEF EnqueueMark
  <2> QED BY <1>11, <2>1 DEF EnqueueMark, DataOK
<1>12. ASSUME WakeRecheck(a) PROVE AgentFrame
  <2>1. \A c \in Cpus : pc'[c] = pc[c] /\ arg'[c] = arg[c]
    BY <1>12, AgentMovesItself DEF WakeRecheck
  <2> QED BY <1>12, <2>1 DEF WakeRecheck, DataOK
<1>13. ASSUME DecrementReadyTasks(a) PROVE AgentFrame
  <2>1. \A c \in Cpus : pc'[c] = pc[c] /\ arg'[c] = arg[c]
    BY <1>13, AgentMovesItself DEF DecrementReadyTasks
  <2> QED BY <1>13, <2>1 DEF DecrementReadyTasks, DataOK
<1>14. ASSUME StopTask(a) PROVE AgentFrame
  <2>1. \A c \in Cpus : pc'[c] = pc[c] /\ arg'[c] = arg[c]
    BY <1>14, AgentMovesItself DEF StopTask
  <2> QED BY <1>14, <2>1, ArgType DEF StopTask, DataOK
<1>15. ASSUME ContinueTask(a) PROVE AgentFrame
  <2>1. \A c \in Cpus : pc'[c] = pc[c] /\ arg'[c] = arg[c]
    BY <1>15, AgentMovesItself DEF ContinueTask
  <2> QED BY <1>15, <2>1 DEF ContinueTask, DataOK
<1>16. ASSUME RequestTaskExit(a) PROVE AgentFrame
  <2>1. \A c \in Cpus : pc'[c] = pc[c] /\ arg'[c] = arg[c]
    BY <1>16, AgentMovesItself DEF RequestTaskExit
  <2> QED BY <1>16, <2>1 DEF RequestTaskExit, DataOK
<1>17. ASSUME NEW c \in Cpus, EnqueueCheck(a, c) PROVE AgentFrame
  <2>1. \A d \in Cpus : pc'[d] = pc[d] /\ arg'[d] = arg[d]
    BY <1>17, AgentMovesItself DEF EnqueueCheck, CtlOK
  <2> QED BY <1>17, <2>1 DEF EnqueueCheck
<1>18. ASSUME RemoveTask(a) PROVE AgentFrame
  <2>1. \A c \in Cpus : pc'[c] = pc[c] /\ arg'[c] = arg[c]
    <3>1. CASE queued[arg[a]] = NoCpu
      BY <1>18, <3>1, AgentMovesItself DEF RemoveTask
    <3>2. CASE queued[arg[a]] # NoCpu
      BY <1>18, <3>2 DEF RemoveTask, CtlOK
    <3> QED BY <3>1, <3>2
  <2> QED BY <1>18, <2>1 DEF RemoveTask
<1>19. ASSUME StartForked(a) PROVE AgentFrame
  <2>1. \A c \in Cpus : pc'[c] = pc[c] /\ arg'[c] = arg[c]
    BY <1>19, AgentMovesItself DEF StartForked
  <2>2. arg[a] \in Tasks
    BY <1>19, ArgType DEF StartForked
  <2> QED BY <1>19, <2>1, <2>2 DEF StartForked, DataOK
<1>20. ASSUME DeliverCont(a) PROVE AgentFrame
  BY <1>20 DEF DeliverCont, CtlOK
<1> QED BY <1>19, <1>20, <1>1, <1>2, <1>3, <1>4, <1>5, <1>6, <1>7, <1>8, <1>9, <1>10, <1>11,
           <1>12, <1>13, <1>14, <1>15, <1>16, <1>17, <1>18
  DEF AgentCall, AgentStep, WakeupTask, EnqueueStep

\* A hart that has finished is back in the idle loop, and no other hart moves.
LEMMA HartDone ==
  ASSUME CtlOK, NEW c \in Cpus, Done(c)
  PROVE  /\ pc'[c] = "loop"
         /\ \A d \in Cpus \ {c} : pc'[d] = pc[d] /\ arg'[d] = arg[d]
BY SchedAssumption DEF CtlOK, Done

\* A hart that goes on keeps its task, and no other hart moves.
LEMMA HartGoto ==
  ASSUME CtlOK, NEW c \in Cpus, NEW l, Goto(c, l)
  PROVE  /\ pc'[c] = l /\ arg'[c] = arg[c]
         /\ \A d \in Cpus \ {c} : pc'[d] = pc[d] /\ arg'[d] = arg[d]
BY DEF CtlOK, Goto

\* The invariant behind ReapedStackUnused: what the reaper holds, waits for or
\* has released is a zombie, unless a fork brought it back, a task is a zombie
\* on its own stack only after it has begun to exit, and a claim is never
\* shared.
StackInv ==
  /\ \A t \in (deferred \cup released) \ undead : status[t] = "Zombie"
  /\ \A c \in Cpus : pc[c] \in {"reap", "exiting", "detach"}
                      => status[arg[c]] = "Zombie" \/ arg[c] \in undead
  /\ \A c \in Cpus : pc[c] \in {"run", "sleeping", "stopping"} => status[arg[c]] # "Zombie"

OwnerInv == SingleOwner /\ StackInv /\ ReapedStackUnused

\* A hart that comes to none of these places from elsewhere, and neither makes
\* a zombie nor brings one back, keeps StackInv.
LEMMA StackInvKept ==
  ASSUME TypeOK, StackInv, UNCHANGED <<deferred, released, undead>>, NEW c \in Cpus,
         \A t \in Tasks : status'[t] = "Zombie" <=> status[t] = "Zombie",
         pc'[c] \notin {"reap", "exiting", "detach", "run", "sleeping", "stopping"},
         \A d \in Cpus \ {c} : pc'[d] = pc[d] /\ arg'[d] = arg[d]
  PROVE  StackInv'
<1>1. \A t \in (deferred \cup released) \ undead : status'[t] = "Zombie"
  BY DEF StackInv, TypeOK, DataOK
<1>2. \A d \in Cpus : pc[d] # "loop" => arg[d] \in Tasks
  BY ArgType DEF TypeOK, CtlOK
<1> QED BY <1>1, <1>2 DEF StackInv

\* A hart that does not come to the reaper, and comes to a task's stack only
\* from the same stack, keeps off the released ones.
LEMMA MoveKeepsStack ==
  ASSUME CtlOK, ReapedStackUnused, NEW c \in Cpus, UNCHANGED <<released, undead>>,
         \/ Done(c)
         \/ \E l \in CpuPcs \ {"reap"} :
              Goto(c, l) /\ (l \in StackPcs => pc[c] \in StackPcs)
  PROVE  ReapedStackUnused'
<1>1. CASE Done(c)
  BY <1>1, HartDone DEF ReapedStackUnused, StackPcs
<1>2. CASE \E l \in CpuPcs \ {"reap"} :
             Goto(c, l) /\ (l \in StackPcs => pc[c] \in StackPcs)
  BY <1>2, HartGoto DEF ReapedStackUnused
<1> QED BY <1>1, <1>2

\* Every step keeps the three together.
LEMMA OwnerStep == ASSUME TypeOK, OwnerInv, [Next]_vars PROVE OwnerInv'
<1> USE SchedAssumption DEF OwnerPcs, StackPcs
<1>1. CASE AgentFrame
  <2>1. SingleOwner'
    BY <1>1 DEF OwnerInv, SingleOwner, AgentFrame
  <2>2. StackInv'
    BY <1>1, ArgType DEF OwnerInv, StackInv, AgentFrame, TypeOK, DataOK
  <2>3. ReapedStackUnused'
    BY <1>1 DEF OwnerInv, ReapedStackUnused, AgentFrame
  <2> QED BY <2>1, <2>2, <2>3 DEF OwnerInv
<1> USE DEF tcb, proc, queue, exitq, hist
<1>2. ASSUME NEW c \in Cpus, AddTaskToCpu(c) PROVE OwnerInv'
  <2>1. SingleOwner'
    BY <1>2, HartDone, HartGoto, ArgType
       DEF AddTaskToCpu, OwnerInv, SingleOwner, TypeOK, DataOK, CtlOK
  <2>2. StackInv'
    BY <1>2, HartDone, HartGoto, ArgType
       DEF AddTaskToCpu, OwnerInv, SingleOwner, StackInv, TypeOK, DataOK, CtlOK
  <2>3. ReapedStackUnused'
    BY <1>2, MoveKeepsStack DEF AddTaskToCpu, OwnerInv, TypeOK
  <2> QED BY <2>1, <2>2, <2>3 DEF OwnerInv
<1>3. ASSUME NEW c \in Cpus, EnqueueMark(c) PROVE OwnerInv'
  <2>1. SingleOwner'
    BY <1>3, HartDone, HartGoto, ArgType
       DEF EnqueueMark, OwnerInv, SingleOwner, TypeOK, DataOK, CtlOK
  <2>2. StackInv'
    BY <1>3, HartDone, StackInvKept DEF EnqueueMark, OwnerInv, TypeOK
  <2>3. ReapedStackUnused'
    BY <1>3, MoveKeepsStack DEF EnqueueMark, OwnerInv, TypeOK
  <2> QED BY <2>1, <2>2, <2>3 DEF OwnerInv
<1>4. ASSUME NEW c \in Cpus, NEW d \in Cpus, EnqueueCheck(c, d) PROVE OwnerInv'
  <2>1. SingleOwner'
    BY <1>4, HartDone, HartGoto, ArgType
       DEF EnqueueCheck, OwnerInv, SingleOwner, TypeOK, DataOK, CtlOK
  <2>2. StackInv'
    BY <1>4, HartDone, HartGoto, ArgType
       DEF EnqueueCheck, OwnerInv, SingleOwner, StackInv, TypeOK, DataOK, CtlOK
  <2>3. ReapedStackUnused'
    BY <1>4, HartDone, HartGoto, ArgType
       DEF EnqueueCheck, OwnerInv, SingleOwner, StackInv, ReapedStackUnused, TypeOK, DataOK,
           CtlOK
  <2> QED BY <2>1, <2>2, <2>3 DEF OwnerInv
<1>5. ASSUME NEW c \in Cpus, NEW t \in Tasks, ClaimTask(c, t) PROVE OwnerInv'
  <2>1. SingleOwner'
    BY <1>5, HartDone, HartGoto, ArgType
       DEF ClaimTask, OwnerInv, SingleOwner, TypeOK, DataOK, CtlOK
  <2>2. StackInv'
    BY <1>5, HartDone, HartGoto, ArgType
       DEF ClaimTask, OwnerInv, SingleOwner, StackInv, TypeOK, DataOK, CtlOK
  <2>3. ReapedStackUnused'
    BY <1>5, HartDone, HartGoto, ArgType
       DEF ClaimTask, OwnerInv, SingleOwner, StackInv, ReapedStackUnused, TypeOK, DataOK,
           CtlOK
  <2> QED BY <2>1, <2>2, <2>3 DEF OwnerInv
<1>6. ASSUME NEW c \in Cpus, NEW t \in Tasks, ReapDeferred(c, t) PROVE OwnerInv'
  <2>1. SingleOwner'
    BY <1>6, HartDone, HartGoto, ArgType
       DEF ReapDeferred, Unowned, OwnerInv, SingleOwner, TypeOK, DataOK, CtlOK
  <2>2. StackInv'
    BY <1>6, HartDone, HartGoto, ArgType
       DEF ReapDeferred, Unowned, OwnerInv, SingleOwner, StackInv, TypeOK, DataOK, CtlOK
  <2>3. ReapedStackUnused'
    BY <1>6, HartDone, HartGoto, ArgType
       DEF ReapDeferred, Unowned, OwnerInv, SingleOwner, StackInv, ReapedStackUnused,
           TypeOK, DataOK, CtlOK
  <2> QED BY <2>1, <2>2, <2>3 DEF OwnerInv
<1>7. ASSUME NEW c \in Cpus, DispatchTask(c) PROVE OwnerInv'
  <2>1. SingleOwner'
    BY <1>7, HartDone, HartGoto, ArgType
       DEF DispatchTask, OwnerInv, SingleOwner, TypeOK, DataOK, CtlOK
  <2>2. StackInv'
    <3>1. arg[c] \in Tasks
      BY <1>7, ArgType DEF DispatchTask, TypeOK
    <3>2. \A t \in Tasks : status'[t] = "Zombie" <=> status[t] = "Zombie"
      BY <1>7, <3>1 DEF DispatchTask, TypeOK, DataOK
    <3>3. \A d \in Cpus : pc'[d] \in {"reap", "exiting", "detach", "run", "sleeping", "stopping"}
                            => /\ arg'[d] = arg[d] /\ arg[d] \in Tasks
                               /\ pc'[d] = pc[d] \/ (d = c /\ pc'[c] = "run" /\ status[arg[c]] = "Ready")
      BY <1>7, HartGoto, ArgType DEF DispatchTask, TypeOK
    <3> QED BY <1>7, <3>2, <3>3 DEF DispatchTask, OwnerInv, StackInv, TypeOK, DataOK
  <2>3. ReapedStackUnused'
    <3>1. released' = released /\ undead' = undead
      BY <1>7 DEF DispatchTask
    <3>2. /\ arg'[c] = arg[c] /\ pc'[c] \in {"run", "skip"}
          /\ \A d \in Cpus \ {c} : pc'[d] = pc[d] /\ arg'[d] = arg[d]
      BY <1>7, HartGoto DEF DispatchTask, TypeOK
    <3>3. pc'[c] = "run" => status[arg[c]] = "Ready"
      BY <1>7, HartGoto DEF DispatchTask, TypeOK
    <3>4. pc'[c] = "run" /\ arg[c] \notin undead =>
            /\ arg[c] \notin released
            /\ \A d \in Cpus : ~(pc[d] = "reap" /\ arg[d] = arg[c])
      BY <3>3 DEF OwnerInv, StackInv
    <3> QED BY <3>1, <3>2, <3>4 DEF OwnerInv, ReapedStackUnused, StackPcs
  <2> QED BY <2>1, <2>2, <2>3 DEF OwnerInv
<1>8. ASSUME NEW c \in Cpus, SkipTask(c) PROVE OwnerInv'
  <2>1. SingleOwner'
    BY <1>8, HartDone, HartGoto, ArgType
       DEF SkipTask, OwnerInv, SingleOwner, TypeOK, DataOK, CtlOK
  <2>2. StackInv'
    BY <1>8, HartDone, StackInvKept DEF SkipTask, OwnerInv, TypeOK
  <2>3. ReapedStackUnused'
    BY <1>8, MoveKeepsStack DEF SkipTask, OwnerInv, TypeOK
  <2> QED BY <2>1, <2>2, <2>3 DEF OwnerInv
<1>9. ASSUME NEW c \in Cpus, SwitchedOut(c) PROVE OwnerInv'
  <2>1. SingleOwner'
    BY <1>9, HartDone, HartGoto, ArgType
       DEF SwitchedOut, OwnerInv, SingleOwner, TypeOK, DataOK, CtlOK
  <2>2. StackInv'
    <3>1. arg[c] \in Tasks
      BY <1>9, ArgType DEF SwitchedOut, TypeOK
    <3>2. \A t \in Tasks : status'[t] = "Zombie" <=> status[t] = "Zombie"
      BY <1>9, <3>1 DEF SwitchedOut, TypeOK, DataOK
    <3>3. \A d \in Cpus : pc'[d] \in {"reap", "exiting", "detach", "run", "sleeping", "stopping"}
                            => pc'[d] = pc[d] /\ arg'[d] = arg[d] /\ arg[d] \in Tasks
      BY <1>9, HartDone, HartGoto, ArgType DEF SwitchedOut, TypeOK
    <3> QED BY <1>9, <3>2, <3>3 DEF SwitchedOut, OwnerInv, StackInv, TypeOK, DataOK
  <2>3. ReapedStackUnused'
    BY <1>9, MoveKeepsStack DEF SwitchedOut, OwnerInv, TypeOK
  <2> QED BY <2>1, <2>2, <2>3 DEF OwnerInv
<1>10. ASSUME NEW c \in Cpus, ReleaseExited(c) PROVE OwnerInv'
  <2>1. SingleOwner'
    BY <1>10, HartDone, HartGoto, ArgType
       DEF ReleaseExited, OwnerInv, SingleOwner, TypeOK, DataOK, CtlOK
  <2>2. StackInv'
    <3>1. pc[c] = "reap" /\ (status[arg[c]] = "Zombie" \/ arg[c] \in undead)
      BY <1>10 DEF ReleaseExited, OwnerInv, StackInv
    <3>2. /\ status' = status /\ deferred' = deferred /\ released' = released \cup {arg[c]}
          /\ undead' = undead
      BY <1>10 DEF ReleaseExited
    <3> QED BY <1>10, <3>1, <3>2, HartDone DEF ReleaseExited, OwnerInv, StackInv, TypeOK
  <2>3. ReapedStackUnused'
    BY <1>10, HartDone, HartGoto, ArgType
       DEF ReleaseExited, OwnerInv, SingleOwner, StackInv, ReapedStackUnused, TypeOK,
           DataOK, CtlOK
  <2> QED BY <2>1, <2>2, <2>3 DEF OwnerInv
<1>11. ASSUME NEW c \in Cpus, ScheduleStoppedTask(c) PROVE OwnerInv'
  <2>1. SingleOwner'
    BY <1>11, HartDone, HartGoto, ArgType
       DEF ScheduleStoppedTask, OwnerInv, SingleOwner, TypeOK, DataOK, CtlOK
  <2>2. StackInv'
    BY <1>11, HartDone, HartGoto, ArgType
       DEF ScheduleStoppedTask, OwnerInv, SingleOwner, StackInv, TypeOK, DataOK, CtlOK
  <2>3. ReapedStackUnused'
    BY <1>11, MoveKeepsStack DEF ScheduleStoppedTask, OwnerInv, TypeOK
  <2> QED BY <2>1, <2>2, <2>3 DEF OwnerInv
<1>e. ASSUME NEW c \in Cpus, ExitProcess(c) PROVE OwnerInv'
  <2>1. SingleOwner'
    BY <1>e, HartDone, HartGoto, ArgType
       DEF ExitProcess, OwnerInv, SingleOwner, TypeOK, DataOK, CtlOK
  <2>2. StackInv'
    <3>1. \A d \in Cpus : pc'[d] # pc[d] => d = c /\ pc[c] = "exiting" /\ pc'[c] = "detach"
      BY <1>e, HartGoto DEF ExitProcess, TypeOK
    <3>2. /\ arg' = arg /\ status' = status /\ released' = released /\ deferred' = deferred
          /\ undead' = undead
      BY <1>e DEF ExitProcess, Goto
    <3>3. \A d \in Cpus : pc'[d] \in {"reap", "exiting", "detach"}
                         => pc[d] \in {"reap", "exiting", "detach"}
      BY <3>1
    <3>4. \A d \in Cpus : pc'[d] \in {"run", "sleeping", "stopping"} => pc'[d] = pc[d]
      BY <3>1
    <3> QED BY <3>2, <3>3, <3>4 DEF OwnerInv, StackInv
  <2>3. ReapedStackUnused'
    BY <1>e, MoveKeepsStack DEF ExitProcess, OwnerInv, TypeOK
  <2> QED BY <2>1, <2>2, <2>3 DEF OwnerInv
<1>12. ASSUME NEW c \in Cpus, DeferDrop(c) PROVE OwnerInv'
  <2>1. SingleOwner'
    BY <1>12, HartDone, HartGoto, ArgType
       DEF DeferDrop, OwnerInv, SingleOwner, TypeOK, DataOK, CtlOK
  <2>2. StackInv'
    BY <1>12, HartDone, HartGoto, ArgType
       DEF DeferDrop, OwnerInv, SingleOwner, StackInv, TypeOK, DataOK, CtlOK
  <2>3. ReapedStackUnused'
    BY <1>12, MoveKeepsStack DEF DeferDrop, OwnerInv, TypeOK
  <2> QED BY <2>1, <2>2, <2>3 DEF OwnerInv
<1>13. ASSUME NEW c \in Cpus, MarkSleep(c) PROVE OwnerInv'
  <2>1. SingleOwner'
    BY <1>13, HartDone, HartGoto, ArgType
       DEF MarkSleep, OwnerInv, SingleOwner, TypeOK, DataOK, CtlOK
  <2>2. StackInv'
    BY <1>13, HartDone, HartGoto, ArgType
       DEF MarkSleep, OwnerInv, SingleOwner, StackInv, TypeOK, DataOK, CtlOK
  <2>3. ReapedStackUnused'
    BY <1>13, MoveKeepsStack DEF MarkSleep, OwnerInv, TypeOK
  <2> QED BY <2>1, <2>2, <2>3 DEF OwnerInv
<1>14. ASSUME NEW c \in Cpus, BlockCancelledByExit(c) PROVE OwnerInv'
  <2>1. SingleOwner'
    BY <1>14, HartDone, HartGoto, ArgType
       DEF BlockCancelledByExit, OwnerInv, SingleOwner, TypeOK, DataOK, CtlOK
  <2>2. StackInv'
    BY <1>14, HartDone, HartGoto, ArgType
       DEF BlockCancelledByExit, OwnerInv, SingleOwner, StackInv, TypeOK, DataOK, CtlOK
  <2>3. ReapedStackUnused'
    BY <1>14, MoveKeepsStack DEF BlockCancelledByExit, OwnerInv, TypeOK
  <2> QED BY <2>1, <2>2, <2>3 DEF OwnerInv
<1>15. ASSUME NEW c \in Cpus, BlockCancelledByWakeup(c) PROVE OwnerInv'
  <2>1. SingleOwner'
    BY <1>15, HartDone, HartGoto, ArgType
       DEF BlockCancelledByWakeup, OwnerInv, SingleOwner, TypeOK, DataOK, CtlOK
  <2>2. StackInv'
    BY <1>15, HartDone, HartGoto, ArgType
       DEF BlockCancelledByWakeup, OwnerInv, SingleOwner, StackInv, TypeOK, DataOK, CtlOK
  <2>3. ReapedStackUnused'
    BY <1>15, MoveKeepsStack DEF BlockCancelledByWakeup, OwnerInv, TypeOK
  <2> QED BY <2>1, <2>2, <2>3 DEF OwnerInv
<1>16. ASSUME NEW c \in Cpus, BlockCurrent(c) PROVE OwnerInv'
  <2>1. SingleOwner'
    BY <1>16, HartDone, HartGoto, ArgType
       DEF BlockCurrent, OwnerInv, SingleOwner, TypeOK, DataOK, CtlOK
  <2>2. StackInv'
    BY <1>16, HartDone, HartGoto, ArgType
       DEF BlockCurrent, OwnerInv, SingleOwner, StackInv, TypeOK, DataOK, CtlOK
  <2>3. ReapedStackUnused'
    BY <1>16, MoveKeepsStack DEF BlockCurrent, OwnerInv, TypeOK
  <2> QED BY <2>1, <2>2, <2>3 DEF OwnerInv
<1>17. ASSUME NEW c \in Cpus, SuspendCurrent(c) PROVE OwnerInv'
  <2>1. SingleOwner'
    BY <1>17, HartDone, HartGoto, ArgType
       DEF SuspendCurrent, OwnerInv, SingleOwner, TypeOK, DataOK, CtlOK
  <2>2. StackInv'
    <3>1. arg[c] \in Tasks /\ status[arg[c]] # "Zombie"
      BY <1>17, ArgType DEF SuspendCurrent, OwnerInv, StackInv, TypeOK
    <3>2. \A t \in Tasks : status'[t] = "Zombie" <=> status[t] = "Zombie"
      BY <1>17, <3>1 DEF SuspendCurrent, TypeOK, DataOK
    <3> QED BY <1>17, <3>2, HartGoto, StackInvKept DEF SuspendCurrent, OwnerInv, TypeOK
  <2>3. ReapedStackUnused'
    BY <1>17, MoveKeepsStack DEF SuspendCurrent, OwnerInv, TypeOK
  <2> QED BY <2>1, <2>2, <2>3 DEF OwnerInv
<1>18. ASSUME NEW c \in Cpus, ObserveStopped(c) PROVE OwnerInv'
  <2>1. SingleOwner'
    BY <1>18, HartDone, HartGoto, ArgType
       DEF ObserveStopped, OwnerInv, SingleOwner, TypeOK, DataOK, CtlOK
  <2>2. StackInv'
    <3>1. \A d \in Cpus : pc'[d] # pc[d] => d = c /\ pc[c] = "run" /\ pc'[c] = "stopping"
      BY <1>18, HartGoto DEF ObserveStopped, TypeOK
    <3>2. /\ arg' = arg /\ status' = status /\ released' = released /\ deferred' = deferred
          /\ undead' = undead
      BY <1>18 DEF ObserveStopped, Goto, tcb, exitq, hist
    <3>3. \A d \in Cpus : pc'[d] \in {"reap", "exiting", "detach"} => pc'[d] = pc[d]
      BY <3>1
    <3>4. \A d \in Cpus : pc'[d] \in {"run", "sleeping", "stopping"}
                         => pc[d] \in {"run", "sleeping", "stopping"}
      BY <3>1
    <3> QED BY <3>2, <3>3, <3>4 DEF OwnerInv, StackInv
  <2>3. ReapedStackUnused'
    BY <1>18, MoveKeepsStack DEF ObserveStopped, OwnerInv, TypeOK
  <2> QED BY <2>1, <2>2, <2>3 DEF OwnerInv
<1>19. ASSUME NEW c \in Cpus, ExitCurrent(c) PROVE OwnerInv'
  <2>1. SingleOwner'
    BY <1>19, HartDone, HartGoto, ArgType
       DEF ExitCurrent, OwnerInv, SingleOwner, TypeOK, DataOK, CtlOK
  <2>2. StackInv'
    <3>1. /\ arg[c] \in Tasks /\ pc[c] = "run" /\ pc'[c] = "exiting" /\ arg' = arg
          /\ \A d \in Cpus \ {c} : pc'[d] = pc[d]
      BY <1>19, HartGoto, ArgType DEF ExitCurrent, Goto, TypeOK
    <3>2. /\ status'[arg[c]] = "Zombie" /\ \A t \in Tasks \ {arg[c]} : status'[t] = status[t]
          /\ released' = released /\ deferred' = deferred /\ undead' = undead
      BY <1>19, <3>1 DEF ExitCurrent, TypeOK, DataOK
    <3>3. \A d \in Cpus \ {c} : pc[d] \in OwnerPcs => arg[d] \in Tasks /\ arg[d] # arg[c]
      BY <3>1, ArgType DEF OwnerInv, SingleOwner, OwnerPcs, TypeOK
    <3>4. \A t \in (deferred \cup released) \ undead : status'[t] = "Zombie"
      BY <3>2 DEF OwnerInv, StackInv, TypeOK, DataOK
    <3>5. \A d \in Cpus : pc'[d] \in {"reap", "exiting", "detach"}
                         => status'[arg[d]] = "Zombie" \/ arg[d] \in undead
      BY <3>1, <3>2, ArgType DEF OwnerInv, StackInv, TypeOK, CtlOK
    <3>6. \A d \in Cpus : pc'[d] \in {"run", "sleeping", "stopping"} => status'[arg[d]] # "Zombie"
      BY <3>1, <3>2, <3>3 DEF OwnerInv, StackInv, OwnerPcs
    <3> QED BY <3>1, <3>2, <3>4, <3>5, <3>6 DEF StackInv
  <2>3. ReapedStackUnused'
    BY <1>19, MoveKeepsStack DEF ExitCurrent, OwnerInv, TypeOK
  <2> QED BY <2>1, <2>2, <2>3 DEF OwnerInv
<1>20. CASE UNCHANGED vars
  BY <1>20 DEF vars, ctl, OwnerInv, SingleOwner, StackInv, ReapedStackUnused
<1> QED BY <1>1, <1>e, <1>2, <1>3, <1>4, <1>5, <1>6, <1>7, <1>8, <1>9, <1>10, <1>11, <1>12, <1>13,
           <1>14, <1>15, <1>16, <1>17, <1>18, <1>19, <1>20, AgentFrames
  DEF Next, LoopStep, TaskStep, EnqueueStep

\* At first no hart owns or runs anything and the reaper has nothing.
LEMMA OwnerInit == ASSUME Init PROVE OwnerInv
BY SchedAssumption
   DEF Init, OwnerInv, SingleOwner, StackInv, ReapedStackUnused, OwnerPcs, StackPcs

\* The two ownership properties and what they rest on hold in every behaviour.
LEMMA OwnerInvariant == Spec => []OwnerInv
BY OwnerInit, OwnerStep, TypeCorrect, PTL DEF Spec

\* No two harts ever have one task: on_cpu names the only hart between the
\* claim and the release of a task.
THEOREM OneHartPerTask == Spec => []SingleOwner
BY OwnerInvariant, PTL DEF OwnerInv

\* No hart executes on a kernel stack that was released or is being released,
\* unless a fork stored Ready over the zombie it belongs to.
THEOREM NoUseAfterReap == Spec => []ReapedStackUnused
BY OwnerInvariant, PTL DEF OwnerInv

-----------------------------------------------------------------------------
(* Group stop *)

\* Sleep is a state of the task's own stack: nanosleep publishes it and blocks
\* with it, and blocking overwrites it.
SleepInv ==
  \A t \in Tasks : status[t] = "Sleep" => \E c \in Cpus : pc[c] = "sleeping" /\ arg[c] = t

\* Every step keeps that.
LEMMA SleepStep == ASSUME TypeOK, OwnerInv, SleepInv, [Next]_vars PROVE SleepInv'
<1> USE SchedAssumption DEF tcb, proc, queue, exitq, hist
<1>1. CASE AgentFrame
  BY <1>1 DEF SleepInv, AgentFrame
<1>2. ASSUME NEW c \in Cpus, AddTaskToCpu(c) PROVE SleepInv'
  BY <1>2, HartDone, HartGoto, ArgType DEF AddTaskToCpu, SleepInv, TypeOK, DataOK, CtlOK
<1>3. ASSUME NEW c \in Cpus, EnqueueMark(c) PROVE SleepInv'
  BY <1>3, HartDone, HartGoto, ArgType DEF EnqueueMark, SleepInv, TypeOK, DataOK, CtlOK
<1>4. ASSUME NEW c \in Cpus, NEW d \in Cpus, EnqueueCheck(c, d) PROVE SleepInv'
  BY <1>4, HartDone, HartGoto, ArgType DEF EnqueueCheck, SleepInv, TypeOK, DataOK, CtlOK
<1>5. ASSUME NEW c \in Cpus, NEW t \in Tasks, ClaimTask(c, t) PROVE SleepInv'
  BY <1>5, HartDone, HartGoto, ArgType DEF ClaimTask, SleepInv, TypeOK, DataOK, CtlOK
<1>6. ASSUME NEW c \in Cpus, NEW t \in Tasks, ReapDeferred(c, t) PROVE SleepInv'
  BY <1>6, HartDone, HartGoto, ArgType DEF ReapDeferred, SleepInv, TypeOK, DataOK, CtlOK
<1>7. ASSUME NEW c \in Cpus, DispatchTask(c) PROVE SleepInv'
  <2>1. \A t \in Tasks : status'[t] = "Sleep" => status[t] = "Sleep"
    BY <1>7, ArgType DEF DispatchTask, TypeOK, DataOK
  <2>2. \A d \in Cpus : pc[d] = "sleeping" => pc'[d] = "sleeping" /\ arg'[d] = arg[d]
    BY <1>7, HartGoto DEF DispatchTask, TypeOK
  <2> QED BY <2>1, <2>2 DEF SleepInv
<1>8. ASSUME NEW c \in Cpus, SkipTask(c) PROVE SleepInv'
  BY <1>8, HartDone, HartGoto, ArgType DEF SkipTask, SleepInv, TypeOK, DataOK, CtlOK
<1>9. ASSUME NEW c \in Cpus, SwitchedOut(c) PROVE SleepInv'
  <2>1. \A t \in Tasks : status'[t] = "Sleep" => status[t] = "Sleep"
    BY <1>9, ArgType DEF SwitchedOut, TypeOK, DataOK
  <2>2. \A d \in Cpus : pc[d] = "sleeping" => pc'[d] = "sleeping" /\ arg'[d] = arg[d]
    BY <1>9, HartDone, HartGoto DEF SwitchedOut, TypeOK
  <2> QED BY <2>1, <2>2 DEF SleepInv
<1>10. ASSUME NEW c \in Cpus, ReleaseExited(c) PROVE SleepInv'
  BY <1>10, HartDone, HartGoto, ArgType DEF ReleaseExited, SleepInv, TypeOK, DataOK, CtlOK
<1>11. ASSUME NEW c \in Cpus, ScheduleStoppedTask(c) PROVE SleepInv'
  BY <1>11, HartDone, HartGoto, ArgType
     DEF ScheduleStoppedTask, SleepInv, TypeOK, DataOK, CtlOK
<1>e. ASSUME NEW c \in Cpus, ExitProcess(c) PROVE SleepInv'
  BY <1>e, HartDone, HartGoto, ArgType DEF ExitProcess, SleepInv, TypeOK, DataOK, CtlOK
<1>12. ASSUME NEW c \in Cpus, DeferDrop(c) PROVE SleepInv'
  BY <1>12, HartDone, HartGoto, ArgType DEF DeferDrop, SleepInv, TypeOK, DataOK, CtlOK
<1>13. ASSUME NEW c \in Cpus, MarkSleep(c) PROVE SleepInv'
  <2>1. \A t \in Tasks : status'[t] = "Sleep" => status[t] = "Sleep" \/ t = arg[c]
    BY <1>13, ArgType DEF MarkSleep, TypeOK, DataOK
  <2>2. /\ arg' = arg /\ pc'[c] = "sleeping"
        /\ \A d \in Cpus : pc[d] = "sleeping" => pc'[d] = "sleeping"
    BY <1>13, HartGoto DEF MarkSleep, TypeOK, CtlOK, Goto
  <2> QED BY <2>1, <2>2 DEF SleepInv
<1>14. ASSUME NEW c \in Cpus, BlockCancelledByExit(c) PROVE SleepInv'
  BY <1>14, HartDone, HartGoto, ArgType
     DEF BlockCancelledByExit, SleepInv, TypeOK, DataOK, CtlOK
<1>15. ASSUME NEW c \in Cpus, BlockCancelledByWakeup(c) PROVE SleepInv'
  BY <1>15, HartDone, HartGoto, ArgType
     DEF BlockCancelledByWakeup, SleepInv, TypeOK, DataOK, CtlOK
<1>16. ASSUME NEW c \in Cpus, BlockCurrent(c) PROVE SleepInv'
  BY <1>16, HartDone, HartGoto, ArgType DEF BlockCurrent, SleepInv, TypeOK, DataOK, CtlOK
<1>17. ASSUME NEW c \in Cpus, SuspendCurrent(c) PROVE SleepInv'
  BY <1>17, HartDone, HartGoto, ArgType DEF SuspendCurrent, SleepInv, TypeOK, DataOK, CtlOK
<1>18. ASSUME NEW c \in Cpus, ObserveStopped(c) PROVE SleepInv'
  BY <1>18, HartDone, HartGoto, ArgType DEF ObserveStopped, SleepInv, TypeOK, DataOK, CtlOK
<1>19. ASSUME NEW c \in Cpus, ExitCurrent(c) PROVE SleepInv'
  BY <1>19, HartDone, HartGoto, ArgType DEF ExitCurrent, SleepInv, TypeOK, DataOK, CtlOK
<1>20. CASE UNCHANGED vars
  BY <1>20 DEF vars, ctl, SleepInv
<1> QED BY <1>1, <1>e, <1>2, <1>3, <1>4, <1>5, <1>6, <1>7, <1>8, <1>9, <1>10, <1>11, <1>12, <1>13,
           <1>14, <1>15, <1>16, <1>17, <1>18, <1>19, <1>20, AgentFrames
  DEF Next, LoopStep, TaskStep, EnqueueStep

\* A step of a hart changes the status of no task but the one it owns.
LEMMA HartStatus ==
  ASSUME TypeOK, OwnerInv, NEW c \in Cpus, LoopStep(c) \/ TaskStep(c),
         NEW t \in Tasks, onCpu[t] = NoCpu
  PROVE  status'[t] = status[t]
<1> USE SchedAssumption DEF tcb, proc, queue, exitq, hist
<1>1. CASE status' = status
  BY <1>1
<1>2. ASSUME pc[c] \in OwnerPcs, NEW v, status' = [status EXCEPT ![arg[c]] = v]
      PROVE  status'[t] = status[t]
  BY <1>2 DEF OwnerInv, SingleOwner, TypeOK, DataOK
<1>3. CASE LoopStep(c)
  BY <1>1, <1>2, <1>3
  DEF LoopStep, EnqueueStep, AddTaskToCpu, EnqueueCheck, EnqueueMark, ClaimTask,
      ReapDeferred, DispatchTask, SkipTask, SwitchedOut, ReleaseExited,
      ScheduleStoppedTask, ExitProcess, DeferDrop, OwnerPcs
<1>4. CASE TaskStep(c)
  BY <1>1, <1>2, <1>4
  DEF TaskStep, MarkSleep, BlockCancelledByExit, BlockCancelledByWakeup,
      BlockCurrent, SuspendCurrent, ObserveStopped, ExitCurrent, OwnerPcs
<1> QED BY <1>3, <1>4

\* No step of anybody wakes a task that sleeps and stays group-stopped, once
\* the fork that created it has stored Ready.
LEMMA StopStep ==
  ASSUME TypeOK, OwnerInv, SleepInv, [Next]_vars, NEW t \in Tasks,
         groupStopped[t], groupStopped'[t], status[t] \in {"Blocked", "Sleep"}, onCpu[t] = NoCpu,
         ~Nascent(t)
  PROVE  status'[t] = status[t]
<1> USE SchedAssumption DEF tcb, proc, queue, exitq, hist
<1>1. status[t] = "Blocked"
  BY DEF OwnerInv, SingleOwner, SleepInv, OwnerPcs
<1>2. ASSUME NEW a \in Agents, AgentCall(a) PROVE status'[t] = status[t]
  BY <1>1, <1>2 DEF AgentCall, ForkTask, StopProcess, ContinueProcess,
                    FinishSignaledProcess, TypeOK, DataOK
<1>3. ASSUME NEW a \in Agents, NEW u \in Tasks, WakeupTask(a, u) PROVE status'[t] = status[t]
  BY <1>3 DEF WakeupTask, WakeZombie, WakeStopped, WakeOnCpu, WakeReady,
              WakeBlocked, WakesSleeper, TypeOK, DataOK
<1>4. ASSUME NEW a \in Agents, AgentStep(a) PROVE status'[t] = status[t]
  <2>1. CASE StopTask(a)
    BY <1>1, <2>1 DEF StopTask, TypeOK, DataOK
  <2>2. CASE StartForked(a)
    BY <2>2 DEF StartForked, Nascent, TypeOK, DataOK
  <2>3. CASE ~StopTask(a) /\ ~StartForked(a)
    BY <1>4, <2>3 DEF AgentStep, EnqueueStep, AddTaskToCpu, EnqueueCheck, EnqueueMark, WakeRecheck,
                      RemoveTask, DecrementReadyTasks, ContinueTask, DeliverCont, RequestTaskExit
  <2> QED BY <2>1, <2>2, <2>3
<1>5. ASSUME NEW c \in Cpus, LoopStep(c) \/ TaskStep(c) PROVE status'[t] = status[t]
  BY <1>5, HartStatus
<1>6. CASE UNCHANGED vars
  BY <1>6 DEF vars
<1> QED BY <1>2, <1>3, <1>4, <1>5, <1>6 DEF Next

\* While a task stays group-stopped, nothing wakes it once it is off its CPU
\* and its fork is past the store of Ready.
THEOREM GroupStopHolds == Spec => StopHolds
<1>1. Init => SleepInv
  BY DEF Init, SleepInv
<1>2. TypeOK /\ OwnerInv /\ SleepInv /\ [Next]_vars
        => [\A t \in Tasks :
              /\ groupStopped[t] /\ groupStopped'[t]
              /\ status[t] \in {"Blocked", "Sleep"} /\ onCpu[t] = NoCpu
              /\ ~Nascent(t)
              => status'[t] = status[t]]_vars
  BY StopStep
<1> QED BY <1>1, <1>2, SleepStep, OwnerInvariant, TypeCorrect, PTL DEF Spec, StopHolds

-----------------------------------------------------------------------------
(* The count of ready tasks *)

\* The agents that have removed an entry of c's queue and not yet counted it.
Owing(c) == {a \in Agents : pc[a] = "decr" /\ tgt[a] = c}

\* A context that neither owes a decrement nor comes to owe one.
LEMMA MoveKeepsOwing ==
  ASSUME CtlOK, NEW x \in Actors, pc[x] # "decr", tgt' = [tgt EXCEPT ![x] = tgt'[x]],
         NEW l, l # "decr", pc' = [pc EXCEPT ![x] = l]
  PROVE  \A c \in Cpus : Owing(c)' = Owing(c)
BY DEF CtlOK, Owing

\* A context that returns from its call leaves the debts alone.
LEMMA DoneOwing ==
  ASSUME CtlOK, NEW x \in Actors, pc[x] # "decr", Done(x)
  PROVE  \A c \in Cpus : Owing(c)' = Owing(c)
<1>1. CASE Continues(x)
  BY <1>1, MoveKeepsOwing DEF Done, CtlOK
<1>2. CASE ~Continues(x)
  BY <1>2, MoveKeepsOwing DEF Done, CtlOK
<1> QED BY <1>1, <1>2

\* So does one that goes on to another section than the decrement.
LEMMA GotoOwing ==
  ASSUME CtlOK, NEW x \in Actors, pc[x] # "decr", NEW l, l # "decr", Goto(x, l)
  PROVE  \A c \in Cpus : Owing(c)' = Owing(c)
BY MoveKeepsOwing DEF Goto, CtlOK

\* So does an agent that starts a call.
LEMMA EnterOwing ==
  ASSUME CtlOK, NEW a \in Agents, NEW t, NEW o, NEW l, l # "decr", Enter(a, t, o, l)
  PROVE  \A c \in Cpus : Owing(c)' = Owing(c)
BY MoveKeepsOwing DEF Enter, CtlOK

\* The steps that neither enqueue, remove, count nor claim.
Uncounted == UNCHANGED <<rq, ready>> /\ \A c \in Cpus : Owing(c)' = Owing(c)

\* Only four steps touch a queue, its count or a debt.
LEMMA CountFrame ==
  ASSUME TypeOK, [Next]_vars
  PROVE  \/ \E x \in Actors : EnqueueMark(x)
         \/ \E a \in Agents : RemoveTask(a) \/ DecrementReadyTasks(a)
         \/ \E c \in Cpus, t \in Tasks : ClaimTask(c, t)
         \/ Uncounted
<1> USE SchedAssumption DEF TypeOK, tcb, proc, queue, exitq, hist, Uncounted
<1>1. ASSUME NEW a \in Agents, NEW t \in Tasks, ForkTask(a, t) PROVE Uncounted
  BY <1>1, EnterOwing DEF ForkTask
<1>2. ASSUME NEW a \in Agents, NEW t \in Tasks, StopProcess(a, t) PROVE Uncounted
  BY <1>2, EnterOwing DEF StopProcess
<1>3. ASSUME NEW a \in Agents, NEW t \in Tasks, ContinueProcess(a, t) PROVE Uncounted
  BY <1>3, EnterOwing DEF ContinueProcess
<1>4. ASSUME NEW a \in Agents, NEW t \in Tasks, FinishSignaledProcess(a, t) PROVE Uncounted
  BY <1>4, EnterOwing DEF FinishSignaledProcess
<1>5. ASSUME NEW a \in Agents, NEW t \in Tasks, WakeZombie(a, t) PROVE Uncounted
  BY <1>5, DoneOwing DEF WakeZombie, Waking
<1>6. ASSUME NEW a \in Agents, NEW t \in Tasks, WakeStopped(a, t) PROVE Uncounted
  BY <1>6, DoneOwing DEF WakeStopped, Waking
<1>7. ASSUME NEW a \in Agents, NEW t \in Tasks, WakeOnCpu(a, t) PROVE Uncounted
  BY <1>7, DoneOwing DEF WakeOnCpu, Waking
<1>8. ASSUME NEW a \in Agents, NEW t \in Tasks, WakeReady(a, t) PROVE Uncounted
  BY <1>8, MoveKeepsOwing DEF WakeReady, Waking, CtlOK
<1>9. ASSUME NEW a \in Agents, NEW t \in Tasks, WakeBlocked(a, t) PROVE Uncounted
  BY <1>9, MoveKeepsOwing DEF WakeBlocked, Waking, CtlOK
<1>10. ASSUME NEW x \in Actors, AddTaskToCpu(x) PROVE Uncounted
  BY <1>10, DoneOwing, GotoOwing DEF AddTaskToCpu
<1>11. ASSUME NEW x \in Actors, NEW d \in Cpus, EnqueueCheck(x, d) PROVE Uncounted
  <2>1. CASE Unowned(arg[x])
    BY <1>11, <2>1 DEF EnqueueCheck, Owing, CtlOK
  <2>2. CASE ~Unowned(arg[x])
    BY <1>11, <2>2, DoneOwing DEF EnqueueCheck
  <2> QED BY <2>1, <2>2
<1>12. ASSUME NEW a \in Agents, WakeRecheck(a) PROVE Uncounted
  BY <1>12, DoneOwing, GotoOwing DEF WakeRecheck
<1>13. ASSUME NEW a \in Agents, StopTask(a) PROVE Uncounted
  BY <1>13, DoneOwing, GotoOwing DEF StopTask
<1>14. ASSUME NEW a \in Agents, ContinueTask(a) PROVE Uncounted
  BY <1>14, DoneOwing, GotoOwing DEF ContinueTask
<1>15. ASSUME NEW a \in Agents, RequestTaskExit(a) PROVE Uncounted
  BY <1>15, DoneOwing, GotoOwing DEF RequestTaskExit
<1>f. ASSUME NEW a \in Agents, StartForked(a) PROVE Uncounted
  BY <1>f, GotoOwing DEF StartForked
<1>d. ASSUME NEW a \in Agents, DeliverCont(a) PROVE Uncounted
  <2>1. pc' = [pc EXCEPT ![a] = "idle"] \/ pc' = [pc EXCEPT ![a] = "wake"]
    BY <1>d DEF DeliverCont
  <2>2. tgt' = [tgt EXCEPT ![a] = tgt'[a]] /\ pc[a] # "decr"
    BY <1>d DEF DeliverCont, CtlOK
  <2> QED BY <1>d, <2>1, <2>2, MoveKeepsOwing DEF DeliverCont
<1>16. ASSUME NEW c \in Cpus, NEW t \in Tasks, ReapDeferred(c, t) PROVE Uncounted
  BY <1>16 DEF ReapDeferred, Owing, CtlOK
<1>17. ASSUME NEW c \in Cpus, DispatchTask(c) PROVE Uncounted
  BY <1>17, DoneOwing, GotoOwing DEF DispatchTask
<1>18. ASSUME NEW c \in Cpus, SkipTask(c) PROVE Uncounted
  BY <1>18, DoneOwing, GotoOwing DEF SkipTask
<1>19. ASSUME NEW c \in Cpus, SwitchedOut(c) PROVE Uncounted
  BY <1>19, DoneOwing, GotoOwing DEF SwitchedOut
<1>20. ASSUME NEW c \in Cpus, ReleaseExited(c) PROVE Uncounted
  BY <1>20, DoneOwing, GotoOwing DEF ReleaseExited
<1>21. ASSUME NEW c \in Cpus, ScheduleStoppedTask(c) PROVE Uncounted
  BY <1>21, DoneOwing, GotoOwing DEF ScheduleStoppedTask
<1>e. ASSUME NEW c \in Cpus, ExitProcess(c) PROVE Uncounted
  BY <1>e, DoneOwing, GotoOwing DEF ExitProcess
<1>22. ASSUME NEW c \in Cpus, DeferDrop(c) PROVE Uncounted
  BY <1>22, DoneOwing, GotoOwing DEF DeferDrop
<1>23. ASSUME NEW c \in Cpus, MarkSleep(c) PROVE Uncounted
  BY <1>23, DoneOwing, GotoOwing DEF MarkSleep
<1>24. ASSUME NEW c \in Cpus, BlockCancelledByExit(c) PROVE Uncounted
  BY <1>24, DoneOwing, GotoOwing DEF BlockCancelledByExit
<1>25. ASSUME NEW c \in Cpus, BlockCancelledByWakeup(c) PROVE Uncounted
  BY <1>25, DoneOwing, GotoOwing DEF BlockCancelledByWakeup
<1>26. ASSUME NEW c \in Cpus, BlockCurrent(c) PROVE Uncounted
  BY <1>26, DoneOwing, GotoOwing DEF BlockCurrent
<1>27. ASSUME NEW c \in Cpus, SuspendCurrent(c) PROVE Uncounted
  BY <1>27, DoneOwing, GotoOwing DEF SuspendCurrent
<1>28. ASSUME NEW c \in Cpus, ObserveStopped(c) PROVE Uncounted
  BY <1>28, DoneOwing, GotoOwing DEF ObserveStopped
<1>29. ASSUME NEW c \in Cpus, ExitCurrent(c) PROVE Uncounted
  BY <1>29, DoneOwing, GotoOwing DEF ExitCurrent
<1>30. CASE UNCHANGED vars
  BY <1>30 DEF vars, ctl, Owing
<1> QED BY <1>1, <1>d, <1>e, <1>f, <1>2, <1>3, <1>4, <1>5, <1>6, <1>7, <1>8, <1>9, <1>10,
           <1>11, <1>12, <1>13, <1>14, <1>15, <1>16, <1>17, <1>18, <1>19, <1>20, <1>21,
           <1>22, <1>23, <1>24, <1>25, <1>26, <1>27, <1>28, <1>29, <1>30
  DEF Next, AgentCall, AgentStep, WakeupTask, LoopStep, TaskStep, EnqueueStep

\* Every queue and every set of debts is finite.
LEMMA CountedFinite ==
  ASSUME TypeOK, NEW c \in Cpus PROVE IsFiniteSet(rq[c]) /\ IsFiniteSet(Owing(c))
<1>1. rq[c] \subseteq Tasks /\ Owing(c) \subseteq Agents
  BY DEF TypeOK, DataOK, Owing
<1> QED BY <1>1, FS_Subset, SchedAssumption

\* The sum that READY_TASKS[c] has to be.
Counted(c) == Cardinality(rq[c]) + Cardinality(Owing(c))

\* Every step keeps the count exact.
LEMMA CountStep ==
  ASSUME TypeOK, QueueMarker, [Next]_vars, \A c \in Cpus : ready[c] = Counted(c),
         NEW c \in Cpus
  PROVE  ready'[c] = Counted(c)'
<1> USE SchedAssumption
<1>f. /\ IsFiniteSet(rq[c]) /\ IsFiniteSet(Owing(c))
      /\ Cardinality(rq[c]) \in Nat /\ Cardinality(Owing(c)) \in Nat
  BY CountedFinite, FS_CardinalityType
<1>1. ASSUME NEW x \in Actors, EnqueueMark(x) PROVE ready'[c] = Counted(c)'
  <2>1. arg[x] \in Tasks /\ tgt[x] \in Cpus
    BY <1>1, ArgType DEF EnqueueMark, TypeOK
  <2>2. Owing(c)' = Owing(c)
    BY <1>1, DoneOwing DEF EnqueueMark, TypeOK
  <2>3. CASE queued[arg[x]] = NoCpu /\ tgt[x] = c
    <3>1. rq'[c] = rq[c] \cup {arg[x]} /\ ready'[c] = ready[c] + 1
      BY <1>1, <2>1, <2>3 DEF EnqueueMark, TypeOK, DataOK
    <3>2. arg[x] \notin rq[c]
      BY <2>1, <2>3 DEF QueueMarker
    <3>3. Cardinality(rq'[c]) = Cardinality(rq[c]) + 1
      BY <3>1, <3>2, <1>f, FS_AddElement
    <3> QED BY <3>1, <3>3, <2>2, <1>f DEF Counted
  <2>4. CASE ~(queued[arg[x]] = NoCpu /\ tgt[x] = c)
    <3>1. rq'[c] = rq[c] /\ ready'[c] = ready[c]
      BY <1>1, <2>1, <2>4 DEF EnqueueMark, TypeOK, DataOK, queue
    <3> QED BY <3>1, <2>2 DEF Counted
  <2> QED BY <2>3, <2>4
<1>2. ASSUME NEW a \in Agents, RemoveTask(a) PROVE ready'[c] = Counted(c)'
  <2>1. arg[a] \in Tasks /\ ready' = ready
    BY <1>2, ArgType DEF RemoveTask, TypeOK
  <2>2. CASE queued[arg[a]] = c
    <3>1. /\ rq'[c] = rq[c] \ {arg[a]}
          /\ pc' = [pc EXCEPT ![a] = "decr"] /\ tgt' = [tgt EXCEPT ![a] = c]
      BY <1>2, <2>1, <2>2 DEF RemoveTask, TypeOK, DataOK
    <3>2. arg[a] \in rq[c]
      BY <2>1, <2>2 DEF QueueMarker
    <3>3. a \notin Owing(c) /\ Owing(c)' = Owing(c) \cup {a}
      BY <1>2, <3>1 DEF RemoveTask, Owing, TypeOK, CtlOK
    <3>4. Cardinality(rq'[c]) = Cardinality(rq[c]) - 1
      BY <3>1, <3>2, <1>f, FS_RemoveElement
    <3>5. Cardinality(Owing(c)') = Cardinality(Owing(c)) + 1
      BY <3>3, <1>f, FS_AddElement
    <3> QED BY <2>1, <3>4, <3>5, <1>f DEF Counted
  <2>3. CASE queued[arg[a]] = NoCpu
    <3>1. rq' = rq
      BY <1>2, <2>3 DEF RemoveTask
    <3>2. Owing(c)' = Owing(c)
      <4>1. pc[a] = "remove" /\ AfterRemove(a)
        BY <1>2, <2>3 DEF RemoveTask
      <4>2. CASE op[a] = "kill"
        <5>1. pc' = [pc EXCEPT ![a] = "wake"] /\ tgt' = [tgt EXCEPT ![a] = NoCpu]
          BY <4>1, <4>2 DEF AfterRemove
        <5>2. pc'[a] = "wake" /\ \A b \in Agents \ {a} : pc'[b] = pc[b] /\ tgt'[b] = tgt[b]
          BY <5>1 DEF TypeOK, CtlOK
        <5> QED BY <4>1, <5>2 DEF Owing
      <4>3. CASE op[a] # "kill"
        BY <4>1, <4>3, DoneOwing DEF AfterRemove, TypeOK
      <4> QED BY <4>2, <4>3
    <3> QED BY <2>1, <3>1, <3>2 DEF Counted
  <2>4. CASE queued[arg[a]] \in Cpus \ {c}
    <3>1. rq'[c] = rq[c]
      BY <1>2, <2>1, <2>4 DEF RemoveTask, TypeOK, DataOK
    <3>2. Owing(c)' = Owing(c)
      BY <1>2, <2>1, <2>4 DEF RemoveTask, Owing, TypeOK, CtlOK
    <3> QED BY <2>1, <3>1, <3>2 DEF Counted
  <2> QED BY <2>1, <2>2, <2>3, <2>4 DEF TypeOK, DataOK
<1>3. ASSUME NEW a \in Agents, DecrementReadyTasks(a) PROVE ready'[c] = Counted(c)'
  <2>1. tgt[a] \in Cpus /\ rq' = rq
    BY <1>3, ArgType DEF DecrementReadyTasks, TypeOK
  <2>2. pc'[a] # "decr" /\ \A b \in Agents \ {a} : pc'[b] = pc[b] /\ tgt'[b] = tgt[b]
    <3>1. CASE op[a] = "kill"
      BY <1>3, <3>1 DEF DecrementReadyTasks, AfterRemove, TypeOK, CtlOK
    <3>2. CASE op[a] # "kill" /\ Continues(a)
      BY <1>3, <3>2 DEF DecrementReadyTasks, AfterRemove, Done, TypeOK, CtlOK
    <3>3. CASE op[a] # "kill" /\ ~Continues(a)
      BY <1>3, <3>3 DEF DecrementReadyTasks, AfterRemove, Done, TypeOK, CtlOK
    <3> QED BY <3>1, <3>2, <3>3
  <2>3. CASE tgt[a] = c
    <3>1. a \in Owing(c) /\ Owing(c)' = Owing(c) \ {a}
      BY <1>3, <2>2, <2>3 DEF DecrementReadyTasks, Owing
    <3>2. Cardinality(Owing(c)') = Cardinality(Owing(c)) - 1
      BY <3>1, <1>f, FS_RemoveElement
    <3>3. Cardinality(Owing(c)') \in Nat
      BY <3>1, <1>f, FS_RemoveElement, FS_CardinalityType
    <3>4. ready[c] # 0
      BY <3>2, <3>3, <1>f DEF Counted
    <3>5. ready'[c] = ready[c] - 1
      BY <1>3, <2>3, <3>4 DEF DecrementReadyTasks, TypeOK, DataOK
    <3> QED BY <2>1, <3>2, <3>5, <1>f DEF Counted
  <2>4. CASE tgt[a] # c
    <3>1. Owing(c)' = Owing(c)
      BY <2>2, <2>4 DEF Owing
    <3>2. ready'[c] = ready[c]
      BY <1>3, <2>1, <2>4 DEF DecrementReadyTasks, TypeOK, DataOK
    <3> QED BY <2>1, <3>1, <3>2 DEF Counted
  <2> QED BY <2>3, <2>4
<1>4. ASSUME NEW d \in Cpus, NEW t \in Tasks, ClaimTask(d, t) PROVE ready'[c] = Counted(c)'
  <2>1. Owing(c)' = Owing(c)
    BY <1>4 DEF ClaimTask, Owing, TypeOK, CtlOK
  <2>2. CASE d = c
    <3>1. t \in rq[c] /\ rq'[c] = rq[c] \ {t}
      BY <1>4, <2>2 DEF ClaimTask, TypeOK, DataOK
    <3>2. Cardinality(rq'[c]) = Cardinality(rq[c]) - 1
      BY <3>1, <1>f, FS_RemoveElement
    <3>3. Cardinality(rq'[c]) \in Nat
      BY <3>1, <1>f, FS_RemoveElement, FS_CardinalityType
    <3>4. ready[c] # 0
      BY <3>2, <3>3, <1>f DEF Counted
    <3>5. ready'[c] = ready[c] - 1
      BY <1>4, <2>2, <3>4 DEF ClaimTask, TypeOK, DataOK
    <3> QED BY <2>1, <3>2, <3>5, <1>f DEF Counted
  <2>3. CASE d # c
    <3>1. rq'[c] = rq[c] /\ ready'[c] = ready[c]
      BY <1>4, <2>3 DEF ClaimTask, TypeOK, DataOK
    <3> QED BY <2>1, <3>1 DEF Counted
  <2> QED BY <2>2, <2>3
<1>5. CASE Uncounted
  BY <1>5 DEF Uncounted, Counted
<1> QED BY <1>1, <1>2, <1>3, <1>4, <1>5, CountFrame

\* READY_TASKS is exact up to the decrements under way: it never underflows
\* and is never zero for a non-empty queue.
THEOREM ReadyCountExact == Spec => []ReadyCount
<1>1. Init => ReadyCount
  <2> SUFFICES ASSUME Init, NEW c \in Cpus PROVE ready[c] = Counted(c)
    BY DEF ReadyCount, Counted, Owing
  <2>1. rq[c] = {} /\ Owing(c) = {} /\ ready[c] = 0
    BY SchedAssumption DEF Init, Owing
  <2> QED BY <2>1, FS_EmptySet DEF Counted
<1>2. TypeOK /\ QueueMarker /\ ReadyCount /\ [Next]_vars => ReadyCount'
  BY CountStep DEF ReadyCount, Counted, Owing
<1> QED BY <1>1, <1>2, TypeCorrect, MarkerNamesQueue, PTL DEF Spec

-----------------------------------------------------------------------------
(* What a step of one context does to the others *)

\* Every context but x is where it was.
OthersStay(x) ==
  \A y \in Actors \ {x} :
    pc'[y] = pc[y] /\ arg'[y] = arg[y] /\ (y \in Agents => op'[y] = op[y])

\* A context that has returned works on no task, or has a SIGCONT to deliver.
LEMMA ActorDone ==
  ASSUME CtlOK, NEW x \in Actors, Done(x)
  PROVE  OthersStay(x) /\ pc'[x] \in {"loop", "idle", "deliver"} /\ arg'[x] \in {NoTask, arg[x]}
<1>1. CASE Continues(x)
  BY <1>1, SchedAssumption DEF CtlOK, Done, OthersStay
<1>2. CASE ~Continues(x)
  BY <1>2, SchedAssumption DEF CtlOK, Done, OthersStay
<1> QED BY <1>1, <1>2

\* A context that goes on keeps its task and its call.
LEMMA ActorGoto ==
  ASSUME CtlOK, NEW x \in Actors, NEW l, Goto(x, l)
  PROVE  OthersStay(x) /\ pc'[x] = l /\ arg'[x] = arg[x] /\ op' = op
BY SchedAssumption DEF CtlOK, Goto, OthersStay

\* An agent that starts a call comes from idling.
LEMMA ActorEnter ==
  ASSUME CtlOK, NEW a \in Agents, NEW t \in Tasks, NEW o, NEW l, Enter(a, t, o, l)
  PROVE  /\ OthersStay(a) /\ pc[a] = "idle"
         /\ pc'[a] = l /\ arg'[a] = t /\ op'[a] = o
BY SchedAssumption DEF CtlOK, Enter, OthersStay

\* After a removal a killer wakes its task and every other agent is done.
LEMMA ActorAfterRemove ==
  ASSUME CtlOK, NEW a \in Agents, AfterRemove(a)
  PROVE  /\ OthersStay(a)
         /\ IF op[a] = "kill" THEN pc'[a] = "wake" /\ arg'[a] = arg[a] /\ op'[a] = "kill"
                              ELSE pc'[a] \in {"idle", "deliver"} /\ arg'[a] \in {NoTask, arg[a]}
<1>1. CASE op[a] = "kill"
  BY <1>1, SchedAssumption DEF CtlOK, AfterRemove, OthersStay
<1>2. CASE op[a] # "kill"
  <2>1. OthersStay(a) /\ arg'[a] \in {NoTask, arg[a]}
    BY <1>2, ActorDone DEF AfterRemove, Actors
  <2>2. pc'[a] \in {"idle", "deliver"}
    BY <1>2, SchedAssumption DEF CtlOK, AfterRemove, Done
  <2> QED BY <1>2, <2>1, <2>2
<1> QED BY <1>1, <1>2

-----------------------------------------------------------------------------
(* The invariant of one task *)

\* Only a stop or a kill removes a task from its queue, and a kill has ended
\* the process before it looks at the task.
CallsOk(t) ==
  /\ \A a \in Agents :
       arg[a] = t =>
         /\ pc[a] = "stop" => op[a] = "stop"
         /\ pc[a] = "kill" => op[a] = "kill" /\ procZombie[t]
         /\ pc[a] \in {"remove", "decr"} => op[a] \in {"stop", "kill"}
  /\ zombieFlag[t] => procZombie[t]

\* A task being switched out, or on the way to its last switch, is asleep, a
\* zombie, or Ready with the order to put it back into a queue, which the store
\* of a fork does not give.
SwitchOk(t) ==
  \A c \in Cpus :
    arg[c] = t /\ pc[c] \in {"exiting", "detach", "switch"}
      => \/ status[t] \in {"Blocked", "Zombie"}
         \/ status[t] = "Ready" /\ (requeue[t] \/ t \in dropped)

\* NoStrandedReady for one task.
Placed(t) ==
  status[t] = "Ready" /\ Unowned(t)
    => \/ BeingEnqueued(t)
       \/ groupStopped[t] /\ stopResume[t]
       \/ t \in dropped

\* An agent will call wakeup_task on t and not give up before.
Waker(t) ==
  \E a \in Agents :
    /\ arg[a] = t
    /\ \/ pc[a] = "wake"
       \/ pc[a] \in {"remove", "decr"} /\ op[a] = "kill"

\* One context's part in BeingEnqueued and in Waker.
Enqueues(x, t) ==
  /\ arg[x] = t
  /\ \/ pc[x] \in EnqueuePcs \cup {"start", "recheck", "wake"}
     \/ pc[x] \in {"remove", "decr"} /\ op[x] = "kill"

Wakes(a, t) ==
  /\ arg[a] = t
  /\ \/ pc[a] = "wake"
     \/ pc[a] \in {"remove", "decr"} /\ op[a] = "kill"

\* A hart executes t, or will put it back into a queue at the end of a switch.
OnStack(t) ==
  \E c \in Cpus :
    /\ arg[c] = t
    /\ \/ pc[c] \in {"run", "sleeping", "stopping"}
       \/ pc[c] \in {"exiting", "detach", "switch"} /\ requeue[t]

\* A hart has t on its way to the last switch.
Exiting(t) == \E c \in Cpus : arg[c] = t /\ pc[c] \in {"exiting", "detach"}

\* A task that sleeps off its stack over a wakeup, a fatal signal or its own
\* exit has a waker, a group stop that remembers it, or was parked by a stop.  An
\* enqueuer is not enough: it leaves a task alone that is not Ready.
Served(t) ==
  status[t] \in {"Blocked", "Sleep"} /\ (owed[t] \/ zombieFlag[t] \/ Exiting(t)) /\ ~OnStack(t)
    => \/ Waker(t)
       \/ groupStopped[t] /\ stopResume[t]
       \/ t \in parked

\* A running task that was woken finds the wakeup when it blocks.
Remembered(t) ==
  owed[t] /\ (\E c \in Cpus : arg[c] = t /\ pc[c] \in {"run", "sleeping"})
    => pending[t] \/ Waker(t)

TaskInv(t) == CallsOk(t) /\ SwitchOk(t) /\ Placed(t) /\ Served(t) /\ Remembered(t)

\* What a step may leave alone about a task.
SameOwner(t) == onCpu'[t] = onCpu[t] /\ queued'[t] = queued[t]
SameState(t) == status'[t] = status[t] /\ requeue'[t] = requeue[t] /\ pending'[t] = pending[t]
SameStop(t)  == groupStopped'[t] = groupStopped[t] /\ stopResume'[t] = stopResume[t]
SameKill(t)  == zombieFlag'[t] = zombieFlag[t] /\ procZombie'[t] = procZombie[t]
SameOwed(t)  == owed'[t] = owed[t] /\ (t \in parked' <=> t \in parked)
SameDrop(t)  == t \in dropped' <=> t \in dropped
SameTask(t)  == /\ SameOwner(t) /\ SameState(t) /\ SameStop(t) /\ SameKill(t)
                /\ SameOwed(t) /\ SameDrop(t)

\* Wakers and enqueuers are lost only by a step of their own.
LEMMA EnqueuerStays ==
  ASSUME TypeOK, NEW x \in Actors, OthersStay(x), NEW t, Enqueues(x, t) => Enqueues(x, t)'
  PROVE  BeingEnqueued(t) => BeingEnqueued(t)'
BY SchedAssumption DEF BeingEnqueued, Enqueues, OthersStay, TypeOK, CtlOK

\* The same for an agent on its way to wake the task.
LEMMA WakerStays ==
  ASSUME NEW x \in Agents, OthersStay(x), NEW t, Wakes(x, t) => Wakes(x, t)'
  PROVE  Waker(t) => Waker(t)'
BY DEF Waker, Wakes, OthersStay

\* A step of a context that works on another task, before it and after it.
LEMMA OtherTask ==
  ASSUME TypeOK, NEW x \in Actors, OthersStay(x), NEW t \in Tasks, TaskInv(t),
         arg[x] # t, arg'[x] # t, SameTask(t)
  PROVE  TaskInv(t)'
<1> USE SchedAssumption DEF SameTask, OthersStay
<1>1. \A a \in Agents : arg'[a] = t => pc'[a] = pc[a] /\ op'[a] = op[a] /\ arg[a] = t
  OBVIOUS
<1>2. \A a \in Agents : arg[a] = t => pc'[a] = pc[a] /\ op'[a] = op[a] /\ arg'[a] = t
  OBVIOUS
<1>3. \A c \in Actors : (arg'[c] = t <=> arg[c] = t) /\ (arg[c] = t => pc'[c] = pc[c])
  OBVIOUS
<1>4. CallsOk(t)'
  BY <1>1 DEF TaskInv, CallsOk, SameKill
<1>5. SwitchOk(t)'
  BY <1>3 DEF TaskInv, SwitchOk, SameState, SameDrop
<1>6. Waker(t) => Waker(t)'
  BY <1>2 DEF Waker
<1>7. OnStack(t) => OnStack(t)'
  BY <1>3 DEF OnStack, SameState
<1>8. BeingEnqueued(t) => BeingEnqueued(t)'
  BY <1>2, <1>3 DEF BeingEnqueued, TypeOK, CtlOK
<1>9. Placed(t)'
  BY <1>8 DEF TaskInv, Placed, Unowned, SameOwner, SameState, SameStop, SameDrop
<1>10. Served(t)'
  BY <1>3, <1>6, <1>7 DEF TaskInv, Served, Exiting, SameState, SameStop, SameKill, SameOwed
<1>11. Remembered(t)'
  BY <1>3, <1>6 DEF TaskInv, Remembered, SameState, SameOwed
<1> QED BY <1>4, <1>5, <1>9, <1>10, <1>11 DEF TaskInv

\* The hart of a task is the only one, and a task that has none is on no stack.
LEMMA OneHart ==
  ASSUME TypeOK, OwnerInv, NEW t \in Tasks
  PROVE  /\ \A c \in Cpus : pc[c] \in OwnerPcs /\ arg[c] = t => onCpu[t] = c
         /\ onCpu[t] = NoCpu => \A c \in Cpus : ~(pc[c] \in OwnerPcs /\ arg[c] = t)
BY SchedAssumption DEF OwnerInv, SingleOwner

\* Every step keeps the invariant of every task.
LEMMA TaskStepKeeps ==
  ASSUME TypeOK, OwnerInv, NEW t \in Tasks, TaskInv(t), [Next]_vars
  PROVE  TaskInv(t)'
<1> USE SchedAssumption
<1> USE DEF TypeOK, tcb, proc, queue, exitq, hist,
            SameTask, SameOwner, SameState, SameStop, SameKill, SameOwed, SameDrop
<1>1. ASSUME NEW a \in Agents, NEW u \in Tasks, ForkTask(a, u) PROVE TaskInv(t)'
  <2>1. /\ u \in Tasks
        /\ OthersStay(a)
        /\ pc[a] = "idle"
        /\ pc'[a] = "start"
        /\ arg'[a] = u
        /\ op'[a] = "fork"
        /\ arg[a] = NoTask
    BY <1>1, ArgType, ActorEnter DEF ForkTask, CtlOK, OthersStay, Enter
  <2>2. /\ status[u] = "None"
        /\ status'[u] = "Ready"
        /\ requeue'[u] = requeue[u]
        /\ pending'[u] = pending[u]
        /\ SameOwner(u)
        /\ SameStop(u)
        /\ SameKill(u)
        /\ SameOwed(u)
        /\ SameDrop(u)
    BY <2>1, <1>1 DEF ForkTask, DataOK
  <2>3. \A v \in Tasks \ {u} : SameTask(v)
    BY <2>1, <1>1 DEF ForkTask, DataOK
  <2>4. CASE t # u
    BY <2>1, <2>3, <2>4, OtherTask
  <2>5. CASE t = u
    <3>1. CallsOk(t)'
      BY <2>1, <2>2, <2>5 DEF TaskInv, CallsOk, OthersStay
    <3>2. SwitchOk(t)'
      BY <2>1, <2>2, <2>5 DEF TaskInv, SwitchOk, OthersStay
    <3>3. Placed(t)'
      BY <2>1, <2>2, <2>5 DEF TaskInv, Placed, Unowned, BeingEnqueued, CallsOk, OthersStay
    <3>4. Served(t)'
      BY <2>1, <2>2, <2>5
         DEF TaskInv, Served, Exiting, OnStack, Waker, CallsOk, SwitchOk, Remembered, OthersStay
    <3>5. Remembered(t)'
      BY <2>1, <2>2, <2>5 DEF TaskInv, Remembered, Waker, CallsOk, OthersStay
    <3> QED BY <3>1, <3>2, <3>3, <3>4, <3>5 DEF TaskInv
  <2> QED BY <2>4, <2>5
<1>2. ASSUME NEW a \in Agents, NEW u \in Tasks, StopProcess(a, u) PROVE TaskInv(t)'
  <2>1. /\ u \in Tasks
        /\ OthersStay(a)
        /\ pc[a] = "idle"
        /\ pc'[a] = "stop"
        /\ arg'[a] = u
        /\ op'[a] = "stop"
        /\ arg[a] = NoTask
    BY <1>2, ArgType, ActorEnter DEF StopProcess, CtlOK, OthersStay, Enter
  <2>2. /\ SameTask(u)
    BY <2>1, <1>2 DEF StopProcess, DataOK
  <2>3. \A v \in Tasks \ {u} : SameTask(v)
    BY <2>1, <1>2 DEF StopProcess, DataOK
  <2>4. CASE t # u
    BY <2>1, <2>3, <2>4, OtherTask
  <2>5. CASE t = u
    <3>1. BeingEnqueued(t) => BeingEnqueued(t)'
      BY <2>1, <2>2, <2>5, EnqueuerStays DEF Enqueues
    <3>2. CallsOk(t)'
      BY <2>1, <2>2, <2>5 DEF TaskInv, CallsOk, OthersStay
    <3>3. SwitchOk(t)'
      BY <2>1, <2>2, <2>5 DEF TaskInv, SwitchOk, OthersStay
    <3>4. Placed(t)'
      BY <2>1, <2>2, <2>5, <3>1 DEF TaskInv, Placed, Unowned, OthersStay
    <3>5. Served(t)'
      BY <2>1, <2>2, <2>5
         DEF TaskInv, Served, Exiting, OnStack, Waker, CallsOk, SwitchOk, Remembered, OthersStay
    <3>6. Remembered(t)'
      BY <2>1, <2>2, <2>5 DEF TaskInv, Remembered, Waker, CallsOk, OthersStay
    <3> QED BY <3>2, <3>3, <3>4, <3>5, <3>6 DEF TaskInv
  <2> QED BY <2>4, <2>5
<1>3. ASSUME NEW a \in Agents, NEW u \in Tasks, ContinueProcess(a, u) PROVE TaskInv(t)'
  <2>1. /\ u \in Tasks
        /\ OthersStay(a)
        /\ pc[a] = "idle"
        /\ pc'[a] = "cont"
        /\ arg'[a] = u
        /\ op'[a] = "cont"
        /\ arg[a] = NoTask
    BY <1>3, ArgType, ActorEnter DEF ContinueProcess, CtlOK, OthersStay, Enter
  <2>2. /\ SameTask(u)
    BY <2>1, <1>3 DEF ContinueProcess, DataOK
  <2>3. \A v \in Tasks \ {u} : SameTask(v)
    BY <2>1, <1>3 DEF ContinueProcess, DataOK
  <2>4. CASE t # u
    BY <2>1, <2>3, <2>4, OtherTask
  <2>5. CASE t = u
    <3>1. BeingEnqueued(t) => BeingEnqueued(t)'
      BY <2>1, <2>2, <2>5, EnqueuerStays DEF Enqueues
    <3>2. CallsOk(t)'
      BY <2>1, <2>2, <2>5 DEF TaskInv, CallsOk, OthersStay
    <3>3. SwitchOk(t)'
      BY <2>1, <2>2, <2>5 DEF TaskInv, SwitchOk, OthersStay
    <3>4. Placed(t)'
      BY <2>1, <2>2, <2>5, <3>1 DEF TaskInv, Placed, Unowned, OthersStay
    <3>5. Served(t)'
      BY <2>1, <2>2, <2>5
         DEF TaskInv, Served, Exiting, OnStack, Waker, CallsOk, SwitchOk, Remembered, OthersStay
    <3>6. Remembered(t)'
      BY <2>1, <2>2, <2>5 DEF TaskInv, Remembered, Waker, CallsOk, OthersStay
    <3> QED BY <3>2, <3>3, <3>4, <3>5, <3>6 DEF TaskInv
  <2> QED BY <2>4, <2>5
<1>4. ASSUME NEW a \in Agents, NEW u \in Tasks, FinishSignaledProcess(a, u) PROVE TaskInv(t)'
  <2>1. /\ u \in Tasks
        /\ OthersStay(a)
        /\ pc[a] = "idle"
        /\ pc'[a] = "kill"
        /\ arg'[a] = u
        /\ op'[a] = "kill"
        /\ arg[a] = NoTask
    BY <1>4, ArgType, ActorEnter DEF FinishSignaledProcess, CtlOK, OthersStay, Enter
  <2>2. /\ SameOwner(u)
        /\ SameState(u)
        /\ SameStop(u)
        /\ SameOwed(u)
        /\ SameDrop(u)
        /\ zombieFlag'[u] = zombieFlag[u]
        /\ procZombie'[u]
    BY <2>1, <1>4 DEF FinishSignaledProcess, DataOK
  <2>3. \A v \in Tasks \ {u} : SameTask(v)
    BY <2>1, <1>4 DEF FinishSignaledProcess, DataOK
  <2>4. CASE t # u
    BY <2>1, <2>3, <2>4, OtherTask
  <2>5. CASE t = u
    <3>1. BeingEnqueued(t) => BeingEnqueued(t)'
      BY <2>1, <2>2, <2>5, EnqueuerStays DEF Enqueues
    <3>2. CallsOk(t)'
      BY <2>1, <2>2, <2>5 DEF TaskInv, CallsOk, OthersStay
    <3>3. SwitchOk(t)'
      BY <2>1, <2>2, <2>5 DEF TaskInv, SwitchOk, OthersStay
    <3>4. Placed(t)'
      BY <2>1, <2>2, <2>5, <3>1 DEF TaskInv, Placed, Unowned, OthersStay
    <3>5. Served(t)'
      BY <2>1, <2>2, <2>5
         DEF TaskInv, Served, Exiting, OnStack, Waker, CallsOk, SwitchOk, Remembered, OthersStay
    <3>6. Remembered(t)'
      BY <2>1, <2>2, <2>5 DEF TaskInv, Remembered, Waker, CallsOk, OthersStay
    <3> QED BY <3>2, <3>3, <3>4, <3>5, <3>6 DEF TaskInv
  <2> QED BY <2>4, <2>5
<1>5. ASSUME NEW a \in Agents, NEW u \in Tasks, WakeZombie(a, u) PROVE TaskInv(t)'
  <2>1. /\ u \in Tasks
        /\ OthersStay(a)
        /\ pc[a] \in {"idle", "wake"}
        /\ arg[a] \in {NoTask, u}
        /\ pc'[a] \in {"loop", "idle", "deliver"}
        /\ arg'[a] \in {NoTask, arg[a]}
    BY <1>5, ArgType, ActorDone DEF WakeZombie, Waking, CtlOK, OthersStay
  <2>2. /\ status[u] = "Zombie"
        /\ SameTask(u)
    BY <2>1, <1>5 DEF WakeZombie, Waking, DataOK
  <2>3. \A v \in Tasks \ {u} : SameTask(v)
    BY <2>1, <1>5 DEF WakeZombie, Waking, DataOK
  <2>4. CASE t # u
    BY <2>1, <2>3, <2>4, OtherTask
  <2>5. CASE t = u
    <3>1. CallsOk(t)'
      BY <2>1, <2>2, <2>5 DEF TaskInv, CallsOk, OthersStay
    <3>2. SwitchOk(t)'
      BY <2>1, <2>2, <2>5 DEF TaskInv, SwitchOk, OthersStay
    <3>3. Placed(t)'
      BY <2>1, <2>2, <2>5 DEF TaskInv, Placed, Unowned, BeingEnqueued, CallsOk, OthersStay
    <3>4. Served(t)'
      BY <2>1, <2>2, <2>5
         DEF TaskInv, Served, Exiting, OnStack, Waker, CallsOk, SwitchOk, Remembered, OthersStay
    <3>5. Remembered(t)'
      BY <2>1, <2>2, <2>5
         DEF OwnerInv, StackInv, TaskInv, Remembered, Waker, CallsOk, OthersStay
    <3> QED BY <3>1, <3>2, <3>3, <3>4, <3>5 DEF TaskInv
  <2> QED BY <2>4, <2>5
<1>6. ASSUME NEW a \in Agents, NEW u \in Tasks, WakeStopped(a, u) PROVE TaskInv(t)'
  <2>1. /\ u \in Tasks
        /\ OthersStay(a)
        /\ pc[a] \in {"idle", "wake"}
        /\ arg[a] \in {NoTask, u}
        /\ pc'[a] \in {"loop", "idle", "deliver"}
        /\ arg'[a] \in {NoTask, arg[a]}
    BY <1>6, ArgType, ActorDone DEF WakeStopped, Waking, CtlOK, OthersStay
  <2>2. /\ groupStopped[u]
        /\ groupStopped'[u]
        /\ stopResume'[u]
        /\ pending'[u]
        /\ status'[u] = status[u]
        /\ requeue'[u] = requeue[u]
        /\ owed'[u]
        /\ u \in parked' <=> u \in parked
        /\ SameOwner(u)
        /\ SameKill(u)
        /\ SameDrop(u)
    BY <2>1, <1>6 DEF WakeStopped, Waking, DataOK
  <2>3. \A v \in Tasks \ {u} : SameTask(v)
    BY <2>1, <1>6 DEF WakeStopped, Waking, DataOK
  <2>4. CASE t # u
    BY <2>1, <2>3, <2>4, OtherTask
  <2>5. CASE t = u
    <3>1. CallsOk(t)'
      BY <2>1, <2>2, <2>5 DEF TaskInv, CallsOk, OthersStay
    <3>2. SwitchOk(t)'
      BY <2>1, <2>2, <2>5 DEF TaskInv, SwitchOk, OthersStay
    <3>3. Placed(t)'
      BY <2>1, <2>2, <2>5 DEF TaskInv, Placed, Unowned, BeingEnqueued, CallsOk, OthersStay
    <3>4. Served(t)'
      BY <2>1, <2>2, <2>5
         DEF TaskInv, Served, Exiting, OnStack, Waker, CallsOk, SwitchOk, Remembered, OthersStay
    <3>5. Remembered(t)'
      BY <2>1, <2>2, <2>5 DEF TaskInv, Remembered, Waker, CallsOk, OthersStay
    <3> QED BY <3>1, <3>2, <3>3, <3>4, <3>5 DEF TaskInv
  <2> QED BY <2>4, <2>5
<1>7. ASSUME NEW a \in Agents, NEW u \in Tasks, WakeOnCpu(a, u) PROVE TaskInv(t)'
  <2>1. /\ u \in Tasks
        /\ OthersStay(a)
        /\ pc[a] \in {"idle", "wake"}
        /\ arg[a] \in {NoTask, u}
        /\ pc'[a] \in {"loop", "idle", "deliver"}
        /\ arg'[a] \in {NoTask, arg[a]}
    BY <1>7, ArgType, ActorDone DEF WakeOnCpu, Waking, WakeRequeues, CtlOK, OthersStay
  <2>2. /\ onCpu[u] # NoCpu \/ status[u] = "Running"
        /\ status'[u] = IF status[u] = "Running" THEN "Running" ELSE "Ready"
        /\ requeue'[u] = (requeue[u] \/ status[u] = "Blocked")
        /\ pending'[u]
        /\ owed'[u]
        /\ status[u] \notin {"None", "Zombie"}
        /\ SameOwner(u)
        /\ SameStop(u)
        /\ SameKill(u)
        /\ SameDrop(u)
    BY <2>1, <1>7 DEF WakeOnCpu, Waking, WakeRequeues, DataOK
  <2>3. \A v \in Tasks \ {u} : SameTask(v)
    BY <2>1, <1>7 DEF WakeOnCpu, Waking, WakeRequeues, DataOK
  <2>4. CASE t # u
    BY <2>1, <2>3, <2>4, OtherTask
  <2>5. CASE t = u
    <3>1. CallsOk(t)'
      BY <2>1, <2>2, <2>5 DEF TaskInv, CallsOk, OthersStay
    <3>2. SwitchOk(t)'
      BY <2>1, <2>2, <2>5 DEF TaskInv, SwitchOk, OthersStay
    <3>3. Placed(t)'
      BY <2>1, <2>2, <2>5 DEF TaskInv, Placed, Unowned, BeingEnqueued, CallsOk, OthersStay
    <3>4. Served(t)'
      BY <2>1, <2>2, <2>5
         DEF TaskInv, Served, Exiting, OnStack, Waker, CallsOk, SwitchOk, Remembered, OthersStay
    <3>5. Remembered(t)'
      BY <2>1, <2>2, <2>5 DEF TaskInv, Remembered, Waker, CallsOk, OthersStay
    <3> QED BY <3>1, <3>2, <3>3, <3>4, <3>5 DEF TaskInv
  <2> QED BY <2>4, <2>5
<1>8. ASSUME NEW a \in Agents, NEW u \in Tasks, WakeReady(a, u) PROVE TaskInv(t)'
  <2>1. /\ u \in Tasks
        /\ OthersStay(a)
        /\ pc[a] \in {"idle", "wake"}
        /\ arg[a] \in {NoTask, u}
        /\ pc'[a] = "recheck"
        /\ arg'[a] = u
    BY <1>8, ArgType DEF WakeReady, Waking, CtlOK, OthersStay
  <2>2. /\ status[u] = "Ready"
        /\ onCpu[u] = NoCpu
        /\ SameTask(u)
    BY <2>1, <1>8 DEF WakeReady, Waking, DataOK
  <2>3. \A v \in Tasks \ {u} : SameTask(v)
    BY <2>1, <1>8 DEF WakeReady, Waking, DataOK
  <2>4. CASE t # u
    BY <2>1, <2>3, <2>4, OtherTask
  <2>5. CASE t = u
    <3>1. CallsOk(t)'
      BY <2>1, <2>2, <2>5 DEF TaskInv, CallsOk, OthersStay
    <3>2. SwitchOk(t)'
      BY <2>1, <2>2, <2>5 DEF TaskInv, SwitchOk, OthersStay
    <3>3. Placed(t)'
      BY <2>1, <2>2, <2>5 DEF TaskInv, Placed, Unowned, BeingEnqueued, CallsOk, OthersStay
    <3>4. Served(t)'
      BY <2>1, <2>2, <2>5
         DEF TaskInv, Served, Exiting, OnStack, Waker, CallsOk, SwitchOk, Remembered, OthersStay
    <3>5. Remembered(t)'
      BY <2>1, <2>2, <2>5, OneHart
         DEF TaskInv, Remembered, Waker, CallsOk, OthersStay, OwnerPcs
    <3> QED BY <3>1, <3>2, <3>3, <3>4, <3>5 DEF TaskInv
  <2> QED BY <2>4, <2>5
<1>9. ASSUME NEW a \in Agents, NEW u \in Tasks, WakeBlocked(a, u) PROVE TaskInv(t)'
  <2>1. /\ u \in Tasks
        /\ OthersStay(a)
        /\ pc[a] \in {"idle", "wake"}
        /\ arg[a] \in {NoTask, u}
        /\ pc'[a] = "add"
        /\ arg'[a] = u
    BY <1>9, ArgType DEF WakeBlocked, Waking, WakesSleeper, CtlOK, OthersStay
  <2>2. /\ onCpu[u] = NoCpu
        /\ status'[u] = "Ready"
        /\ requeue'[u] = requeue[u]
        /\ pending'[u] = pending[u]
        /\ owed'[u]
        /\ SameOwner(u)
        /\ SameStop(u)
        /\ SameKill(u)
        /\ SameDrop(u)
    BY <2>1, <1>9 DEF WakeBlocked, Waking, WakesSleeper, DataOK
  <2>3. \A v \in Tasks \ {u} : SameTask(v)
    BY <2>1, <1>9 DEF WakeBlocked, Waking, WakesSleeper, DataOK
  <2>4. CASE t # u
    BY <2>1, <2>3, <2>4, OtherTask
  <2>5. CASE t = u
    <3>1. CallsOk(t)'
      BY <2>1, <2>2, <2>5 DEF TaskInv, CallsOk, OthersStay
    <3>2. SwitchOk(t)'
      BY <2>1, <2>2, <2>5, OneHart DEF TaskInv, SwitchOk, OthersStay, OwnerPcs
    <3>3. Placed(t)'
      BY <2>1, <2>2, <2>5 DEF TaskInv, Placed, Unowned, BeingEnqueued, CallsOk, OthersStay
    <3>4. Served(t)'
      BY <2>1, <2>2, <2>5
         DEF TaskInv, Served, Exiting, OnStack, Waker, CallsOk, SwitchOk, Remembered, OthersStay
    <3>5. Remembered(t)'
      BY <2>1, <2>2, <2>5, OneHart
         DEF TaskInv, Remembered, Waker, CallsOk, OthersStay, OwnerPcs
    <3> QED BY <3>1, <3>2, <3>3, <3>4, <3>5 DEF TaskInv
  <2> QED BY <2>4, <2>5
<1>10. ASSUME NEW a \in Agents, WakeRecheck(a) PROVE TaskInv(t)'
  <2> DEFINE u == arg[a]
  <2>1. /\ u \in Tasks
        /\ OthersStay(a)
        /\ pc[a] = "recheck"
        /\ \/ ~Unowned(u) /\ pc'[a] \in {"loop", "idle", "deliver"} /\ arg'[a] \in {NoTask, u}
           \/ pc'[a] = "add" /\ arg'[a] = u
    BY <1>10, ArgType, ActorDone, ActorGoto DEF WakeRecheck, CtlOK, OthersStay
  <2>2. /\ SameTask(u)
    BY <2>1, <1>10 DEF WakeRecheck, DataOK
  <2>3. \A v \in Tasks \ {u} : SameTask(v)
    BY <2>1, <1>10 DEF WakeRecheck, DataOK
  <2> HIDE DEF u
  <2>4. CASE t # u
    BY <2>1, <2>3, <2>4, OtherTask DEF u
  <2>5. CASE t = u
    <3>1. arg[a] = t
      BY <2>5 DEF u
    <3>2. CallsOk(t)'
      BY <2>1, <2>2, <2>5, <3>1 DEF TaskInv, CallsOk, OthersStay
    <3>3. SwitchOk(t)'
      BY <2>1, <2>2, <2>5, <3>1 DEF TaskInv, SwitchOk, OthersStay
    <3>4. Placed(t)'
      BY <2>1, <2>2, <2>5, <3>1
         DEF TaskInv, Placed, Unowned, BeingEnqueued, CallsOk, OthersStay
    <3>5. Served(t)'
      BY <2>1, <2>2, <2>5, <3>1
         DEF TaskInv, Served, Exiting, OnStack, Waker, CallsOk, SwitchOk, Remembered, OthersStay
    <3>6. Remembered(t)'
      BY <2>1, <2>2, <2>5, <3>1 DEF TaskInv, Remembered, Waker, CallsOk, OthersStay
    <3> QED BY <3>2, <3>3, <3>4, <3>5, <3>6 DEF TaskInv
  <2> QED BY <2>4, <2>5
<1>11. ASSUME NEW a \in Actors, AddTaskToCpu(a) PROVE TaskInv(t)'
  <2> DEFINE u == arg[a]
  <2>1. /\ u \in Tasks
        /\ OthersStay(a)
        /\ pc[a] = "add"
        /\ \/ status[u] # "Ready" /\ pc'[a] \in {"loop", "idle", "deliver"} /\ arg'[a] \in {NoTask, u}
           \/ pc'[a] = "check" /\ arg'[a] = u
    BY <1>11, ArgType, ActorDone, ActorGoto DEF AddTaskToCpu, CtlOK, OthersStay
  <2>2. /\ SameTask(u)
    BY <2>1, <1>11 DEF AddTaskToCpu, DataOK
  <2>3. \A v \in Tasks \ {u} : SameTask(v)
    BY <2>1, <1>11 DEF AddTaskToCpu, DataOK
  <2> HIDE DEF u
  <2>4. CASE t # u
    BY <2>1, <2>3, <2>4, OtherTask DEF u
  <2>5. CASE t = u
    <3>1. arg[a] = t
      BY <2>5 DEF u
    <3>2. CallsOk(t)'
      BY <2>1, <2>2, <2>5, <3>1 DEF TaskInv, CallsOk, OthersStay
    <3>3. SwitchOk(t)'
      BY <2>1, <2>2, <2>5, <3>1 DEF TaskInv, SwitchOk, OthersStay
    <3>4. Placed(t)'
      BY <2>1, <2>2, <2>5, <3>1
         DEF TaskInv, Placed, Unowned, BeingEnqueued, CallsOk, OthersStay
    <3>5. Served(t)'
      BY <2>1, <2>2, <2>5, <3>1
         DEF TaskInv, Served, Exiting, OnStack, Waker, CallsOk, SwitchOk, Remembered, OthersStay
    <3>6. Remembered(t)'
      BY <2>1, <2>2, <2>5, <3>1 DEF TaskInv, Remembered, Waker, CallsOk, OthersStay
    <3> QED BY <3>2, <3>3, <3>4, <3>5, <3>6 DEF TaskInv
  <2> QED BY <2>4, <2>5
<1>12. ASSUME NEW a \in Actors, NEW d \in Cpus, EnqueueCheck(a, d) PROVE TaskInv(t)'
  <2> DEFINE u == arg[a]
  <2>1. /\ u \in Tasks
        /\ OthersStay(a)
        /\ pc[a] = "check"
        /\ \/ ~Unowned(u) /\ pc'[a] \in {"loop", "idle", "deliver"} /\ arg'[a] \in {NoTask, u}
           \/ pc'[a] = "mark" /\ arg'[a] = u
    BY <1>12, ArgType, ActorDone DEF EnqueueCheck, CtlOK, OthersStay
  <2>2. /\ SameTask(u)
    BY <2>1, <1>12 DEF EnqueueCheck, DataOK
  <2>3. \A v \in Tasks \ {u} : SameTask(v)
    BY <2>1, <1>12 DEF EnqueueCheck, DataOK
  <2> HIDE DEF u
  <2>4. CASE t # u
    BY <2>1, <2>3, <2>4, OtherTask DEF u
  <2>5. CASE t = u
    <3>1. arg[a] = t
      BY <2>5 DEF u
    <3>2. CallsOk(t)'
      BY <2>1, <2>2, <2>5, <3>1 DEF TaskInv, CallsOk, OthersStay
    <3>3. SwitchOk(t)'
      BY <2>1, <2>2, <2>5, <3>1 DEF TaskInv, SwitchOk, OthersStay
    <3>4. Placed(t)'
      BY <2>1, <2>2, <2>5, <3>1
         DEF TaskInv, Placed, Unowned, BeingEnqueued, CallsOk, OthersStay
    <3>5. Served(t)'
      BY <2>1, <2>2, <2>5, <3>1
         DEF TaskInv, Served, Exiting, OnStack, Waker, CallsOk, SwitchOk, Remembered, OthersStay
    <3>6. Remembered(t)'
      BY <2>1, <2>2, <2>5, <3>1 DEF TaskInv, Remembered, Waker, CallsOk, OthersStay
    <3> QED BY <3>2, <3>3, <3>4, <3>5, <3>6 DEF TaskInv
  <2> QED BY <2>4, <2>5
<1>13. ASSUME NEW a \in Actors, EnqueueMark(a) PROVE TaskInv(t)'
  <2> DEFINE u == arg[a]
  <2>1. /\ u \in Tasks
        /\ OthersStay(a)
        /\ pc[a] = "mark"
        /\ pc'[a] \in {"loop", "idle", "deliver"}
        /\ arg'[a] \in {NoTask, arg[a]}
    BY <1>13, ArgType, ActorDone DEF EnqueueMark, CtlOK, OthersStay
  <2>2. /\ onCpu'[u] = onCpu[u]
        /\ queued'[u] # NoCpu
        /\ SameState(u)
        /\ SameStop(u)
        /\ SameKill(u)
        /\ SameOwed(u)
        /\ onCpu[u] # NoCpu => SameDrop(u)
    BY <2>1, <1>13, ArgType DEF EnqueueMark, DataOK
  <2>3. \A v \in Tasks \ {u} : SameTask(v)
    BY <2>1, <1>13 DEF EnqueueMark, DataOK
  <2> HIDE DEF u
  <2>4. CASE t # u
    BY <2>1, <2>3, <2>4, OtherTask DEF u
  <2>5. CASE t = u
    <3>1. arg[a] = t
      BY <2>5 DEF u
    <3>2. CallsOk(t)'
      BY <2>1, <2>2, <2>5, <3>1 DEF TaskInv, CallsOk, OthersStay
    <3>3. SwitchOk(t)'
      <4>1. \A c \in Cpus : arg'[c] = t /\ pc'[c] \in {"exiting", "detach", "switch"}
                           => arg[c] = t /\ pc'[c] = pc[c] /\ onCpu[t] # NoCpu
        BY <2>1, OneHart DEF OthersStay, OwnerPcs
      <4> QED BY <2>2, <2>5, <4>1 DEF TaskInv, SwitchOk
    <3>4. Placed(t)'
      BY <2>1, <2>2, <2>5, <3>1
         DEF TaskInv, Placed, Unowned, BeingEnqueued, CallsOk, OthersStay
    <3>5. Served(t)'
      BY <2>1, <2>2, <2>5, <3>1
         DEF TaskInv, Served, Exiting, OnStack, Waker, CallsOk, SwitchOk, Remembered, OthersStay
    <3>6. Remembered(t)'
      BY <2>1, <2>2, <2>5, <3>1 DEF TaskInv, Remembered, Waker, CallsOk, OthersStay
    <3> QED BY <3>2, <3>3, <3>4, <3>5, <3>6 DEF TaskInv
  <2> QED BY <2>4, <2>5
<1>14. ASSUME NEW a \in Agents, RemoveTask(a) PROVE TaskInv(t)'
  <2> DEFINE u == arg[a]
  <2>1. /\ u \in Tasks
        /\ OthersStay(a)
        /\ pc[a] = "remove"
        /\ \/ queued[u] = NoCpu /\ op[a] = "kill" /\ pc'[a] = "wake" /\ arg'[a] = u
           \/ queued[u] = NoCpu /\ op[a] # "kill" /\ pc'[a] \in {"idle", "deliver"} /\ arg'[a] \in {NoTask, u}
           \/ queued[u] # NoCpu /\ pc'[a] = "decr" /\ arg'[a] = u /\ op'[a] = op[a]
    BY <1>14, ArgType, ActorAfterRemove DEF RemoveTask, CtlOK, OthersStay
  <2>2. /\ onCpu'[u] = onCpu[u]
        /\ u \in dropped => u \in dropped'
        /\ t # u \/ queued[u] = NoCpu \/ op[a] = "kill" \/ (groupStopped[u] /\ stopResume[u]) \/ u \in dropped' 
        /\ queued[u] = NoCpu => queued'[u] = NoCpu
        /\ SameState(u)
        /\ SameStop(u)
        /\ SameKill(u)
        /\ SameOwed(u)
    <3>1. SameState(u) /\ SameStop(u) /\ SameKill(u) /\ SameOwed(u) /\ onCpu'[u] = onCpu[u]
      BY <1>14 DEF RemoveTask, SameState, SameStop, SameKill, SameOwed
    <3>2. queued[u] = NoCpu => queued' = queued
      BY <1>14 DEF RemoveTask
    <3>3. dropped' = IF op[a] = "stop" /\ queued[u] # NoCpu /\ ~(groupStopped[u] /\ stopResume[u])
                       THEN dropped \cup {u} ELSE dropped
      BY <1>14 DEF RemoveTask
    <3>4. t = u => op[a] \in {"stop", "kill"}
      BY <2>1 DEF TaskInv, CallsOk
    <3> QED BY <3>1, <3>2, <3>3, <3>4
  <2>3. \A v \in Tasks \ {u} : SameTask(v)
    BY <2>1, <1>14 DEF RemoveTask, DataOK
  <2> HIDE DEF u
  <2>4. CASE t # u
    BY <2>1, <2>3, <2>4, OtherTask DEF u
  <2>5. CASE t = u
    <3>1. arg[a] = t
      BY <2>5 DEF u
    <3>2. BeingEnqueued(t) => BeingEnqueued(t)'
      BY <2>1, <2>2, <2>5, <3>1, EnqueuerStays DEF Enqueues
    <3>3. Waker(t) => Waker(t)'
      BY <2>1, <2>2, <2>5, <3>1, WakerStays DEF Wakes
    <3>4. CallsOk(t)'
      BY <2>1, <2>2, <2>5, <3>1 DEF TaskInv, CallsOk, OthersStay
    <3>5. SwitchOk(t)'
      BY <2>1, <2>2, <2>5, <3>1 DEF TaskInv, SwitchOk, OthersStay
    <3>6. Placed(t)'
      BY <2>1, <2>2, <2>5, <3>1, <3>2
         DEF TaskInv, Placed, Unowned, BeingEnqueued, OthersStay
    <3>7. Served(t)'
      BY <2>1, <2>2, <2>5, <3>1, <3>3
         DEF TaskInv, Served, Exiting, OnStack, CallsOk, SwitchOk, Remembered, OthersStay
    <3>8. Remembered(t)'
      BY <2>1, <2>2, <2>5, <3>1, <3>3 DEF TaskInv, Remembered, CallsOk, OthersStay
    <3> QED BY <3>4, <3>5, <3>6, <3>7, <3>8 DEF TaskInv
  <2> QED BY <2>4, <2>5
<1>15. ASSUME NEW a \in Agents, DecrementReadyTasks(a) PROVE TaskInv(t)'
  <2> DEFINE u == arg[a]
  <2>1. /\ u \in Tasks
        /\ OthersStay(a)
        /\ pc[a] = "decr"
        /\ IF op[a] = "kill" THEN pc'[a] = "wake" /\ arg'[a] = u 
                             ELSE pc'[a] \in {"idle", "deliver"} /\ arg'[a] \in {NoTask, arg[a]}
    BY <1>15, ArgType, ActorAfterRemove DEF DecrementReadyTasks, CtlOK, OthersStay
  <2>2. /\ SameTask(u)
    BY <2>1, <1>15 DEF DecrementReadyTasks, DataOK
  <2>3. \A v \in Tasks \ {u} : SameTask(v)
    BY <2>1, <1>15 DEF DecrementReadyTasks, DataOK
  <2> HIDE DEF u
  <2>4. CASE t # u
    BY <2>1, <2>3, <2>4, OtherTask DEF u
  <2>5. CASE t = u
    <3>1. arg[a] = t
      BY <2>5 DEF u
    <3>2. BeingEnqueued(t) => BeingEnqueued(t)'
      BY <2>1, <2>2, <2>5, <3>1, EnqueuerStays DEF Enqueues
    <3>3. Waker(t) => Waker(t)'
      BY <2>1, <2>2, <2>5, <3>1, WakerStays DEF Wakes
    <3>4. CallsOk(t)'
      BY <2>1, <2>2, <2>5, <3>1 DEF TaskInv, CallsOk, OthersStay
    <3>5. SwitchOk(t)'
      BY <2>1, <2>2, <2>5, <3>1 DEF TaskInv, SwitchOk, OthersStay
    <3>6. Placed(t)'
      BY <2>1, <2>2, <2>5, <3>1, <3>2 DEF TaskInv, Placed, Unowned, OthersStay
    <3>7. Served(t)'
      BY <2>1, <2>2, <2>5, <3>1, <3>3
         DEF TaskInv, Served, Exiting, OnStack, CallsOk, SwitchOk, Remembered, OthersStay
    <3>8. Remembered(t)'
      BY <2>1, <2>2, <2>5, <3>1, <3>3 DEF TaskInv, Remembered, CallsOk, OthersStay
    <3> QED BY <3>4, <3>5, <3>6, <3>7, <3>8 DEF TaskInv
  <2> QED BY <2>4, <2>5
<1>16. ASSUME NEW a \in Agents, StopTask(a) PROVE TaskInv(t)'
  <2> DEFINE u == arg[a]
  <2>1. /\ u \in Tasks
        /\ OthersStay(a)
        /\ pc[a] = "stop"
        /\ \/ status[u] = "Zombie" /\ pc'[a] \in {"loop", "idle", "deliver"} /\ arg'[a] \in {NoTask, u}
           \/ status[u] # "Zombie" /\ pc'[a] = "remove" /\ arg'[a] = u /\ op'[a] = op[a]
    BY <1>16, ArgType, ActorDone, ActorGoto DEF StopTask, CtlOK, OthersStay
  <2>2. /\ \/ SameState(u) /\ SameStop(u)
           \/ status'[u] = "Blocked" /\ ~requeue'[u] /\ groupStopped'[u] /\ stopResume'[u]
           \/ /\ status'[u] = status[u] /\ requeue'[u] = requeue[u]
              /\ ~(groupStopped[u] /\ stopResume[u]) /\ groupStopped'[u]
              /\ status[u] = "Ready" => groupStopped[u]
        /\ pending'[u] = pending[u]
        /\ SameOwner(u)
        /\ SameKill(u)
        /\ SameOwed(u)
        /\ SameDrop(u)
    <3>1. SameOwner(u) /\ SameKill(u) /\ SameOwed(u) /\ SameDrop(u) /\ pending'[u] = pending[u]
      BY <1>16 DEF StopTask, SameOwner, SameKill, SameOwed, SameDrop
    <3>2. CASE status[u] = "Zombie"
      BY <3>1, <3>2, <1>16 DEF StopTask, SameState, SameStop
    <3>3. CASE status[u] # "Zombie"
      <4> DEFINE resume == IF groupStopped[u] THEN stopResume[u] ELSE status[u] \in {"Ready", "Running"}
      <4>1. /\ groupStopped' = [groupStopped EXCEPT ![u] = TRUE]
            /\ stopResume' = [stopResume EXCEPT ![u] = resume]
            /\ status' = [status EXCEPT ![u] = IF resume THEN "Blocked" ELSE @]
            /\ requeue' = [requeue EXCEPT ![u] = @ /\ ~resume]
        BY <3>3, <1>16 DEF StopTask
      <4>2. CASE resume
        <5>1. status'[u] = "Blocked" /\ ~requeue'[u] /\ groupStopped'[u] /\ stopResume'[u]
          BY <4>1, <4>2, <2>1 DEF DataOK
        <5> QED BY <3>1, <5>1
      <4>3. CASE ~resume
        <5>1. /\ status'[u] = status[u] /\ requeue'[u] = requeue[u] /\ groupStopped'[u]
              /\ ~(groupStopped[u] /\ stopResume[u])
              /\ status[u] = "Ready" => groupStopped[u]
          BY <4>1, <4>3, <2>1 DEF DataOK
        <5> QED BY <3>1, <5>1
      <4> QED BY <4>2, <4>3
    <3> QED BY <3>2, <3>3
  <2>3. \A v \in Tasks \ {u} : SameTask(v)
    BY <2>1, <1>16 DEF StopTask, DataOK
  <2> HIDE DEF u
  <2>4. CASE t # u
    BY <2>1, <2>3, <2>4, OtherTask DEF u
  <2>5. CASE t = u
    <3>1. arg[a] = t
      BY <2>5 DEF u
    <3>2. BeingEnqueued(t) => BeingEnqueued(t)'
      BY <2>1, <2>2, <2>5, <3>1, EnqueuerStays DEF Enqueues
    <3>3. Waker(t) => Waker(t)'
      BY <2>1, <2>2, <2>5, <3>1, WakerStays DEF Wakes
    <3>4. CallsOk(t)'
      BY <2>1, <2>2, <2>5, <3>1 DEF TaskInv, CallsOk, OthersStay
    <3>5. SwitchOk(t)'
      BY <2>1, <2>2, <2>5, <3>1 DEF TaskInv, SwitchOk, OthersStay
    <3>6. Placed(t)'
      BY <2>1, <2>2, <2>5, <3>1, <3>2 DEF TaskInv, Placed, Unowned, OthersStay
    <3>7. Served(t)'
      BY <2>1, <2>2, <2>5, <3>1, <3>3
         DEF TaskInv, Served, Exiting, OnStack, CallsOk, SwitchOk, Remembered, OthersStay
    <3>8. Remembered(t)'
      BY <2>1, <2>2, <2>5, <3>1, <3>3 DEF TaskInv, Remembered, CallsOk, OthersStay
    <3> QED BY <3>4, <3>5, <3>6, <3>7, <3>8 DEF TaskInv
  <2> QED BY <2>4, <2>5
<1>17. ASSUME NEW a \in Agents, ContinueTask(a) PROVE TaskInv(t)'
  <2> DEFINE u == arg[a]
  <2>1. /\ u \in Tasks
        /\ OthersStay(a)
        /\ pc[a] = "cont"
        /\ \/ pc'[a] = "wake" /\ arg'[a] = u
           \/ ~(groupStopped[u] /\ stopResume[u] /\ status[u] # "Zombie")
              /\ pc'[a] \in {"loop", "idle", "deliver"} /\ arg'[a] \in {NoTask, u}
    BY <1>17, ArgType, ActorDone, ActorGoto DEF ContinueTask, CtlOK, OthersStay
  <2>2. /\ ~groupStopped'[u]
        /\ status'[u] = status[u]
        /\ requeue'[u] = requeue[u]
        /\ pending'[u] = pending[u] \/ pc'[a] = "wake"
        /\ SameOwner(u)
        /\ SameKill(u)
        /\ SameOwed(u)
        /\ SameDrop(u)
    BY <2>1, <1>17 DEF ContinueTask, DataOK
  <2>3. \A v \in Tasks \ {u} : SameTask(v)
    BY <2>1, <1>17 DEF ContinueTask, DataOK
  <2> HIDE DEF u
  <2>4. CASE t # u
    BY <2>1, <2>3, <2>4, OtherTask DEF u
  <2>5. CASE t = u
    <3>1. arg[a] = t
      BY <2>5 DEF u
    <3>2. BeingEnqueued(t) => BeingEnqueued(t)'
      BY <2>1, <2>2, <2>5, <3>1, EnqueuerStays DEF Enqueues
    <3>3. Waker(t) => Waker(t)'
      BY <2>1, <2>2, <2>5, <3>1, WakerStays DEF Wakes
    <3>4. pc'[a] = "wake" => Waker(t)'
      BY <2>1, <2>2, <2>5, <3>1 DEF Waker
    <3>5. CallsOk(t)'
      BY <2>1, <2>2, <2>5, <3>1 DEF TaskInv, CallsOk, OthersStay
    <3>6. SwitchOk(t)'
      BY <2>1, <2>2, <2>5, <3>1 DEF TaskInv, SwitchOk, OthersStay
    <3>7. Placed(t)'
      BY <2>1, <2>2, <2>5, <3>1, <3>2
         DEF TaskInv, Placed, Unowned, BeingEnqueued, OthersStay
    <3>8. Served(t)'
      BY <2>1, <2>2, <2>5, <3>1, <3>3, <3>4
         DEF TaskInv, Served, Exiting, OnStack, CallsOk, SwitchOk, Remembered, OthersStay
    <3>9. Remembered(t)'
      BY <2>1, <2>2, <2>5, <3>1, <3>3, <3>4 DEF TaskInv, Remembered, CallsOk, OthersStay
    <3> QED BY <3>5, <3>6, <3>7, <3>8, <3>9 DEF TaskInv
  <2> QED BY <2>4, <2>5
<1>18. ASSUME NEW a \in Agents, RequestTaskExit(a) PROVE TaskInv(t)'
  <2> DEFINE u == arg[a]
  <2>1. /\ u \in Tasks
        /\ OthersStay(a)
        /\ pc[a] = "kill"
        /\ \/ status[u] = "Running" /\ pc'[a] \in {"loop", "idle", "deliver"} /\ arg'[a] \in {NoTask, u}
           \/ pc'[a] = "remove" /\ arg'[a] = u /\ op'[a] = op[a]
    BY <1>18, ArgType, ActorDone, ActorGoto DEF RequestTaskExit, CtlOK, OthersStay
  <2>2. /\ zombieFlag'[u]
        /\ procZombie'[u] = procZombie[u]
        /\ SameOwner(u)
        /\ SameState(u)
        /\ SameStop(u)
        /\ SameOwed(u)
        /\ SameDrop(u)
    BY <2>1, <1>18 DEF RequestTaskExit, DataOK
  <2>3. \A v \in Tasks \ {u} : SameTask(v)
    BY <2>1, <1>18 DEF RequestTaskExit, DataOK
  <2> HIDE DEF u
  <2>4. CASE t # u
    BY <2>1, <2>3, <2>4, OtherTask DEF u
  <2>5. CASE t = u
    <3>1. arg[a] = t
      BY <2>5 DEF u
    <3>2. BeingEnqueued(t) => BeingEnqueued(t)'
      BY <2>1, <2>2, <2>5, <3>1, EnqueuerStays DEF Enqueues
    <3>3. Waker(t) => Waker(t)'
      BY <2>1, <2>2, <2>5, <3>1, WakerStays DEF Wakes
    <3>4. CallsOk(t)'
      BY <2>1, <2>2, <2>5, <3>1 DEF TaskInv, CallsOk, OthersStay
    <3>5. SwitchOk(t)'
      BY <2>1, <2>2, <2>5, <3>1 DEF TaskInv, SwitchOk, OthersStay
    <3>6. Placed(t)'
      BY <2>1, <2>2, <2>5, <3>1, <3>2 DEF TaskInv, Placed, Unowned, OthersStay
    <3>7. Served(t)'
      BY <2>1, <2>2, <2>5, <3>1, <3>3
         DEF TaskInv, Served, Exiting, OnStack, Waker, CallsOk, SwitchOk, Remembered, OthersStay
    <3>8. Remembered(t)'
      BY <2>1, <2>2, <2>5, <3>1, <3>3 DEF TaskInv, Remembered, Waker, CallsOk, OthersStay
    <3> QED BY <3>4, <3>5, <3>6, <3>7, <3>8 DEF TaskInv
  <2> QED BY <2>4, <2>5
<1>f. ASSUME NEW a \in Agents, StartForked(a) PROVE TaskInv(t)'
  <2> DEFINE u == arg[a]
  <2>1. /\ u \in Tasks
        /\ OthersStay(a)
        /\ pc[a] = "start"
        /\ pc'[a] = "add"
        /\ arg'[a] = u
    BY <1>f, ArgType, ActorGoto DEF StartForked, CtlOK, OthersStay
  <2>2. /\ status'[u] = "Ready"
        /\ requeue'[u] = requeue[u]
        /\ pending'[u] = pending[u]
        /\ SameOwner(u)
        /\ SameStop(u)
        /\ SameKill(u)
        /\ owed'[u] = owed[u]
        /\ u \in dropped => u \in dropped'
        /\ status[u] = "Ready" \/ onCpu[u] = NoCpu \/ u \in dropped'
    BY <2>1, <1>f DEF StartForked, DataOK
  <2>3. \A v \in Tasks \ {u} : SameTask(v)
    BY <2>1, <1>f DEF StartForked, DataOK
  <2> HIDE DEF u
  <2>4. CASE t # u
    BY <2>1, <2>3, <2>4, OtherTask DEF u
  <2>5. CASE t = u
    <3>1. arg[a] = t
      BY <2>5 DEF u
    <3>2. CallsOk(t)'
      BY <2>1, <2>2, <2>5, <3>1 DEF TaskInv, CallsOk, OthersStay
    <3>3. SwitchOk(t)'
      <4>1. \A c \in Cpus : arg'[c] = t /\ pc'[c] \in {"exiting", "detach", "switch"}
                           => arg[c] = t /\ pc'[c] = pc[c] /\ onCpu[t] # NoCpu
        BY <2>1, OneHart DEF OthersStay, OwnerPcs
      <4> QED BY <2>2, <2>5, <4>1 DEF TaskInv, SwitchOk
    <3>4. Placed(t)'
      BY <2>1, <2>2, <2>5, <3>1 DEF Placed, BeingEnqueued, EnqueuePcs, Actors
    <3>5. Served(t)'
      BY <2>2, <2>5 DEF Served
    <3>6. Remembered(t)'
      BY <2>1, <2>2, <2>5, <3>1 DEF TaskInv, Remembered, Waker, CallsOk, OthersStay
    <3> QED BY <3>2, <3>3, <3>4, <3>5, <3>6 DEF TaskInv
  <2> QED BY <2>4, <2>5
<1>d. ASSUME NEW a \in Agents, DeliverCont(a) PROVE TaskInv(t)'
  <2> DEFINE u == arg[a]
  <2>1. /\ u \in Tasks
        /\ OthersStay(a)
        /\ pc[a] = "deliver"
        /\ pc'[a] \in {"idle", "wake"}
        /\ arg'[a] \in {NoTask, u}
    <3>1. arg[a] \in Tasks /\ pc[a] = "deliver"
      BY <1>d, ArgType DEF DeliverCont
    <3>2. CASE Leave(a)
      BY <3>1, <3>2 DEF CtlOK, OthersStay
    <3>3. CASE ~Leave(a)
      BY <1>d, <3>1, <3>3 DEF DeliverCont, CtlOK, OthersStay
    <3> QED BY <3>1, <3>2, <3>3
  <2>2. SameTask(u)
    BY <2>1, <1>d DEF DeliverCont, DataOK
  <2>3. \A v \in Tasks \ {u} : SameTask(v)
    BY <2>1, <1>d DEF DeliverCont, DataOK
  <2> HIDE DEF u
  <2>4. CASE t # u
    BY <2>1, <2>3, <2>4, OtherTask DEF u
  <2>5. CASE t = u
    <3>1. arg[a] = t
      BY <2>5 DEF u
    <3>2. BeingEnqueued(t) => BeingEnqueued(t)'
      BY <2>1, <2>2, <2>5, <3>1, EnqueuerStays DEF Enqueues, EnqueuePcs
    <3>3. Waker(t) => Waker(t)'
      BY <2>1, <2>2, <2>5, <3>1, WakerStays DEF Wakes
    <3>4. CallsOk(t)'
      BY <2>1, <2>2, <2>5, <3>1 DEF TaskInv, CallsOk, OthersStay
    <3>5. SwitchOk(t)'
      BY <2>1, <2>2, <2>5, <3>1 DEF TaskInv, SwitchOk, OthersStay
    <3>6. Placed(t)'
      BY <2>2, <2>5, <3>2 DEF TaskInv, Placed, Unowned
    <3>7. Served(t)'
      BY <2>1, <2>2, <2>5, <3>1, <3>3 DEF TaskInv, Served, Exiting, OnStack, OthersStay
    <3>8. Remembered(t)'
      BY <2>1, <2>2, <2>5, <3>1, <3>3 DEF TaskInv, Remembered, OthersStay
    <3> QED BY <3>4, <3>5, <3>6, <3>7, <3>8 DEF TaskInv
  <2> QED BY <2>4, <2>5
<1>19. ASSUME NEW a \in Cpus, NEW u \in Tasks, ClaimTask(a, u) PROVE TaskInv(t)'
  <2>1. /\ u \in Tasks
        /\ OthersStay(a)
        /\ pc[a] = "loop"
        /\ arg[a] = NoTask
        /\ pc'[a] = "claimed"
        /\ arg'[a] = u
    BY <1>19, ArgType DEF ClaimTask, CtlOK, OthersStay
  <2>2. /\ onCpu'[u] # NoCpu
        /\ SameState(u)
        /\ SameStop(u)
        /\ SameKill(u)
        /\ SameOwed(u)
        /\ SameDrop(u)
    BY <2>1, <1>19 DEF ClaimTask, DataOK
  <2>3. \A v \in Tasks \ {u} : SameTask(v)
    BY <2>1, <1>19 DEF ClaimTask, DataOK
  <2>4. CASE t # u
    BY <2>1, <2>3, <2>4, OtherTask
  <2>5. CASE t = u
    <3>1. CallsOk(t)'
      BY <2>1, <2>2, <2>5 DEF TaskInv, CallsOk, OthersStay
    <3>2. SwitchOk(t)'
      BY <2>1, <2>2, <2>5 DEF TaskInv, SwitchOk, OthersStay
    <3>3. Placed(t)'
      BY <2>1, <2>2, <2>5 DEF TaskInv, Placed, Unowned, BeingEnqueued, CallsOk, OthersStay
    <3>4. Served(t)'
      BY <2>1, <2>2, <2>5
         DEF TaskInv, Served, Exiting, OnStack, Waker, CallsOk, SwitchOk, Remembered, OthersStay
    <3>5. Remembered(t)'
      BY <2>1, <2>2, <2>5 DEF TaskInv, Remembered, Waker, CallsOk, OthersStay
    <3> QED BY <3>1, <3>2, <3>3, <3>4, <3>5 DEF TaskInv
  <2> QED BY <2>4, <2>5
<1>20. ASSUME NEW a \in Cpus, NEW u \in Tasks, ReapDeferred(a, u) PROVE TaskInv(t)'
  <2>1. /\ u \in Tasks
        /\ OthersStay(a)
        /\ pc[a] = "loop"
        /\ arg[a] = NoTask
        /\ pc'[a] = "reap"
        /\ arg'[a] = u
    BY <1>20, ArgType DEF ReapDeferred, CtlOK, OthersStay
  <2>2. /\ SameTask(u)
    BY <2>1, <1>20 DEF ReapDeferred, DataOK
  <2>3. \A v \in Tasks \ {u} : SameTask(v)
    BY <2>1, <1>20 DEF ReapDeferred, DataOK
  <2>4. CASE t # u
    BY <2>1, <2>3, <2>4, OtherTask
  <2>5. CASE t = u
    <3>1. BeingEnqueued(t) => BeingEnqueued(t)'
      BY <2>1, <2>2, <2>5, EnqueuerStays DEF Enqueues
    <3>2. CallsOk(t)'
      BY <2>1, <2>2, <2>5 DEF TaskInv, CallsOk, OthersStay
    <3>3. SwitchOk(t)'
      BY <2>1, <2>2, <2>5 DEF TaskInv, SwitchOk, OthersStay
    <3>4. Placed(t)'
      BY <2>1, <2>2, <2>5, <3>1 DEF TaskInv, Placed, Unowned, OthersStay
    <3>5. Served(t)'
      BY <2>1, <2>2, <2>5
         DEF TaskInv, Served, Exiting, OnStack, Waker, CallsOk, SwitchOk, Remembered, OthersStay
    <3>6. Remembered(t)'
      BY <2>1, <2>2, <2>5 DEF TaskInv, Remembered, Waker, CallsOk, OthersStay
    <3> QED BY <3>2, <3>3, <3>4, <3>5, <3>6 DEF TaskInv
  <2> QED BY <2>4, <2>5
<1>21. ASSUME NEW a \in Cpus, DispatchTask(a) PROVE TaskInv(t)'
  <2> DEFINE u == arg[a]
  <2>1. /\ u \in Tasks
        /\ OthersStay(a)
        /\ pc[a] = "claimed"
        /\ pc'[a] \in {"run", "skip"}
        /\ arg'[a] = u
    BY <1>21, ArgType, ActorGoto DEF DispatchTask, CtlOK, OthersStay
  <2>2. /\ \/ status[u] = "Ready" /\ pc'[a] = "run" /\ status'[u] = "Running" /\ ~owed'[u]
           \/ pc'[a] = "skip" /\ status'[u] = status[u] /\ owed'[u] = owed[u]
        /\ requeue'[u] = requeue[u]
        /\ pending'[u] = pending[u]
        /\ u \in parked' <=> u \in parked
        /\ SameOwner(u)
        /\ SameStop(u)
        /\ SameKill(u)
        /\ SameDrop(u)
    BY <2>1, <1>21 DEF DispatchTask, Goto, CtlOK, DataOK
  <2>3. \A v \in Tasks \ {u} : SameTask(v)
    BY <2>1, <1>21 DEF DispatchTask, DataOK
  <2> HIDE DEF u
  <2>4. CASE t # u
    BY <2>1, <2>3, <2>4, OtherTask DEF u
  <2>5. CASE t = u
    <3>1. arg[a] = t
      BY <2>5 DEF u
    <3>2. onCpu[t] = a /\ \A c \in Cpus \ {a} : ~(pc[c] \in OwnerPcs /\ arg[c] = t)
      BY <2>1, <3>1, OneHart DEF OwnerPcs
    <3>3. CallsOk(t)'
      BY <2>1, <2>2, <2>5, <3>1, <3>2 DEF TaskInv, CallsOk, OthersStay, OwnerPcs
    <3>4. SwitchOk(t)'
      BY <2>1, <2>2, <2>5, <3>1, <3>2 DEF TaskInv, SwitchOk, OthersStay, OwnerPcs
    <3>5. Placed(t)'
      BY <2>1, <2>2, <2>5, <3>1, <3>2
         DEF TaskInv, Placed, Unowned, BeingEnqueued, CallsOk, OthersStay, OwnerPcs
    <3>6. Served(t)'
      BY <2>1, <2>2, <2>5, <3>1, <3>2
         DEF TaskInv, Served, Exiting, OnStack, Waker, CallsOk, SwitchOk, Remembered, OthersStay,
             OwnerPcs
    <3>7. Remembered(t)'
      BY <2>1, <2>2, <2>5, <3>1, <3>2
         DEF TaskInv, Remembered, Waker, CallsOk, OthersStay, OwnerPcs
    <3> QED BY <3>3, <3>4, <3>5, <3>6, <3>7 DEF TaskInv
  <2> QED BY <2>4, <2>5
<1>22. ASSUME NEW a \in Cpus, SkipTask(a) PROVE TaskInv(t)'
  <2> DEFINE u == arg[a]
  <2>1. /\ u \in Tasks
        /\ OthersStay(a)
        /\ pc[a] = "skip"
        /\ pc'[a] \in {"loop", "idle", "deliver"}
        /\ arg'[a] \in {NoTask, arg[a]}
    BY <1>22, ArgType, ActorDone DEF SkipTask, CtlOK, OthersStay
  <2>2. /\ queued'[u] = queued[u]
        /\ status[u] = "Ready" => u \in dropped'
        /\ SameState(u)
        /\ SameStop(u)
        /\ SameKill(u)
        /\ SameOwed(u)
    BY <2>1, <1>22 DEF SkipTask, DataOK
  <2>3. \A v \in Tasks \ {u} : SameTask(v)
    BY <2>1, <1>22 DEF SkipTask, DataOK
  <2> HIDE DEF u
  <2>4. CASE t # u
    BY <2>1, <2>3, <2>4, OtherTask DEF u
  <2>5. CASE t = u
    <3>1. arg[a] = t
      BY <2>5 DEF u
    <3>2. onCpu[t] = a /\ \A c \in Cpus \ {a} : ~(pc[c] \in OwnerPcs /\ arg[c] = t)
      BY <2>1, <3>1, OneHart DEF OwnerPcs
    <3>3. CallsOk(t)'
      BY <2>1, <2>2, <2>5, <3>1, <3>2 DEF TaskInv, CallsOk, OthersStay, OwnerPcs
    <3>4. SwitchOk(t)'
      BY <2>1, <2>2, <2>5, <3>1, <3>2 DEF TaskInv, SwitchOk, OthersStay, OwnerPcs
    <3>5. Placed(t)'
      BY <2>1, <2>2, <2>5, <3>1, <3>2
         DEF TaskInv, Placed, Unowned, BeingEnqueued, CallsOk, OthersStay, OwnerPcs
    <3>6. Served(t)'
      BY <2>1, <2>2, <2>5, <3>1, <3>2
         DEF TaskInv, Served, Exiting, OnStack, Waker, CallsOk, SwitchOk, Remembered, OthersStay,
             OwnerPcs
    <3>7. Remembered(t)'
      BY <2>1, <2>2, <2>5, <3>1, <3>2
         DEF TaskInv, Remembered, Waker, CallsOk, OthersStay, OwnerPcs
    <3> QED BY <3>3, <3>4, <3>5, <3>6, <3>7 DEF TaskInv
  <2> QED BY <2>4, <2>5
<1>23. ASSUME NEW a \in Cpus, SwitchedOut(a) PROVE TaskInv(t)'
  <2> DEFINE u == arg[a]
  <2>1. /\ u \in Tasks
        /\ OthersStay(a)
        /\ pc[a] = "switch"
        /\ IF requeue[u] THEN pc'[a] = "add" /\ arg'[a] = u
                         ELSE pc'[a] \in {"loop", "idle", "deliver"} /\ arg'[a] \in {NoTask, u}
    BY <1>23, ArgType, ActorDone, ActorGoto DEF SwitchedOut, CtlOK, OthersStay
  <2>2. /\ IF requeue[u] THEN status'[u] \in {"Ready", "Zombie"} ELSE SameState(u)
        /\ queued'[u] = queued[u]
        /\ SameStop(u)
        /\ SameKill(u)
        /\ SameOwed(u)
        /\ SameDrop(u)
    BY <2>1, <1>23 DEF SwitchedOut, DataOK
  <2>3. \A v \in Tasks \ {u} : SameTask(v)
    BY <2>1, <1>23 DEF SwitchedOut, DataOK
  <2> HIDE DEF u
  <2>4. CASE t # u
    BY <2>1, <2>3, <2>4, OtherTask DEF u
  <2>5. CASE t = u
    <3>1. arg[a] = t
      BY <2>5 DEF u
    <3>2. onCpu[t] = a /\ \A c \in Cpus \ {a} : ~(pc[c] \in OwnerPcs /\ arg[c] = t)
      BY <2>1, <3>1, OneHart DEF OwnerPcs
    <3>3. BeingEnqueued(t) => BeingEnqueued(t)'
      BY <2>1, <2>2, <2>5, <3>1, <3>2, EnqueuerStays DEF Enqueues
    <3>4. CallsOk(t)'
      BY <2>1, <2>2, <2>5, <3>1, <3>2 DEF TaskInv, CallsOk, OthersStay, OwnerPcs
    <3>5. SwitchOk(t)'
      BY <2>1, <2>2, <2>5, <3>1, <3>2 DEF TaskInv, SwitchOk, OthersStay, OwnerPcs
    <3>6. Placed(t)'
      BY <2>1, <2>2, <2>5, <3>1, <3>2, <3>3
         DEF TaskInv, Placed, Unowned, SwitchOk, BeingEnqueued, OthersStay, OwnerPcs
    <3>7. Served(t)'
      BY <2>1, <2>2, <2>5, <3>1, <3>2
         DEF TaskInv, Served, Exiting, OnStack, Waker, CallsOk, SwitchOk, Remembered, OthersStay,
             OwnerPcs
    <3>8. Remembered(t)'
      BY <2>1, <2>2, <2>5, <3>1, <3>2
         DEF TaskInv, Remembered, Waker, CallsOk, OthersStay, OwnerPcs
    <3> QED BY <3>4, <3>5, <3>6, <3>7, <3>8 DEF TaskInv
  <2> QED BY <2>4, <2>5
<1>24. ASSUME NEW a \in Cpus, ReleaseExited(a) PROVE TaskInv(t)'
  <2> DEFINE u == arg[a]
  <2>1. /\ u \in Tasks
        /\ OthersStay(a)
        /\ pc[a] = "reap"
        /\ pc'[a] \in {"loop", "idle", "deliver"}
        /\ arg'[a] \in {NoTask, arg[a]}
    BY <1>24, ArgType, ActorDone DEF ReleaseExited, CtlOK, OthersStay
  <2>2. /\ SameTask(u)
    BY <2>1, <1>24 DEF ReleaseExited, DataOK
  <2>3. \A v \in Tasks \ {u} : SameTask(v)
    BY <2>1, <1>24 DEF ReleaseExited, DataOK
  <2> HIDE DEF u
  <2>4. CASE t # u
    BY <2>1, <2>3, <2>4, OtherTask DEF u
  <2>5. CASE t = u
    <3>1. arg[a] = t
      BY <2>5 DEF u
    <3>2. BeingEnqueued(t) => BeingEnqueued(t)'
      BY <2>1, <2>2, <2>5, <3>1, EnqueuerStays DEF Enqueues
    <3>3. CallsOk(t)'
      BY <2>1, <2>2, <2>5, <3>1 DEF TaskInv, CallsOk, OthersStay
    <3>4. SwitchOk(t)'
      BY <2>1, <2>2, <2>5, <3>1 DEF TaskInv, SwitchOk, OthersStay
    <3>5. Placed(t)'
      BY <2>1, <2>2, <2>5, <3>1, <3>2 DEF TaskInv, Placed, Unowned, OthersStay
    <3>6. Served(t)'
      BY <2>1, <2>2, <2>5, <3>1
         DEF TaskInv, Served, Exiting, OnStack, Waker, CallsOk, SwitchOk, Remembered, OthersStay
    <3>7. Remembered(t)'
      BY <2>1, <2>2, <2>5, <3>1 DEF TaskInv, Remembered, Waker, CallsOk, OthersStay
    <3> QED BY <3>3, <3>4, <3>5, <3>6, <3>7 DEF TaskInv
  <2> QED BY <2>4, <2>5
<1>25. ASSUME NEW a \in Cpus, ScheduleStoppedTask(a) PROVE TaskInv(t)'
  <2> DEFINE u == arg[a]
  <2>1. /\ u \in Tasks
        /\ OthersStay(a)
        /\ pc[a] = "stopping"
        /\ pc'[a] = "switch"
        /\ arg'[a] = u
    BY <1>25, ArgType, ActorGoto DEF ScheduleStoppedTask, CtlOK, OthersStay
  <2>2. /\ status'[u] = "Blocked"
        /\ u \in parked'
        /\ owed'[u] = owed[u]
        /\ SameOwner(u)
        /\ SameStop(u)
        /\ SameKill(u)
        /\ SameDrop(u)
    BY <2>1, <1>25 DEF ScheduleStoppedTask, DataOK
  <2>3. \A v \in Tasks \ {u} : SameTask(v)
    BY <2>1, <1>25 DEF ScheduleStoppedTask, DataOK
  <2> HIDE DEF u
  <2>4. CASE t # u
    BY <2>1, <2>3, <2>4, OtherTask DEF u
  <2>5. CASE t = u
    <3>1. arg[a] = t
      BY <2>5 DEF u
    <3>2. onCpu[t] = a /\ \A c \in Cpus \ {a} : ~(pc[c] \in OwnerPcs /\ arg[c] = t)
      BY <2>1, <3>1, OneHart DEF OwnerPcs
    <3>3. CallsOk(t)'
      BY <2>1, <2>2, <2>5, <3>1, <3>2 DEF TaskInv, CallsOk, OthersStay, OwnerPcs
    <3>4. SwitchOk(t)'
      BY <2>1, <2>2, <2>5, <3>1, <3>2 DEF TaskInv, SwitchOk, OthersStay, OwnerPcs
    <3>5. Placed(t)'
      BY <2>1, <2>2, <2>5, <3>1, <3>2
         DEF TaskInv, Placed, Unowned, BeingEnqueued, CallsOk, OthersStay, OwnerPcs
    <3>6. Served(t)'
      BY <2>1, <2>2, <2>5, <3>1, <3>2
         DEF TaskInv, Served, Exiting, OnStack, Waker, CallsOk, SwitchOk, Remembered, OthersStay,
             OwnerPcs
    <3>7. Remembered(t)'
      BY <2>1, <2>2, <2>5, <3>1, <3>2
         DEF TaskInv, Remembered, Waker, CallsOk, OthersStay, OwnerPcs
    <3> QED BY <3>3, <3>4, <3>5, <3>6, <3>7 DEF TaskInv
  <2> QED BY <2>4, <2>5
<1>26. ASSUME NEW a \in Cpus, ExitProcess(a) PROVE TaskInv(t)'
  <2> DEFINE u == arg[a]
  <2>1. /\ u \in Tasks
        /\ OthersStay(a)
        /\ pc[a] = "exiting"
        /\ pc'[a] = "detach"
        /\ arg'[a] = u
    BY <1>26, ArgType, ActorGoto DEF ExitProcess, CtlOK, OthersStay
  <2>2. /\ procZombie'[u]
        /\ SameOwner(u)
        /\ SameState(u)
        /\ SameStop(u)
        /\ SameOwed(u)
        /\ SameDrop(u)
    BY <2>1, <1>26 DEF ExitProcess, DataOK
  <2>3. \A v \in Tasks \ {u} : SameTask(v)
    BY <2>1, <1>26 DEF ExitProcess, DataOK
  <2> HIDE DEF u
  <2>4. CASE t # u
    BY <2>1, <2>3, <2>4, OtherTask DEF u
  <2>5. CASE t = u
    <3>1. arg[a] = t
      BY <2>5 DEF u
    <3>2. onCpu[t] = a /\ \A c \in Cpus \ {a} : ~(pc[c] \in OwnerPcs /\ arg[c] = t)
      BY <2>1, <3>1, OneHart DEF OwnerPcs
    <3>3. CallsOk(t)'
      BY <2>1, <2>2, <2>5, <3>1, <3>2 DEF TaskInv, CallsOk, OthersStay, OwnerPcs
    <3>4. SwitchOk(t)'
      BY <2>1, <2>2, <2>5, <3>1, <3>2 DEF TaskInv, SwitchOk, OthersStay, OwnerPcs
    <3>5. Placed(t)'
      BY <2>1, <2>2, <2>5, <3>1, <3>2
         DEF TaskInv, Placed, Unowned, BeingEnqueued, CallsOk, OthersStay, OwnerPcs
    <3>6. Served(t)'
      BY <2>1, <2>2, <2>5, <3>1, <3>2
         DEF TaskInv, Served, Exiting, OnStack, Waker, CallsOk, SwitchOk, Remembered, OthersStay,
             OwnerPcs
    <3>7. Remembered(t)'
      BY <2>1, <2>2, <2>5, <3>1, <3>2
         DEF TaskInv, Remembered, Waker, CallsOk, OthersStay, OwnerPcs
    <3> QED BY <3>3, <3>4, <3>5, <3>6, <3>7 DEF TaskInv
  <2> QED BY <2>4, <2>5
<1>27. ASSUME NEW a \in Cpus, DeferDrop(a) PROVE TaskInv(t)'
  <2> DEFINE u == arg[a]
  <2>1. /\ u \in Tasks
        /\ OthersStay(a)
        /\ pc[a] = "detach"
        /\ pc'[a] = "switch"
        /\ arg'[a] = u
    BY <1>27, ArgType, ActorGoto DEF DeferDrop, OwnerInv, StackInv, CtlOK, OthersStay
  <2>2. SameTask(u)
    BY <2>1, <1>27 DEF DeferDrop, DataOK
  <2>3. \A v \in Tasks \ {u} : SameTask(v)
    BY <2>1, <1>27 DEF DeferDrop, OwnerInv, StackInv, DataOK
  <2> HIDE DEF u
  <2>4. CASE t # u
    BY <2>1, <2>3, <2>4, OtherTask DEF u
  <2>5. CASE t = u
    <3>1. arg[a] = t
      BY <2>5 DEF u
    <3>2. onCpu[t] = a /\ \A c \in Cpus \ {a} : ~(pc[c] \in OwnerPcs /\ arg[c] = t)
      BY <2>1, <3>1, OneHart DEF OwnerPcs
    <3>3. CallsOk(t)'
      BY <2>1, <2>2, <2>5, <3>1, <3>2 DEF TaskInv, CallsOk, OthersStay, OwnerPcs
    <3>4. SwitchOk(t)'
      BY <2>1, <2>2, <2>5, <3>1, <3>2 DEF TaskInv, SwitchOk, OthersStay, OwnerPcs
    <3>5. Placed(t)'
      BY <2>1, <2>2, <2>5, <3>1, <3>2
         DEF TaskInv, Placed, Unowned, BeingEnqueued, CallsOk, OthersStay, OwnerPcs
    <3>6. Served(t)'
      BY <2>1, <2>2, <2>5, <3>1, <3>2
         DEF TaskInv, Served, Exiting, OnStack, Waker, CallsOk, SwitchOk, Remembered, OthersStay,
             OwnerPcs
    <3>7. Remembered(t)'
      BY <2>1, <2>2, <2>5, <3>1, <3>2
         DEF TaskInv, Remembered, Waker, CallsOk, OthersStay, OwnerPcs
    <3> QED BY <3>3, <3>4, <3>5, <3>6, <3>7 DEF TaskInv
  <2> QED BY <2>4, <2>5
<1>28. ASSUME NEW a \in Cpus, MarkSleep(a) PROVE TaskInv(t)'
  <2> DEFINE u == arg[a]
  <2>1. /\ u \in Tasks
        /\ OthersStay(a)
        /\ pc[a] = "run"
        /\ pc'[a] = "sleeping"
        /\ arg'[a] = u
    BY <1>28, ArgType, ActorGoto DEF MarkSleep, CtlOK, OthersStay
  <2>2. /\ status'[u] = "Sleep"
        /\ requeue'[u] = requeue[u]
        /\ pending'[u] = pending[u]
        /\ SameOwner(u)
        /\ SameStop(u)
        /\ SameKill(u)
        /\ SameOwed(u)
        /\ SameDrop(u)
    BY <2>1, <1>28 DEF MarkSleep, DataOK
  <2>3. \A v \in Tasks \ {u} : SameTask(v)
    BY <2>1, <1>28 DEF MarkSleep, DataOK
  <2> HIDE DEF u
  <2>4. CASE t # u
    BY <2>1, <2>3, <2>4, OtherTask DEF u
  <2>5. CASE t = u
    <3>1. arg[a] = t
      BY <2>5 DEF u
    <3>2. onCpu[t] = a /\ \A c \in Cpus \ {a} : ~(pc[c] \in OwnerPcs /\ arg[c] = t)
      BY <2>1, <3>1, OneHart DEF OwnerPcs
    <3>3. CallsOk(t)'
      BY <2>1, <2>2, <2>5, <3>1, <3>2 DEF TaskInv, CallsOk, OthersStay, OwnerPcs
    <3>4. SwitchOk(t)'
      BY <2>1, <2>2, <2>5, <3>1, <3>2 DEF TaskInv, SwitchOk, OthersStay, OwnerPcs
    <3>5. Placed(t)'
      BY <2>1, <2>2, <2>5, <3>1, <3>2
         DEF TaskInv, Placed, Unowned, BeingEnqueued, CallsOk, OthersStay, OwnerPcs
    <3>6. Served(t)'
      BY <2>1, <2>2, <2>5, <3>1, <3>2
         DEF TaskInv, Served, Exiting, OnStack, Waker, CallsOk, SwitchOk, Remembered, OthersStay,
             OwnerPcs
    <3>7. Remembered(t)'
      BY <2>1, <2>2, <2>5, <3>1, <3>2
         DEF TaskInv, Remembered, Waker, CallsOk, OthersStay, OwnerPcs
    <3> QED BY <3>3, <3>4, <3>5, <3>6, <3>7 DEF TaskInv
  <2> QED BY <2>4, <2>5
<1>29. ASSUME NEW a \in Cpus, BlockCancelledByExit(a) PROVE TaskInv(t)'
  <2> DEFINE u == arg[a]
  <2>1. /\ u \in Tasks
        /\ OthersStay(a)
        /\ pc[a] \in {"run", "sleeping"}
        /\ pc'[a] = "run"
        /\ arg'[a] = u
    BY <1>29, ArgType, ActorGoto DEF BlockCancelledByExit, CtlOK, OthersStay
  <2>2. /\ status'[u] = "Running"
        /\ requeue'[u] = requeue[u]
        /\ pending'[u] = pending[u]
        /\ SameOwner(u)
        /\ SameStop(u)
        /\ SameKill(u)
        /\ SameOwed(u)
        /\ SameDrop(u)
    BY <2>1, <1>29 DEF BlockCancelledByExit, DataOK
  <2>3. \A v \in Tasks \ {u} : SameTask(v)
    BY <2>1, <1>29 DEF BlockCancelledByExit, DataOK
  <2> HIDE DEF u
  <2>4. CASE t # u
    BY <2>1, <2>3, <2>4, OtherTask DEF u
  <2>5. CASE t = u
    <3>1. arg[a] = t
      BY <2>5 DEF u
    <3>2. onCpu[t] = a /\ \A c \in Cpus \ {a} : ~(pc[c] \in OwnerPcs /\ arg[c] = t)
      BY <2>1, <3>1, OneHart DEF OwnerPcs
    <3>3. CallsOk(t)'
      BY <2>1, <2>2, <2>5, <3>1, <3>2 DEF TaskInv, CallsOk, OthersStay, OwnerPcs
    <3>4. SwitchOk(t)'
      BY <2>1, <2>2, <2>5, <3>1, <3>2 DEF TaskInv, SwitchOk, OthersStay, OwnerPcs
    <3>5. Placed(t)'
      BY <2>1, <2>2, <2>5, <3>1, <3>2
         DEF TaskInv, Placed, Unowned, BeingEnqueued, CallsOk, OthersStay, OwnerPcs
    <3>6. Served(t)'
      BY <2>1, <2>2, <2>5, <3>1, <3>2
         DEF TaskInv, Served, Exiting, OnStack, Waker, CallsOk, SwitchOk, Remembered, OthersStay,
             OwnerPcs
    <3>7. Remembered(t)'
      BY <2>1, <2>2, <2>5, <3>1, <3>2
         DEF TaskInv, Remembered, Waker, CallsOk, OthersStay, OwnerPcs
    <3> QED BY <3>3, <3>4, <3>5, <3>6, <3>7 DEF TaskInv
  <2> QED BY <2>4, <2>5
<1>30. ASSUME NEW a \in Cpus, BlockCancelledByWakeup(a) PROVE TaskInv(t)'
  <2> DEFINE u == arg[a]
  <2>1. /\ u \in Tasks
        /\ OthersStay(a)
        /\ pc[a] \in {"run", "sleeping"}
        /\ pc'[a] = "run"
        /\ arg'[a] = u
    BY <1>30, ArgType, ActorGoto DEF BlockCancelledByWakeup, CtlOK, OthersStay
  <2>2. /\ status'[u] = "Running"
        /\ ~owed'[u]
        /\ u \in parked' <=> u \in parked
        /\ SameOwner(u)
        /\ SameStop(u)
        /\ SameKill(u)
        /\ SameDrop(u)
    BY <2>1, <1>30 DEF BlockCancelledByWakeup, DataOK
  <2>3. \A v \in Tasks \ {u} : SameTask(v)
    BY <2>1, <1>30 DEF BlockCancelledByWakeup, DataOK
  <2> HIDE DEF u
  <2>4. CASE t # u
    BY <2>1, <2>3, <2>4, OtherTask DEF u
  <2>5. CASE t = u
    <3>1. arg[a] = t
      BY <2>5 DEF u
    <3>2. onCpu[t] = a /\ \A c \in Cpus \ {a} : ~(pc[c] \in OwnerPcs /\ arg[c] = t)
      BY <2>1, <3>1, OneHart DEF OwnerPcs
    <3>3. CallsOk(t)'
      BY <2>1, <2>2, <2>5, <3>1, <3>2 DEF TaskInv, CallsOk, OthersStay, OwnerPcs
    <3>4. SwitchOk(t)'
      BY <2>1, <2>2, <2>5, <3>1, <3>2 DEF TaskInv, SwitchOk, OthersStay, OwnerPcs
    <3>5. Placed(t)'
      BY <2>1, <2>2, <2>5, <3>1, <3>2
         DEF TaskInv, Placed, Unowned, BeingEnqueued, CallsOk, OthersStay, OwnerPcs
    <3>6. Served(t)'
      BY <2>1, <2>2, <2>5, <3>1, <3>2
         DEF TaskInv, Served, Exiting, OnStack, Waker, CallsOk, SwitchOk, Remembered, OthersStay,
             OwnerPcs
    <3>7. Remembered(t)'
      BY <2>1, <2>2, <2>5, <3>1, <3>2
         DEF TaskInv, Remembered, Waker, CallsOk, OthersStay, OwnerPcs
    <3> QED BY <3>3, <3>4, <3>5, <3>6, <3>7 DEF TaskInv
  <2> QED BY <2>4, <2>5
<1>31. ASSUME NEW a \in Cpus, BlockCurrent(a) PROVE TaskInv(t)'
  <2> DEFINE u == arg[a]
  <2>1. /\ u \in Tasks
        /\ OthersStay(a)
        /\ pc[a] \in {"run", "sleeping"}
        /\ pc'[a] = "switch"
        /\ arg'[a] = u
    BY <1>31, ArgType, ActorGoto DEF BlockCurrent, Killed, CtlOK, OthersStay
  <2>2. /\ status'[u] = "Blocked"
        /\ ~pending[u]
        /\ ~(zombieFlag[u] /\ procZombie[u])
        /\ requeue'[u] = requeue[u]
        /\ pending'[u] = pending[u]
        /\ SameOwner(u)
        /\ SameStop(u)
        /\ SameKill(u)
        /\ SameOwed(u)
        /\ SameDrop(u)
    BY <2>1, <1>31 DEF BlockCurrent, Killed, DataOK
  <2>3. \A v \in Tasks \ {u} : SameTask(v)
    BY <2>1, <1>31 DEF BlockCurrent, Killed, DataOK
  <2> HIDE DEF u
  <2>4. CASE t # u
    BY <2>1, <2>3, <2>4, OtherTask DEF u
  <2>5. CASE t = u
    <3>1. arg[a] = t
      BY <2>5 DEF u
    <3>2. onCpu[t] = a /\ \A c \in Cpus \ {a} : ~(pc[c] \in OwnerPcs /\ arg[c] = t)
      BY <2>1, <3>1, OneHart DEF OwnerPcs
    <3>3. CallsOk(t)'
      BY <2>1, <2>2, <2>5, <3>1, <3>2 DEF TaskInv, CallsOk, OthersStay, OwnerPcs
    <3>4. SwitchOk(t)'
      BY <2>1, <2>2, <2>5, <3>1, <3>2 DEF TaskInv, SwitchOk, OthersStay, OwnerPcs
    <3>5. Placed(t)'
      BY <2>1, <2>2, <2>5, <3>1, <3>2
         DEF TaskInv, Placed, Unowned, BeingEnqueued, CallsOk, OthersStay, OwnerPcs
    <3>6. Served(t)'
      BY <2>1, <2>2, <2>5, <3>1, <3>2
         DEF TaskInv, Served, Exiting, OnStack, Waker, CallsOk, SwitchOk, Remembered, OthersStay,
             OwnerPcs
    <3>7. Remembered(t)'
      BY <2>1, <2>2, <2>5, <3>1, <3>2
         DEF TaskInv, Remembered, Waker, CallsOk, OthersStay, OwnerPcs
    <3> QED BY <3>3, <3>4, <3>5, <3>6, <3>7 DEF TaskInv
  <2> QED BY <2>4, <2>5
<1>32. ASSUME NEW a \in Cpus, SuspendCurrent(a) PROVE TaskInv(t)'
  <2> DEFINE u == arg[a]
  <2>1. /\ u \in Tasks
        /\ OthersStay(a)
        /\ pc[a] = "run"
        /\ pc'[a] = "switch"
        /\ arg'[a] = u
    BY <1>32, ArgType, ActorGoto DEF SuspendCurrent, CtlOK, OthersStay
  <2>2. /\ status'[u] = "Ready"
        /\ requeue'[u]
        /\ pending'[u] = pending[u]
        /\ SameOwner(u)
        /\ SameStop(u)
        /\ SameKill(u)
        /\ SameOwed(u)
        /\ SameDrop(u)
    BY <2>1, <1>32 DEF SuspendCurrent, DataOK
  <2>3. \A v \in Tasks \ {u} : SameTask(v)
    BY <2>1, <1>32 DEF SuspendCurrent, DataOK
  <2> HIDE DEF u
  <2>4. CASE t # u
    BY <2>1, <2>3, <2>4, OtherTask DEF u
  <2>5. CASE t = u
    <3>1. arg[a] = t
      BY <2>5 DEF u
    <3>2. onCpu[t] = a /\ \A c \in Cpus \ {a} : ~(pc[c] \in OwnerPcs /\ arg[c] = t)
      BY <2>1, <3>1, OneHart DEF OwnerPcs
    <3>3. CallsOk(t)'
      BY <2>1, <2>2, <2>5, <3>1, <3>2 DEF TaskInv, CallsOk, OthersStay, OwnerPcs
    <3>4. SwitchOk(t)'
      BY <2>1, <2>2, <2>5, <3>1, <3>2 DEF TaskInv, SwitchOk, OthersStay, OwnerPcs
    <3>5. Placed(t)'
      BY <2>1, <2>2, <2>5, <3>1, <3>2
         DEF TaskInv, Placed, Unowned, BeingEnqueued, CallsOk, OthersStay, OwnerPcs
    <3>6. Served(t)'
      BY <2>1, <2>2, <2>5, <3>1, <3>2
         DEF TaskInv, Served, Exiting, OnStack, Waker, CallsOk, SwitchOk, Remembered, OthersStay,
             OwnerPcs
    <3>7. Remembered(t)'
      BY <2>1, <2>2, <2>5, <3>1, <3>2
         DEF TaskInv, Remembered, Waker, CallsOk, OthersStay, OwnerPcs
    <3> QED BY <3>3, <3>4, <3>5, <3>6, <3>7 DEF TaskInv
  <2> QED BY <2>4, <2>5
<1>33. ASSUME NEW a \in Cpus, ObserveStopped(a) PROVE TaskInv(t)'
  <2> DEFINE u == arg[a]
  <2>1. /\ u \in Tasks
        /\ OthersStay(a)
        /\ pc[a] = "run"
        /\ pc'[a] = "stopping"
        /\ arg'[a] = u
    BY <1>33, ArgType, ActorGoto DEF ObserveStopped, CtlOK, OthersStay
  <2>2. /\ SameTask(u)
    BY <2>1, <1>33 DEF ObserveStopped, DataOK
  <2>3. \A v \in Tasks \ {u} : SameTask(v)
    BY <2>1, <1>33 DEF ObserveStopped, DataOK
  <2> HIDE DEF u
  <2>4. CASE t # u
    BY <2>1, <2>3, <2>4, OtherTask DEF u
  <2>5. CASE t = u
    <3>1. arg[a] = t
      BY <2>5 DEF u
    <3>2. onCpu[t] = a /\ \A c \in Cpus \ {a} : ~(pc[c] \in OwnerPcs /\ arg[c] = t)
      BY <2>1, <3>1, OneHart DEF OwnerPcs
    <3>3. CallsOk(t)'
      BY <2>1, <2>2, <2>5, <3>1, <3>2 DEF TaskInv, CallsOk, OthersStay, OwnerPcs
    <3>4. SwitchOk(t)'
      BY <2>1, <2>2, <2>5, <3>1, <3>2 DEF TaskInv, SwitchOk, OthersStay, OwnerPcs
    <3>5. Placed(t)'
      BY <2>1, <2>2, <2>5, <3>1, <3>2
         DEF TaskInv, Placed, Unowned, BeingEnqueued, CallsOk, OthersStay, OwnerPcs
    <3>6. Served(t)'
      BY <2>1, <2>2, <2>5, <3>1, <3>2
         DEF TaskInv, Served, Exiting, OnStack, Waker, CallsOk, SwitchOk, Remembered, OthersStay,
             OwnerPcs
    <3>7. Remembered(t)'
      BY <2>1, <2>2, <2>5, <3>1, <3>2
         DEF TaskInv, Remembered, Waker, CallsOk, OthersStay, OwnerPcs
    <3> QED BY <3>3, <3>4, <3>5, <3>6, <3>7 DEF TaskInv
  <2> QED BY <2>4, <2>5
<1>34. ASSUME NEW a \in Cpus, ExitCurrent(a) PROVE TaskInv(t)'
  <2> DEFINE u == arg[a]
  <2>1. /\ u \in Tasks
        /\ OthersStay(a)
        /\ pc[a] = "run"
        /\ pc'[a] = "exiting"
        /\ arg'[a] = u
    BY <1>34, ArgType, ActorGoto DEF ExitCurrent, CtlOK, OthersStay
  <2>2. /\ status'[u] = "Zombie"
        /\ requeue'[u] = requeue[u]
        /\ pending'[u] = pending[u]
        /\ SameOwner(u)
        /\ SameStop(u)
        /\ SameKill(u)
        /\ SameOwed(u)
        /\ SameDrop(u)
    BY <2>1, <1>34 DEF ExitCurrent, DataOK
  <2>3. \A v \in Tasks \ {u} : SameTask(v)
    BY <2>1, <1>34 DEF ExitCurrent, DataOK
  <2> HIDE DEF u
  <2>4. CASE t # u
    BY <2>1, <2>3, <2>4, OtherTask DEF u
  <2>5. CASE t = u
    <3>1. arg[a] = t
      BY <2>5 DEF u
    <3>2. onCpu[t] = a /\ \A c \in Cpus \ {a} : ~(pc[c] \in OwnerPcs /\ arg[c] = t)
      BY <2>1, <3>1, OneHart DEF OwnerPcs
    <3>3. CallsOk(t)'
      BY <2>1, <2>2, <2>5, <3>1, <3>2 DEF TaskInv, CallsOk, OthersStay, OwnerPcs
    <3>4. SwitchOk(t)'
      BY <2>1, <2>2, <2>5, <3>1, <3>2 DEF TaskInv, SwitchOk, OthersStay, OwnerPcs
    <3>5. Placed(t)'
      BY <2>1, <2>2, <2>5, <3>1, <3>2
         DEF TaskInv, Placed, Unowned, BeingEnqueued, CallsOk, OthersStay, OwnerPcs
    <3>6. Served(t)'
      BY <2>1, <2>2, <2>5, <3>1, <3>2
         DEF TaskInv, Served, Exiting, OnStack, Waker, CallsOk, SwitchOk, Remembered, OthersStay,
             OwnerPcs
    <3>7. Remembered(t)'
      BY <2>1, <2>2, <2>5, <3>1, <3>2
         DEF TaskInv, Remembered, Waker, CallsOk, OthersStay, OwnerPcs
    <3> QED BY <3>3, <3>4, <3>5, <3>6, <3>7 DEF TaskInv
  <2> QED BY <2>4, <2>5
<1>35. CASE UNCHANGED vars
  BY <1>35 DEF vars, ctl, TaskInv, CallsOk, SwitchOk, Placed, Served, Exiting, Remembered, Unowned,
              BeingEnqueued, Waker, OnStack
<1> QED BY <1>f, <1>d, <1>1, <1>2, <1>3, <1>4, <1>5, <1>6, <1>7, <1>8, <1>9, <1>10,
           <1>11, <1>12, <1>13, <1>14, <1>15, <1>16, <1>17, <1>18, <1>19,
           <1>20, <1>21, <1>22, <1>23, <1>24, <1>25, <1>26, <1>27, <1>28,
           <1>29, <1>30, <1>31, <1>32, <1>33, <1>34, <1>35
  DEF Next, AgentCall, AgentStep, WakeupTask, LoopStep, TaskStep, EnqueueStep

\* Initially no task exists and no context works on one.
LEMMA TaskInit == ASSUME Init, NEW t \in Tasks PROVE TaskInv(t)
BY SchedAssumption
   DEF Init, TaskInv, CallsOk, SwitchOk, Placed, Served, Remembered

\* The invariant of every task holds in every behaviour.
LEMMA TaskInvariant == Spec => [](\A t \in Tasks : TaskInv(t))
<1>1. Init => \A t \in Tasks : TaskInv(t)
  BY TaskInit
<1>2. TypeOK /\ OwnerInv /\ (\A t \in Tasks : TaskInv(t)) /\ [Next]_vars
        => (\A t \in Tasks : TaskInv(t))'
  BY TaskStepKeeps
<1> QED BY <1>1, <1>2, TypeCorrect, OwnerInvariant, PTL DEF Spec

-----------------------------------------------------------------------------
(* Theorems *)

\* A Ready task always has an owner or somebody about to give it one, whatever
\* wakeups, claims, stops and kills interleave (wakeup_task,
\* enqueue_task_on_cpu, run_tasks).
THEOREM ReadyNeverStranded == Spec => []NoStrandedReady
<1>1. (\A t \in Tasks : TaskInv(t)) => NoStrandedReady
  BY DEF TaskInv, Placed, NoStrandedReady
<1> QED BY <1>1, TaskInvariant, PTL

\* A waker is one of the contexts that BeingEnqueued names, and a task off
\* every CPU is on no stack.
LEMMA ServedOffCpu ==
  ASSUME TypeOK, OwnerInv, NEW t \in Tasks, TaskInv(t), onCpu[t] = NoCpu,
         status[t] \in {"Blocked", "Sleep"}, owed[t] \/ zombieFlag[t]
  PROVE  \/ groupStopped[t] /\ stopResume[t]
         \/ BeingEnqueued(t)
         \/ t \in parked
<1>1. ~OnStack(t)
  BY OneHart DEF OnStack, OwnerPcs
<1>2. Waker(t) => BeingEnqueued(t)
  BY DEF Waker, BeingEnqueued
<1> QED BY <1>1, <1>2 DEF TaskInv, Served

\* Nobody sleeps over a wakeup (pending_wakeup and requeue_after_switch of
\* wakeup_task against block_current_and_run_next_impl and run_tasks).
THEOREM WakeupNeverSleptOver == Spec => []NoSleepOverWakeup
<1>1. TypeOK /\ OwnerInv /\ (\A t \in Tasks : TaskInv(t)) => NoSleepOverWakeup
  BY ServedOffCpu DEF NoSleepOverWakeup
<1> QED BY <1>1, TaskInvariant, TypeCorrect, OwnerInvariant, PTL

\* A fatal signal leaves no task asleep (request_tasks_exit).
THEOREM KilledNeverLeftAsleep == Spec => []KilledIsWoken
<1>1. TypeOK /\ OwnerInv /\ (\A t \in Tasks : TaskInv(t)) => KilledIsWoken
  BY ServedOffCpu DEF KilledIsWoken
<1> QED BY <1>1, TaskInvariant, TypeCorrect, OwnerInvariant, PTL

==============================================================================
