---------------------------- MODULE ProcessProofs ----------------------------
(***************************************************************************)
(* Proofs that the process control blocks of Process count their threads,  *)
(* and that a process is reaped once and not before its last thread has    *)
(* left its kernel stack, for any processes, threads and programs.         *)
(***************************************************************************)
EXTENDS ProcessSteps

USE ProcessAssumption
USE DEF PcTo, PcOthers, PcWakes, WokenTo, LocOthers, KeepJob, KeepScan, KeepMoved,
        KeepExit, KeepVfork, KeepKill, Reset, ProcOthers, KeepLife, KeepCount, KeepPending,
        KeepFamily, KeepSeq, KeepVparent, KeepSlots, SetChildren, SetParent, NextSeq,
        Fresh, ClearVparent, SetZombie, SetSlots, SetPending, EntryOthers, SetStage, ProgOthers

-----------------------------------------------------------------------------
(* The control invariant *)

\* A task that a step does not move, or only wakes, keeps its control.
LEMMA CtlFrame ==
  ASSUME NEW u \in Tasks, Ctl(u), loc'[u] = loc[u], deferred'[u] = deferred[u],
         pc'[u] = pc[u] \/ WokenTo(u)
  PROVE  Ctl(u)'
BY DEF Ctl, ForkLabels, WaitLabels, ExitLabels

\* A step that changes neither who lives nor the count keeps the count right.
LEMMA CountFrame ==
  ASSUME ControlInv, NEW p \in Procs,
         \A u \in Tasks : /\ pc'[u] = "unborn" <=> pc[u] = "unborn"
                          /\ loc'[u].why = "exit" <=> loc[u].why = "exit",
         proc'[p].life = "unborn" => proc[p].life = "unborn",
         proc'[p].alive = proc[p].alive, proc'[p].tasks \subseteq proc[p].tasks,
         proc'[p].pending => proc[p].pending, proc[p].zombie => proc'[p].zombie
  PROVE  CountOk(p)'
<1>1. LiveThreads(p)' = LiveThreads(p)
  BY DEF LiveThreads, ThreadsOf
<1>2. CountOk(p)
  BY DEF ControlInv
<1> QED
  BY <1>1, <1>2 DEF CountOk, Dead, ThreadsOf

\* Every elementary step keeps the control of all threads and the counts of all processes.
LEMMA ControlStep ==
  ASSUME ControlInv, Types', NEW t \in Tasks, Step(t)
  PROVE  ControlInv'
<1>0. /\ ProcOf[t] \in Procs /\ Ctl(t) /\ \A u \in Tasks : Ctl(u)
      /\ \A p \in Procs : CountOk(p)
  BY DEF ControlInv
<1>1. ASSUME StepReturn(t)
      PROVE  (\A u \in Tasks : Ctl(u)') /\ \A p \in Procs : CountOk(p)'
  <2>1. ASSUME NEW u \in Tasks
        PROVE  Ctl(u)'
    <3>1. CASE u = t
      BY <1>0, <1>1, <3>1
      DEF StepReturn, Ctl, ForkLabels, WaitLabels, ExitLabels, AfterReturn, NoLocals
    <3>2. CASE u # t
      BY <1>0, <1>1, <3>2, CtlFrame DEF StepReturn
    <3> QED
      BY <3>1, <3>2
  <2>2. ASSUME NEW p \in Procs
        PROVE  CountOk(p)'
    <3>1. ASSUME NEW u \in Tasks
          PROVE  /\ pc'[u] = "unborn" <=> pc[u] = "unborn"
                 /\ loc'[u].why = "exit" <=> loc[u].why = "exit"
      <4>1. CASE u = t
        BY <1>0, <1>1, <4>1
        DEF StepReturn, Ctl, ForkLabels, WaitLabels, ExitLabels, AfterReturn, NoLocals
      <4>2. CASE u # t
        BY <1>0, <1>1, <4>2 DEF StepReturn
      <4> QED
        BY <4>1, <4>2
    <3>2. /\ proc'[p].life = "unborn" => proc[p].life = "unborn"
          /\ proc'[p].alive = proc[p].alive /\ proc'[p].tasks \subseteq proc[p].tasks
          /\ proc'[p].pending => proc[p].pending
          /\ proc[p].zombie => proc'[p].zombie
      BY <1>1 DEF StepReturn
    <3> QED
      BY <3>1, <3>2, CountFrame
  <2> QED
    BY <2>1, <2>2
<1>2. ASSUME NEW c \in Procs, NEW v \in BOOLEAN, StepFork(t, c, v)
      PROVE  (\A u \in Tasks : Ctl(u)') /\ \A p \in Procs : CountOk(p)'
  <2>1. ASSUME NEW u \in Tasks
        PROVE  Ctl(u)'
    <3>1. CASE u = t
      BY <1>0, <1>2, <3>1 DEF StepFork, Ctl, ForkLabels, WaitLabels, ExitLabels
    <3>2. CASE u = Leader[c]
      <4>1. pc[u] = "unborn"
        BY <1>0, <1>2, <3>2 DEF StepFork, CountOk, ThreadsOf
      <4>2. loc[u].why = "call" /\ deferred[u].st = "none"
        BY <1>0, <3>2, <4>1 DEF Ctl
      <4>3. pc'[u] = "nascent" /\ loc'[u] = loc[u] /\ deferred' = deferred
        BY <1>2, <3>2 DEF StepFork
      <4> QED
        BY <4>2, <4>3 DEF Ctl, ForkLabels, WaitLabels, ExitLabels
    <3>3. CASE u # t /\ u # Leader[c]
      BY <1>0, <1>2, <3>3, CtlFrame DEF StepFork
    <3> QED
      BY <3>1, <3>2, <3>3
  <2>2. ASSUME NEW p \in Procs
        PROVE  CountOk(p)'
    <3>1. CASE p = c
      <4>1. \A u \in ThreadsOf(c) : pc[u] = "unborn" /\ loc[u].why = "call"
        BY <1>0, <1>2 DEF StepFork, CountOk, ThreadsOf, Ctl
      <4>2. /\ Leader[c] \in ThreadsOf(c) /\ pc'[Leader[c]] = "nascent" /\ t \notin ThreadsOf(c)
            /\ \A u \in ThreadsOf(c) : loc'[u] = loc[u]
            /\ \A u \in ThreadsOf(c) \ {Leader[c]} : pc'[u] = pc[u]
        BY <1>2 DEF StepFork, ThreadsOf
      <4>3. LiveThreads(c)' = {Leader[c]}
        BY <4>1, <4>2 DEF LiveThreads
      <4>4. Cardinality({Leader[c]}) = 1
        BY FS_Singleton
      <4> QED
        BY <1>2, <3>1, <4>2, <4>3, <4>4 DEF StepFork, CountOk, ThreadsOf
    <3>2. CASE p # c
      <4>1. \A u \in ThreadsOf(p) : pc'[u] = "unborn" <=> pc[u] = "unborn"
        <5>1. pc[t] = "user" /\ pc'[t] = "forkPush"
          BY <1>2 DEF StepFork
        <5>2. \A u \in Tasks \ {t, Leader[c]} : pc'[u] = pc[u]
          BY <1>2, Zenon DEF StepFork
        <5>3. Leader[c] \notin ThreadsOf(p) /\ ThreadsOf(p) \subseteq Tasks
          BY <3>2, ProcessAssumption DEF ThreadsOf
        <5> QED
          BY <5>1, <5>2, <5>3
      <4>2. LiveThreads(p)' = LiveThreads(p)
        <5>1. \A u \in ThreadsOf(p) : loc'[u].why = "exit" <=> loc[u].why = "exit"
          BY <1>0, <1>2 DEF StepFork, ThreadsOf, Ctl
        <5> QED
          BY <4>1, <5>1 DEF LiveThreads
      <4> QED
        BY <1>0, <1>2, <3>2, <4>1, <4>2 DEF StepFork, CountOk, Dead, ThreadsOf
    <3> QED
      BY <3>1, <3>2
  <2> QED
    BY <2>1, <2>2
<1>3. ASSUME StepPush(t)
      PROVE  (\A u \in Tasks : Ctl(u)') /\ \A p \in Procs : CountOk(p)'
  <2>1. ASSUME NEW u \in Tasks
        PROVE  Ctl(u)'
    <3>1. CASE u = t
      BY <1>0, <1>3, <3>1 DEF StepPush, Ctl, ForkLabels, WaitLabels, ExitLabels
    <3>2. CASE u # t
      BY <1>0, <1>3, <3>2, CtlFrame DEF StepPush
    <3> QED
      BY <3>1, <3>2
  <2>2. ASSUME NEW p \in Procs
        PROVE  CountOk(p)'
    <3>1. ASSUME NEW u \in Tasks
          PROVE  /\ pc'[u] = "unborn" <=> pc[u] = "unborn"
                 /\ loc'[u].why = "exit" <=> loc[u].why = "exit"
      <4>1. CASE u = t
        BY <1>0, <1>3, <4>1 DEF StepPush, Ctl, ForkLabels, WaitLabels, ExitLabels
      <4>2. CASE u # t
        BY <1>0, <1>3, <4>2 DEF StepPush
      <4> QED
        BY <4>1, <4>2
    <3>2. /\ proc'[p].life = "unborn" => proc[p].life = "unborn"
          /\ proc'[p].alive = proc[p].alive /\ proc'[p].tasks \subseteq proc[p].tasks
          /\ proc'[p].pending => proc[p].pending
          /\ proc[p].zombie => proc'[p].zombie
      BY <1>3 DEF StepPush
    <3> QED
      BY <3>1, <3>2, CountFrame
  <2> QED
    BY <2>1, <2>2
<1>4. ASSUME StepPublish(t)
      PROVE  (\A u \in Tasks : Ctl(u)') /\ \A p \in Procs : CountOk(p)'
  <2>1. ASSUME NEW u \in Tasks
        PROVE  Ctl(u)'
    <3>1. CASE u = t
      BY <1>0, <1>4, <3>1 DEF StepPublish, Ctl, ForkLabels, WaitLabels, ExitLabels
    <3>2. CASE u # t
      BY <1>0, <1>4, <3>2, CtlFrame DEF StepPublish
    <3> QED
      BY <3>1, <3>2
  <2>2. ASSUME NEW p \in Procs
        PROVE  CountOk(p)'
    <3>1. ASSUME NEW u \in Tasks
          PROVE  /\ pc'[u] = "unborn" <=> pc[u] = "unborn"
                 /\ loc'[u].why = "exit" <=> loc[u].why = "exit"
      <4>1. CASE u = t
        BY <1>0, <1>4, <4>1 DEF StepPublish, Ctl, ForkLabels, WaitLabels, ExitLabels
      <4>2. CASE u # t
        BY <1>0, <1>4, <4>2 DEF StepPublish
      <4> QED
        BY <4>1, <4>2
    <3>2. /\ proc'[p].life = "unborn" => proc[p].life = "unborn"
          /\ proc'[p].alive = proc[p].alive /\ proc'[p].tasks \subseteq proc[p].tasks
          /\ proc'[p].pending => proc[p].pending
          /\ proc[p].zombie => proc'[p].zombie
      BY <1>4 DEF StepPublish
    <3> QED
      BY <3>1, <3>2, CountFrame
  <2> QED
    BY <2>1, <2>2
<1>5. ASSUME StepStart(t)
      PROVE  (\A u \in Tasks : Ctl(u)') /\ \A p \in Procs : CountOk(p)'
  <2>1. ASSUME NEW u \in Tasks
        PROVE  Ctl(u)'
    <3>1. CASE u = t
      BY <1>0, <1>5, <3>1
      DEF StepStart, Ctl, ForkLabels, WaitLabels, ExitLabels, AfterReturn, NoLocals
    <3>2. CASE u # t
      BY <1>0, <1>5, <3>2, CtlFrame DEF StepStart
    <3> QED
      BY <3>1, <3>2
  <2>2. ASSUME NEW p \in Procs
        PROVE  CountOk(p)'
    <3>1. ASSUME NEW u \in Tasks
          PROVE  /\ pc'[u] = "unborn" <=> pc[u] = "unborn"
                 /\ loc'[u].why = "exit" <=> loc[u].why = "exit"
      <4>1. CASE u = t
        BY <1>0, <1>5, <4>1
        DEF StepStart, Ctl, ForkLabels, WaitLabels, ExitLabels, AfterReturn, NoLocals
      <4>2. CASE u # t
        BY <1>0, <1>5, <4>2 DEF StepStart
      <4> QED
        BY <4>1, <4>2
    <3>2. /\ proc'[p].life = "unborn" => proc[p].life = "unborn"
          /\ proc'[p].alive = proc[p].alive /\ proc'[p].tasks \subseteq proc[p].tasks
          /\ proc'[p].pending => proc[p].pending
          /\ proc[p].zombie => proc'[p].zombie
      BY <1>5 DEF StepStart
    <3> QED
      BY <3>1, <3>2, CountFrame
  <2> QED
    BY <2>1, <2>2
<1>6. ASSUME StepVforkBlock(t)
      PROVE  (\A u \in Tasks : Ctl(u)') /\ \A p \in Procs : CountOk(p)'
  <2>1. ASSUME NEW u \in Tasks
        PROVE  Ctl(u)'
    <3>1. CASE u = t
      BY <1>0, <1>6, <3>1 DEF StepVforkBlock, Ctl, ForkLabels, WaitLabels, ExitLabels
    <3>2. CASE u # t
      BY <1>0, <1>6, <3>2, CtlFrame DEF StepVforkBlock
    <3> QED
      BY <3>1, <3>2
  <2>2. ASSUME NEW p \in Procs
        PROVE  CountOk(p)'
    <3>1. ASSUME NEW u \in Tasks
          PROVE  /\ pc'[u] = "unborn" <=> pc[u] = "unborn"
                 /\ loc'[u].why = "exit" <=> loc[u].why = "exit"
      <4>1. CASE u = t
        BY <1>0, <1>6, <4>1 DEF StepVforkBlock, Ctl, ForkLabels, WaitLabels, ExitLabels
      <4>2. CASE u # t
        BY <1>0, <1>6, <4>2 DEF StepVforkBlock
      <4> QED
        BY <4>1, <4>2
    <3>2. /\ proc'[p].life = "unborn" => proc[p].life = "unborn"
          /\ proc'[p].alive = proc[p].alive /\ proc'[p].tasks \subseteq proc[p].tasks
          /\ proc'[p].pending => proc[p].pending
          /\ proc[p].zombie => proc'[p].zombie
      BY <1>6 DEF StepVforkBlock
    <3> QED
      BY <3>1, <3>2, CountFrame
  <2> QED
    BY <2>1, <2>2
<1>7. ASSUME StepExec(t)
      PROVE  (\A u \in Tasks : Ctl(u)') /\ \A p \in Procs : CountOk(p)'
  <2>0. proc[ProcOf[t]].vforkParent \in SomeTask
    BY <1>0 DEF ControlInv, Types, ProcRecord
  <2>1. ASSUME NEW u \in Tasks
        PROVE  Ctl(u)'
    <3>1. CASE u = t
      BY <1>0, <2>0, <1>7, <3>1
      DEF StepExec, Ctl, ForkLabels, WaitLabels, ExitLabels, AfterReturn, SomeTask
    <3>2. CASE u # t
      BY <1>0, <1>7, <3>2, CtlFrame DEF StepExec
    <3> QED
      BY <3>1, <3>2
  <2>2. ASSUME NEW p \in Procs
        PROVE  CountOk(p)'
    <3>1. ASSUME NEW u \in Tasks
          PROVE  /\ pc'[u] = "unborn" <=> pc[u] = "unborn"
                 /\ loc'[u].why = "exit" <=> loc[u].why = "exit"
      <4>1. CASE u = t
        BY <1>0, <1>7, <4>1
        DEF StepExec, Ctl, ForkLabels, WaitLabels, ExitLabels, AfterReturn
      <4>2. CASE u # t
        BY <1>0, <1>7, <4>2 DEF StepExec
      <4> QED
        BY <4>1, <4>2
    <3>2. /\ proc'[p].life = "unborn" => proc[p].life = "unborn"
          /\ proc'[p].alive = proc[p].alive /\ proc'[p].tasks \subseteq proc[p].tasks
          /\ proc'[p].pending => proc[p].pending
          /\ proc[p].zombie => proc'[p].zombie
      BY <1>7, ZenonT(60) DEF StepExec
    <3> QED
      BY <3>1, <3>2, CountFrame
  <2> QED
    BY <2>1, <2>2
<1>8. ASSUME StepVforkClear(t)
      PROVE  (\A u \in Tasks : Ctl(u)') /\ \A p \in Procs : CountOk(p)'
  <2>1. ASSUME NEW u \in Tasks
        PROVE  Ctl(u)'
    <3>1. CASE u = t
      BY <1>0, <1>8, <3>1
      DEF StepVforkClear, Ctl, ForkLabels, WaitLabels, ExitLabels, AfterVfork,
          AfterReturn, NoLocals
    <3>2. CASE u # t
      BY <1>0, <1>8, <3>2, CtlFrame DEF StepVforkClear
    <3> QED
      BY <3>1, <3>2
  <2>2. ASSUME NEW p \in Procs
        PROVE  CountOk(p)'
    <3>1. ASSUME NEW u \in Tasks
          PROVE  /\ pc'[u] = "unborn" <=> pc[u] = "unborn"
                 /\ loc'[u].why = "exit" <=> loc[u].why = "exit"
      <4>1. CASE u = t
        BY <1>0, <1>8, <4>1
        DEF StepVforkClear, Ctl, ForkLabels, WaitLabels, ExitLabels, AfterVfork,
            AfterReturn, NoLocals
      <4>2. CASE u # t
        BY <1>0, <1>8, <4>2 DEF StepVforkClear
      <4> QED
        BY <4>1, <4>2
    <3>2. /\ proc'[p].life = "unborn" => proc[p].life = "unborn"
          /\ proc'[p].alive = proc[p].alive /\ proc'[p].tasks \subseteq proc[p].tasks
          /\ proc'[p].pending => proc[p].pending
          /\ proc[p].zombie => proc'[p].zombie
      BY <1>8 DEF StepVforkClear
    <3> QED
      BY <3>1, <3>2, CountFrame
  <2> QED
    BY <2>1, <2>2
<1>9. ASSUME StepVforkWake(t)
      PROVE  (\A u \in Tasks : Ctl(u)') /\ \A p \in Procs : CountOk(p)'
  <2>1. ASSUME NEW u \in Tasks
        PROVE  Ctl(u)'
    <3>1. CASE u = t
      BY <1>0, <1>9, <3>1
      DEF StepVforkWake, Ctl, ForkLabels, WaitLabels, ExitLabels, AfterVfork,
          AfterReturn, NoLocals
    <3>2. CASE u # t
      BY <1>0, <1>9, <3>2, CtlFrame DEF StepVforkWake
    <3> QED
      BY <3>1, <3>2
  <2>2. ASSUME NEW p \in Procs
        PROVE  CountOk(p)'
    <3>1. ASSUME NEW u \in Tasks
          PROVE  /\ pc'[u] = "unborn" <=> pc[u] = "unborn"
                 /\ loc'[u].why = "exit" <=> loc[u].why = "exit"
      <4>1. CASE u = t
        BY <1>0, <1>9, <4>1
        DEF StepVforkWake, Ctl, ForkLabels, WaitLabels, ExitLabels, AfterVfork,
            AfterReturn, NoLocals
      <4>2. CASE u # t
        BY <1>0, <1>9, <4>2 DEF StepVforkWake
      <4> QED
        BY <4>1, <4>2
    <3>2. /\ proc'[p].life = "unborn" => proc[p].life = "unborn"
          /\ proc'[p].alive = proc[p].alive /\ proc'[p].tasks \subseteq proc[p].tasks
          /\ proc'[p].pending => proc[p].pending
          /\ proc[p].zombie => proc'[p].zombie
      BY <1>9 DEF StepVforkWake
    <3> QED
      BY <3>1, <3>2, CountFrame
  <2> QED
    BY <2>1, <2>2
<1>10. ASSUME StepTake(t)
      PROVE  (\A u \in Tasks : Ctl(u)') /\ \A p \in Procs : CountOk(p)'
  <2>1. ASSUME NEW u \in Tasks
        PROVE  Ctl(u)'
    <3>1. CASE u = t
      BY <1>0, <1>10, <3>1 DEF StepTake, Ctl, ForkLabels, WaitLabels, ExitLabels
    <3>2. CASE u # t
      BY <1>0, <1>10, <3>2, CtlFrame DEF StepTake
    <3> QED
      BY <3>1, <3>2
  <2>2. ASSUME NEW p \in Procs
        PROVE  CountOk(p)'
    <3>1. ASSUME NEW u \in Tasks
          PROVE  /\ pc'[u] = "unborn" <=> pc[u] = "unborn"
                 /\ loc'[u].why = "exit" <=> loc[u].why = "exit"
      <4>1. CASE u = t
        BY <1>0, <1>10, <4>1 DEF StepTake, Ctl, ForkLabels, WaitLabels, ExitLabels
      <4>2. CASE u # t
        BY <1>0, <1>10, <4>2 DEF StepTake
      <4> QED
        BY <4>1, <4>2
    <3>2. /\ proc'[p].life = "unborn" => proc[p].life = "unborn"
          /\ proc'[p].alive = proc[p].alive /\ proc'[p].tasks \subseteq proc[p].tasks
          /\ proc'[p].pending => proc[p].pending
          /\ proc[p].zombie => proc'[p].zombie
      BY <1>10 DEF StepTake
    <3> QED
      BY <3>1, <3>2, CountFrame
  <2> QED
    BY <2>1, <2>2
<1>11. ASSUME NEW c \in Procs, StepEach(t, c)
      PROVE  (\A u \in Tasks : Ctl(u)') /\ \A p \in Procs : CountOk(p)'
  <2>1. ASSUME NEW u \in Tasks
        PROVE  Ctl(u)'
    <3>1. CASE u = t
      BY <1>0, <1>11, <3>1 DEF StepEach, Ctl, ForkLabels, WaitLabels, ExitLabels
    <3>2. CASE u # t
      BY <1>0, <1>11, <3>2, CtlFrame DEF StepEach
    <3> QED
      BY <3>1, <3>2
  <2>2. ASSUME NEW p \in Procs
        PROVE  CountOk(p)'
    <3>1. ASSUME NEW u \in Tasks
          PROVE  /\ pc'[u] = "unborn" <=> pc[u] = "unborn"
                 /\ loc'[u].why = "exit" <=> loc[u].why = "exit"
      <4>1. CASE u = t
        BY <1>0, <1>11, <4>1 DEF StepEach, Ctl, ForkLabels, WaitLabels, ExitLabels
      <4>2. CASE u # t
        BY <1>0, <1>11, <4>2 DEF StepEach
      <4> QED
        BY <4>1, <4>2
    <3>2. /\ proc'[p].life = "unborn" => proc[p].life = "unborn"
          /\ proc'[p].alive = proc[p].alive /\ proc'[p].tasks \subseteq proc[p].tasks
          /\ proc'[p].pending => proc[p].pending
          /\ proc[p].zombie => proc'[p].zombie
      BY <1>11 DEF StepEach
    <3> QED
      BY <3>1, <3>2, CountFrame
  <2> QED
    BY <2>1, <2>2
<1>12. ASSUME StepGive(t)
      PROVE  (\A u \in Tasks : Ctl(u)') /\ \A p \in Procs : CountOk(p)'
  <2>1. ASSUME NEW u \in Tasks
        PROVE  Ctl(u)'
    <3>1. CASE u = t
      BY <1>0, <1>12, <3>1
      DEF StepGive, Ctl, ForkLabels, WaitLabels, ExitLabels, AfterReparent,
          AfterAdoption
    <3>2. CASE u # t
      BY <1>0, <1>12, <3>2, CtlFrame DEF StepGive
    <3> QED
      BY <3>1, <3>2
  <2>2. ASSUME NEW p \in Procs
        PROVE  CountOk(p)'
    <3>1. ASSUME NEW u \in Tasks
          PROVE  /\ pc'[u] = "unborn" <=> pc[u] = "unborn"
                 /\ loc'[u].why = "exit" <=> loc[u].why = "exit"
      <4>1. CASE u = t
        BY <1>0, <1>12, <4>1
        DEF StepGive, Ctl, ForkLabels, WaitLabels, ExitLabels, AfterReparent,
            AfterAdoption
      <4>2. CASE u # t
        BY <1>0, <1>12, <4>2 DEF StepGive
      <4> QED
        BY <4>1, <4>2
    <3>2. /\ proc'[p].life = "unborn" => proc[p].life = "unborn"
          /\ proc'[p].alive = proc[p].alive /\ proc'[p].tasks \subseteq proc[p].tasks
          /\ proc'[p].pending => proc[p].pending
          /\ proc[p].zombie => proc'[p].zombie
      BY <1>12 DEF StepGive
    <3> QED
      BY <3>1, <3>2, CountFrame
  <2> QED
    BY <2>1, <2>2
<1>13. ASSUME StepInitPublish(t)
      PROVE  (\A u \in Tasks : Ctl(u)') /\ \A p \in Procs : CountOk(p)'
  <2>1. ASSUME NEW u \in Tasks
        PROVE  Ctl(u)'
    <3>1. CASE u = t
      BY <1>0, <1>13, <3>1 DEF StepInitPublish, Ctl, ForkLabels, WaitLabels, ExitLabels
    <3>2. CASE u # t
      BY <1>0, <1>13, <3>2, CtlFrame DEF StepInitPublish
    <3> QED
      BY <3>1, <3>2
  <2>2. ASSUME NEW p \in Procs
        PROVE  CountOk(p)'
    <3>1. ASSUME NEW u \in Tasks
          PROVE  /\ pc'[u] = "unborn" <=> pc[u] = "unborn"
                 /\ loc'[u].why = "exit" <=> loc[u].why = "exit"
      <4>1. CASE u = t
        BY <1>0, <1>13, <4>1 DEF StepInitPublish, Ctl, ForkLabels, WaitLabels, ExitLabels
      <4>2. CASE u # t
        BY <1>0, <1>13, <4>2 DEF StepInitPublish
      <4> QED
        BY <4>1, <4>2
    <3>2. /\ proc'[p].life = "unborn" => proc[p].life = "unborn"
          /\ proc'[p].alive = proc[p].alive /\ proc'[p].tasks \subseteq proc[p].tasks
          /\ proc'[p].pending => proc[p].pending
          /\ proc[p].zombie => proc'[p].zombie
      BY <1>13 DEF StepInitPublish
    <3> QED
      BY <3>1, <3>2, CountFrame
  <2> QED
    BY <2>1, <2>2
<1>14. ASSUME NEW w \in SomeTask, StepInitWake(t, w)
      PROVE  (\A u \in Tasks : Ctl(u)') /\ \A p \in Procs : CountOk(p)'
  <2>1. ASSUME NEW u \in Tasks
        PROVE  Ctl(u)'
    <3>1. CASE u = t
      BY <1>0, <1>14, <3>1
      DEF StepInitWake, Ctl, ForkLabels, WaitLabels, ExitLabels, AfterAdoption, Asleep,
          SomeTask
    <3>2. CASE u # t
      BY <1>0, <1>14, <3>2, CtlFrame DEF StepInitWake, SomeTask
    <3> QED
      BY <3>1, <3>2
  <2>2. ASSUME NEW p \in Procs
        PROVE  CountOk(p)'
    <3>1. ASSUME NEW u \in Tasks
          PROVE  /\ pc'[u] = "unborn" <=> pc[u] = "unborn"
                 /\ loc'[u].why = "exit" <=> loc[u].why = "exit"
      <4>1. CASE u = t
        BY <1>0, <1>14, <4>1
        DEF StepInitWake, Ctl, ForkLabels, WaitLabels, ExitLabels, AfterAdoption,
            Asleep, SomeTask
      <4>2. CASE u # t
        BY <1>0, <1>14, <4>2 DEF StepInitWake, SomeTask
      <4> QED
        BY <4>1, <4>2
    <3>2. /\ proc'[p].life = "unborn" => proc[p].life = "unborn"
          /\ proc'[p].alive = proc[p].alive /\ proc'[p].tasks \subseteq proc[p].tasks
          /\ proc'[p].pending => proc[p].pending
          /\ proc[p].zombie => proc'[p].zombie
      BY <1>14 DEF StepInitWake
    <3> QED
      BY <3>1, <3>2, CountFrame
  <2> QED
    BY <2>1, <2>2
<1>15. ASSUME StepWaitSeq(t)
      PROVE  (\A u \in Tasks : Ctl(u)') /\ \A p \in Procs : CountOk(p)'
  <2>1. ASSUME NEW u \in Tasks
        PROVE  Ctl(u)'
    <3>1. CASE u = t
      BY <1>0, <1>15, <3>1
      DEF StepWaitSeq, Ctl, ForkLabels, WaitLabels, ExitLabels, NoLocals
    <3>2. CASE u # t
      BY <1>0, <1>15, <3>2, CtlFrame DEF StepWaitSeq
    <3> QED
      BY <3>1, <3>2
  <2>2. ASSUME NEW p \in Procs
        PROVE  CountOk(p)'
    <3>1. ASSUME NEW u \in Tasks
          PROVE  /\ pc'[u] = "unborn" <=> pc[u] = "unborn"
                 /\ loc'[u].why = "exit" <=> loc[u].why = "exit"
      <4>1. CASE u = t
        BY <1>0, <1>15, <4>1
        DEF StepWaitSeq, Ctl, ForkLabels, WaitLabels, ExitLabels, NoLocals
      <4>2. CASE u # t
        BY <1>0, <1>15, <4>2 DEF StepWaitSeq
      <4> QED
        BY <4>1, <4>2
    <3>2. /\ proc'[p].life = "unborn" => proc[p].life = "unborn"
          /\ proc'[p].alive = proc[p].alive /\ proc'[p].tasks \subseteq proc[p].tasks
          /\ proc'[p].pending => proc[p].pending
          /\ proc[p].zombie => proc'[p].zombie
      BY <1>15 DEF StepWaitSeq
    <3> QED
      BY <3>1, <3>2, CountFrame
  <2> QED
    BY <2>1, <2>2
<1>16. ASSUME StepWaitList(t)
      PROVE  (\A u \in Tasks : Ctl(u)') /\ \A p \in Procs : CountOk(p)'
  <2>1. ASSUME NEW u \in Tasks
        PROVE  Ctl(u)'
    <3>1. CASE u = t
      BY <1>0, <1>16, <3>1 DEF StepWaitList, Ctl, ForkLabels, WaitLabels, ExitLabels
    <3>2. CASE u # t
      BY <1>0, <1>16, <3>2, CtlFrame DEF StepWaitList
    <3> QED
      BY <3>1, <3>2
  <2>2. ASSUME NEW p \in Procs
        PROVE  CountOk(p)'
    <3>1. ASSUME NEW u \in Tasks
          PROVE  /\ pc'[u] = "unborn" <=> pc[u] = "unborn"
                 /\ loc'[u].why = "exit" <=> loc[u].why = "exit"
      <4>1. CASE u = t
        BY <1>0, <1>16, <4>1 DEF StepWaitList, Ctl, ForkLabels, WaitLabels, ExitLabels
      <4>2. CASE u # t
        BY <1>0, <1>16, <4>2 DEF StepWaitList
      <4> QED
        BY <4>1, <4>2
    <3>2. /\ proc'[p].life = "unborn" => proc[p].life = "unborn"
          /\ proc'[p].alive = proc[p].alive /\ proc'[p].tasks \subseteq proc[p].tasks
          /\ proc'[p].pending => proc[p].pending
          /\ proc[p].zombie => proc'[p].zombie
      BY <1>16 DEF StepWaitList
    <3> QED
      BY <3>1, <3>2, CountFrame
  <2> QED
    BY <2>1, <2>2
<1>17. ASSUME NEW c \in Procs, StepFound(t, c)
      PROVE  (\A u \in Tasks : Ctl(u)') /\ \A p \in Procs : CountOk(p)'
  <2>1. ASSUME NEW u \in Tasks
        PROVE  Ctl(u)'
    <3>1. CASE u = t
      BY <1>0, <1>17, <3>1 DEF StepFound, Ctl, ForkLabels, WaitLabels, ExitLabels
    <3>2. CASE u # t
      BY <1>0, <1>17, <3>2, CtlFrame DEF StepFound
    <3> QED
      BY <3>1, <3>2
  <2>2. ASSUME NEW p \in Procs
        PROVE  CountOk(p)'
    <3>1. ASSUME NEW u \in Tasks
          PROVE  /\ pc'[u] = "unborn" <=> pc[u] = "unborn"
                 /\ loc'[u].why = "exit" <=> loc[u].why = "exit"
      <4>1. CASE u = t
        BY <1>0, <1>17, <4>1 DEF StepFound, Ctl, ForkLabels, WaitLabels, ExitLabels
      <4>2. CASE u # t
        BY <1>0, <1>17, <4>2 DEF StepFound
      <4> QED
        BY <4>1, <4>2
    <3>2. /\ proc'[p].life = "unborn" => proc[p].life = "unborn"
          /\ proc'[p].alive = proc[p].alive /\ proc'[p].tasks \subseteq proc[p].tasks
          /\ proc'[p].pending => proc[p].pending
          /\ proc[p].zombie => proc'[p].zombie
      BY <1>17 DEF StepFound
    <3> QED
      BY <3>1, <3>2, CountFrame
  <2> QED
    BY <2>1, <2>2
<1>18. ASSUME NEW c \in Procs, StepPass(t, c)
      PROVE  (\A u \in Tasks : Ctl(u)') /\ \A p \in Procs : CountOk(p)'
  <2>1. ASSUME NEW u \in Tasks
        PROVE  Ctl(u)'
    <3>1. CASE u = t
      BY <1>0, <1>18, <3>1 DEF StepPass, Ctl, ForkLabels, WaitLabels, ExitLabels
    <3>2. CASE u # t
      BY <1>0, <1>18, <3>2, CtlFrame DEF StepPass
    <3> QED
      BY <3>1, <3>2
  <2>2. ASSUME NEW p \in Procs
        PROVE  CountOk(p)'
    <3>1. ASSUME NEW u \in Tasks
          PROVE  /\ pc'[u] = "unborn" <=> pc[u] = "unborn"
                 /\ loc'[u].why = "exit" <=> loc[u].why = "exit"
      <4>1. CASE u = t
        BY <1>0, <1>18, <4>1 DEF StepPass, Ctl, ForkLabels, WaitLabels, ExitLabels
      <4>2. CASE u # t
        BY <1>0, <1>18, <4>2 DEF StepPass
      <4> QED
        BY <4>1, <4>2
    <3>2. /\ proc'[p].life = "unborn" => proc[p].life = "unborn"
          /\ proc'[p].alive = proc[p].alive /\ proc'[p].tasks \subseteq proc[p].tasks
          /\ proc'[p].pending => proc[p].pending
          /\ proc[p].zombie => proc'[p].zombie
      BY <1>18 DEF StepPass
    <3> QED
      BY <3>1, <3>2, CountFrame
  <2> QED
    BY <2>1, <2>2
<1>19. ASSUME StepAgain(t)
      PROVE  (\A u \in Tasks : Ctl(u)') /\ \A p \in Procs : CountOk(p)'
  <2>1. ASSUME NEW u \in Tasks
        PROVE  Ctl(u)'
    <3>1. CASE u = t
      BY <1>0, <1>19, <3>1 DEF StepAgain, Ctl, ForkLabels, WaitLabels, ExitLabels
    <3>2. CASE u # t
      BY <1>0, <1>19, <3>2, CtlFrame DEF StepAgain
    <3> QED
      BY <3>1, <3>2
  <2>2. ASSUME NEW p \in Procs
        PROVE  CountOk(p)'
    <3>1. ASSUME NEW u \in Tasks
          PROVE  /\ pc'[u] = "unborn" <=> pc[u] = "unborn"
                 /\ loc'[u].why = "exit" <=> loc[u].why = "exit"
      <4>1. CASE u = t
        BY <1>0, <1>19, <4>1 DEF StepAgain, Ctl, ForkLabels, WaitLabels, ExitLabels
      <4>2. CASE u # t
        BY <1>0, <1>19, <4>2 DEF StepAgain
      <4> QED
        BY <4>1, <4>2
    <3>2. /\ proc'[p].life = "unborn" => proc[p].life = "unborn"
          /\ proc'[p].alive = proc[p].alive /\ proc'[p].tasks \subseteq proc[p].tasks
          /\ proc'[p].pending => proc[p].pending
          /\ proc[p].zombie => proc'[p].zombie
      BY <1>19 DEF StepAgain
    <3> QED
      BY <3>1, <3>2, CountFrame
  <2> QED
    BY <2>1, <2>2
<1>20. ASSUME StepWaitBlock(t)
      PROVE  (\A u \in Tasks : Ctl(u)') /\ \A p \in Procs : CountOk(p)'
  <2>1. ASSUME NEW u \in Tasks
        PROVE  Ctl(u)'
    <3>1. CASE u = t
      BY <1>0, <1>20, <3>1 DEF StepWaitBlock, Ctl, ForkLabels, WaitLabels, ExitLabels
    <3>2. CASE u # t
      BY <1>0, <1>20, <3>2, CtlFrame DEF StepWaitBlock
    <3> QED
      BY <3>1, <3>2
  <2>2. ASSUME NEW p \in Procs
        PROVE  CountOk(p)'
    <3>1. ASSUME NEW u \in Tasks
          PROVE  /\ pc'[u] = "unborn" <=> pc[u] = "unborn"
                 /\ loc'[u].why = "exit" <=> loc[u].why = "exit"
      <4>1. CASE u = t
        BY <1>0, <1>20, <4>1 DEF StepWaitBlock, Ctl, ForkLabels, WaitLabels, ExitLabels
      <4>2. CASE u # t
        BY <1>0, <1>20, <4>2 DEF StepWaitBlock
      <4> QED
        BY <4>1, <4>2
    <3>2. /\ proc'[p].life = "unborn" => proc[p].life = "unborn"
          /\ proc'[p].alive = proc[p].alive /\ proc'[p].tasks \subseteq proc[p].tasks
          /\ proc'[p].pending => proc[p].pending
          /\ proc[p].zombie => proc'[p].zombie
      BY <1>20 DEF StepWaitBlock
    <3> QED
      BY <3>1, <3>2, CountFrame
  <2> QED
    BY <2>1, <2>2
<1>21. ASSUME StepWin(t)
      PROVE  (\A u \in Tasks : Ctl(u)') /\ \A p \in Procs : CountOk(p)'
  <2>1. ASSUME NEW u \in Tasks
        PROVE  Ctl(u)'
    <3>1. CASE u = t
      BY <1>0, <1>21, <3>1 DEF StepWin, Ctl, ForkLabels, WaitLabels, ExitLabels
    <3>2. CASE u # t
      BY <1>0, <1>21, <3>2, CtlFrame DEF StepWin
    <3> QED
      BY <3>1, <3>2
  <2>2. ASSUME NEW p \in Procs
        PROVE  CountOk(p)'
    <3>1. ASSUME NEW u \in Tasks
          PROVE  /\ pc'[u] = "unborn" <=> pc[u] = "unborn"
                 /\ loc'[u].why = "exit" <=> loc[u].why = "exit"
      <4>1. CASE u = t
        BY <1>0, <1>21, <4>1 DEF StepWin, Ctl, ForkLabels, WaitLabels, ExitLabels
      <4>2. CASE u # t
        BY <1>0, <1>21, <4>2 DEF StepWin
      <4> QED
        BY <4>1, <4>2
    <3>2. /\ proc'[p].life = "unborn" => proc[p].life = "unborn"
          /\ proc'[p].alive = proc[p].alive /\ proc'[p].tasks \subseteq proc[p].tasks
          /\ proc'[p].pending => proc[p].pending
          /\ proc[p].zombie => proc'[p].zombie
      BY <1>21, SMTT(60) DEF StepWin
    <3> QED
      BY <3>1, <3>2, CountFrame
  <2> QED
    BY <2>1, <2>2
<1>22. ASSUME StepLose(t)
      PROVE  (\A u \in Tasks : Ctl(u)') /\ \A p \in Procs : CountOk(p)'
  <2>1. ASSUME NEW u \in Tasks
        PROVE  Ctl(u)'
    <3>1. CASE u = t
      BY <1>0, <1>22, <3>1 DEF StepLose, Ctl, ForkLabels, WaitLabels, ExitLabels
    <3>2. CASE u # t
      BY <1>0, <1>22, <3>2, CtlFrame DEF StepLose
    <3> QED
      BY <3>1, <3>2
  <2>2. ASSUME NEW p \in Procs
        PROVE  CountOk(p)'
    <3>1. ASSUME NEW u \in Tasks
          PROVE  /\ pc'[u] = "unborn" <=> pc[u] = "unborn"
                 /\ loc'[u].why = "exit" <=> loc[u].why = "exit"
      <4>1. CASE u = t
        BY <1>0, <1>22, <4>1 DEF StepLose, Ctl, ForkLabels, WaitLabels, ExitLabels
      <4>2. CASE u # t
        BY <1>0, <1>22, <4>2 DEF StepLose
      <4> QED
        BY <4>1, <4>2
    <3>2. /\ proc'[p].life = "unborn" => proc[p].life = "unborn"
          /\ proc'[p].alive = proc[p].alive /\ proc'[p].tasks \subseteq proc[p].tasks
          /\ proc'[p].pending => proc[p].pending
          /\ proc[p].zombie => proc'[p].zombie
      BY <1>22 DEF StepLose
    <3> QED
      BY <3>1, <3>2, CountFrame
  <2> QED
    BY <2>1, <2>2
<1>23. ASSUME StepFree(t)
      PROVE  (\A u \in Tasks : Ctl(u)') /\ \A p \in Procs : CountOk(p)'
  <2>1. ASSUME NEW u \in Tasks
        PROVE  Ctl(u)'
    <3>1. CASE u = t
      BY <1>0, <1>23, <3>1
      DEF StepFree, Ctl, ForkLabels, WaitLabels, ExitLabels, AfterReturn, NoLocals
    <3>2. CASE u # t
      BY <1>0, <1>23, <3>2, CtlFrame DEF StepFree
    <3> QED
      BY <3>1, <3>2
  <2>2. ASSUME NEW p \in Procs
        PROVE  CountOk(p)'
    <3>1. ASSUME NEW u \in Tasks
          PROVE  /\ pc'[u] = "unborn" <=> pc[u] = "unborn"
                 /\ loc'[u].why = "exit" <=> loc[u].why = "exit"
      <4>1. CASE u = t
        BY <1>0, <1>23, <4>1
        DEF StepFree, Ctl, ForkLabels, WaitLabels, ExitLabels, AfterReturn, NoLocals
      <4>2. CASE u # t
        BY <1>0, <1>23, <4>2 DEF StepFree
      <4> QED
        BY <4>1, <4>2
    <3>2. /\ proc'[p].life = "unborn" => proc[p].life = "unborn"
          /\ proc'[p].alive = proc[p].alive /\ proc'[p].tasks \subseteq proc[p].tasks
          /\ proc'[p].pending => proc[p].pending
          /\ proc[p].zombie => proc'[p].zombie
      BY <1>23 DEF StepFree
    <3> QED
      BY <3>1, <3>2, CountFrame
  <2> QED
    BY <2>1, <2>2
<1>24. ASSUME StepCount(t)
      PROVE  (\A u \in Tasks : Ctl(u)') /\ \A p \in Procs : CountOk(p)'
  <2>1. ASSUME NEW u \in Tasks
        PROVE  Ctl(u)'
    <3>1. CASE u = t
      BY <1>0, <1>24, <3>1 DEF StepCount, Ctl, ForkLabels, WaitLabels, ExitLabels, NoLocals
    <3>2. CASE u # t
      BY <1>0, <1>24, <3>2, CtlFrame DEF StepCount
    <3> QED
      BY <3>1, <3>2
  <2>2. ASSUME NEW p \in Procs
        PROVE  CountOk(p)'
    <3>1. CASE p = ProcOf[t]
      <4>1. t \in LiveThreads(p) /\ LiveThreads(p) \subseteq Tasks
        BY <1>0, <1>24, <3>1 DEF StepCount, LiveThreads, ThreadsOf, Ctl
      <4>2. LiveThreads(p)' = LiveThreads(p) \ {t}
        BY <1>0, <1>24, <3>1 DEF StepCount, LiveThreads, ThreadsOf, NoLocals, Ctl
      <4>3. Cardinality(LiveThreads(p) \ {t}) = Cardinality(LiveThreads(p)) - 1
        BY <4>1, FS_Subset, FS_RemoveElement
      <4>4. proc[p].life # "unborn" /\ proc[p].alive \in Nat \ {0}
        BY <1>0, <1>24, <3>1, CountedAlive DEF StepCount, Ctl
      <4>5. CountOk(p)
        BY <1>0
      <4>6. proc'[p].pending => Dead(p)'
        BY <1>24, <3>1, <4>4, <4>5 DEF StepCount, CountOk, Dead
      <4> QED
        BY <1>24, <3>1, <4>2, <4>3, <4>4, <4>5, <4>6 DEF StepCount, CountOk, ThreadsOf
    <3>2. CASE p # ProcOf[t]
      <4>0. proc'[p] = proc[p]
        BY <1>24, <3>2 DEF StepCount
      <4>1. \A u \in ThreadsOf(p) : pc'[u] = pc[u] /\ loc'[u] = loc[u]
        BY <1>24, <3>2 DEF StepCount, ThreadsOf
      <4>2. LiveThreads(p)' = LiveThreads(p)
        BY <4>1 DEF LiveThreads
      <4> QED
        BY <1>0, <4>0, <4>1, <4>2 DEF CountOk, Dead, ThreadsOf
    <3> QED
      BY <3>1, <3>2
  <2> QED
    BY <2>1, <2>2
<1>25. ASSUME StepDetach(t)
      PROVE  (\A u \in Tasks : Ctl(u)') /\ \A p \in Procs : CountOk(p)'
  <2>1. ASSUME NEW u \in Tasks
        PROVE  Ctl(u)'
    <3>1. CASE u = t
      BY <1>0, <1>25, <3>1 DEF StepDetach, Ctl, ForkLabels, WaitLabels, ExitLabels
    <3>2. CASE u # t
      BY <1>0, <1>25, <3>2, CtlFrame DEF StepDetach
    <3> QED
      BY <3>1, <3>2
  <2>2. ASSUME NEW p \in Procs
        PROVE  CountOk(p)'
    <3>1. ASSUME NEW u \in Tasks
          PROVE  /\ pc'[u] = "unborn" <=> pc[u] = "unborn"
                 /\ loc'[u].why = "exit" <=> loc[u].why = "exit"
      <4>1. CASE u = t
        BY <1>0, <1>25, <4>1 DEF StepDetach, Ctl, ForkLabels, WaitLabels, ExitLabels
      <4>2. CASE u # t
        BY <1>0, <1>25, <4>2 DEF StepDetach
      <4> QED
        BY <4>1, <4>2
    <3>2. /\ proc'[p].life = "unborn" => proc[p].life = "unborn"
          /\ proc'[p].alive = proc[p].alive /\ proc'[p].tasks \subseteq proc[p].tasks
          /\ proc'[p].pending => proc[p].pending
          /\ proc[p].zombie => proc'[p].zombie
      BY <1>25 DEF StepDetach
    <3> QED
      BY <3>1, <3>2, CountFrame
  <2> QED
    BY <2>1, <2>2
<1>26. ASSUME StepParent(t)
      PROVE  (\A u \in Tasks : Ctl(u)') /\ \A p \in Procs : CountOk(p)'
  <2>0. proc[ProcOf[t]].vforkParent \in SomeTask
    BY <1>0 DEF ControlInv, Types, ProcRecord
  <2>1. ASSUME NEW u \in Tasks
        PROVE  Ctl(u)'
    <3>1. CASE u = t
      BY <1>0, <2>0, <1>26, <3>1
      DEF StepParent, Ctl, ForkLabels, WaitLabels, ExitLabels, SomeTask
    <3>2. CASE u # t
      BY <1>0, <1>26, <3>2, CtlFrame DEF StepParent
    <3> QED
      BY <3>1, <3>2
  <2>2. ASSUME NEW p \in Procs
        PROVE  CountOk(p)'
    <3>1. ASSUME NEW u \in Tasks
          PROVE  /\ pc'[u] = "unborn" <=> pc[u] = "unborn"
                 /\ loc'[u].why = "exit" <=> loc[u].why = "exit"
      <4>1. CASE u = t
        BY <1>0, <1>26, <4>1 DEF StepParent, Ctl, ForkLabels, WaitLabels, ExitLabels
      <4>2. CASE u # t
        BY <1>0, <1>26, <4>2 DEF StepParent
      <4> QED
        BY <4>1, <4>2
    <3>2. /\ proc'[p].life = "unborn" => proc[p].life = "unborn"
          /\ proc'[p].alive = proc[p].alive /\ proc'[p].tasks \subseteq proc[p].tasks
          /\ proc'[p].pending => proc[p].pending
          /\ proc[p].zombie => proc'[p].zombie
      BY <1>26 DEF StepParent
    <3> QED
      BY <3>1, <3>2, CountFrame
  <2> QED
    BY <2>1, <2>2
<1>27. ASSUME StepDefer(t)
      PROVE  (\A u \in Tasks : Ctl(u)') /\ \A p \in Procs : CountOk(p)'
  <2>1. ASSUME NEW u \in Tasks
        PROVE  Ctl(u)'
    <3>1. CASE u = t
      BY <1>0, <1>27, <3>1 DEF StepDefer, Ctl, ForkLabels, WaitLabels, ExitLabels
    <3>2. CASE u # t
      BY <1>0, <1>27, <3>2, CtlFrame DEF StepDefer
    <3> QED
      BY <3>1, <3>2
  <2>2. ASSUME NEW p \in Procs
        PROVE  CountOk(p)'
    <3>1. ASSUME NEW u \in Tasks
          PROVE  /\ pc'[u] = "unborn" <=> pc[u] = "unborn"
                 /\ loc'[u].why = "exit" <=> loc[u].why = "exit"
      <4>1. CASE u = t
        BY <1>0, <1>27, <4>1 DEF StepDefer, Ctl, ForkLabels, WaitLabels, ExitLabels
      <4>2. CASE u # t
        BY <1>0, <1>27, <4>2 DEF StepDefer
      <4> QED
        BY <4>1, <4>2
    <3>2. /\ proc'[p].life = "unborn" => proc[p].life = "unborn"
          /\ proc'[p].alive = proc[p].alive /\ proc'[p].tasks \subseteq proc[p].tasks
          /\ proc'[p].pending => proc[p].pending
          /\ proc[p].zombie => proc'[p].zombie
      BY <1>27 DEF StepDefer
    <3> QED
      BY <3>1, <3>2, CountFrame
  <2> QED
    BY <2>1, <2>2
<1>28. ASSUME StepSwitch(t)
      PROVE  (\A u \in Tasks : Ctl(u)') /\ \A p \in Procs : CountOk(p)'
  <2>1. ASSUME NEW u \in Tasks
        PROVE  Ctl(u)'
    <3>1. CASE u = t
      BY <1>0, <1>28, <3>1 DEF StepSwitch, Ctl, ForkLabels, WaitLabels, ExitLabels
    <3>2. CASE u # t
      BY <1>0, <1>28, <3>2, CtlFrame DEF StepSwitch
    <3> QED
      BY <3>1, <3>2
  <2>2. ASSUME NEW p \in Procs
        PROVE  CountOk(p)'
    <3>1. ASSUME NEW u \in Tasks
          PROVE  /\ pc'[u] = "unborn" <=> pc[u] = "unborn"
                 /\ loc'[u].why = "exit" <=> loc[u].why = "exit"
      <4>1. CASE u = t
        BY <1>0, <1>28, <4>1 DEF StepSwitch, Ctl, ForkLabels, WaitLabels, ExitLabels
      <4>2. CASE u # t
        BY <1>0, <1>28, <4>2 DEF StepSwitch
      <4> QED
        BY <4>1, <4>2
    <3>2. /\ proc'[p].life = "unborn" => proc[p].life = "unborn"
          /\ proc'[p].alive = proc[p].alive /\ proc'[p].tasks \subseteq proc[p].tasks
          /\ proc'[p].pending => proc[p].pending
          /\ proc[p].zombie => proc'[p].zombie
      BY <1>28 DEF StepSwitch
    <3> QED
      BY <3>1, <3>2, CountFrame
  <2> QED
    BY <2>1, <2>2
<1>29. ASSUME StepGroup(t)
      PROVE  (\A u \in Tasks : Ctl(u)') /\ \A p \in Procs : CountOk(p)'
  <2>1. ASSUME NEW u \in Tasks
        PROVE  Ctl(u)'
    <3>1. CASE u = t
      BY <1>0, <1>29, <3>1 DEF StepGroup, Ctl, ForkLabels, WaitLabels, ExitLabels
    <3>2. CASE u # t
      BY <1>0, <1>29, <3>2, CtlFrame DEF StepGroup
    <3> QED
      BY <3>1, <3>2
  <2>2. ASSUME NEW p \in Procs
        PROVE  CountOk(p)'
    <3>1. ASSUME NEW u \in Tasks
          PROVE  /\ pc'[u] = "unborn" <=> pc[u] = "unborn"
                 /\ loc'[u].why = "exit" <=> loc[u].why = "exit"
      <4>1. CASE u = t
        BY <1>0, <1>29, <4>1 DEF StepGroup, Ctl, ForkLabels, WaitLabels, ExitLabels
      <4>2. CASE u # t
        BY <1>0, <1>29, <4>2 DEF StepGroup
      <4> QED
        BY <4>1, <4>2
    <3>2. /\ proc'[p].life = "unborn" => proc[p].life = "unborn"
          /\ proc'[p].alive = proc[p].alive /\ proc'[p].tasks \subseteq proc[p].tasks
          /\ proc'[p].pending => proc[p].pending
          /\ proc[p].zombie => proc'[p].zombie
      BY <1>29 DEF StepGroup
    <3> QED
      BY <3>1, <3>2, CountFrame
  <2> QED
    BY <2>1, <2>2
<1>30. ASSUME NEW k \in Procs, StepKill(t, k)
      PROVE  (\A u \in Tasks : Ctl(u)') /\ \A p \in Procs : CountOk(p)'
  <2>1. ASSUME NEW u \in Tasks
        PROVE  Ctl(u)'
    <3>1. CASE u = t
      BY <1>0, <1>30, <3>1 DEF StepKill, Ctl, ForkLabels, WaitLabels, ExitLabels
    <3>2. CASE u # t
      BY <1>0, <1>30, <3>2, CtlFrame DEF StepKill
    <3> QED
      BY <3>1, <3>2
  <2>2. ASSUME NEW p \in Procs
        PROVE  CountOk(p)'
    <3>1. ASSUME NEW u \in Tasks
          PROVE  /\ pc'[u] = "unborn" <=> pc[u] = "unborn"
                 /\ loc'[u].why = "exit" <=> loc[u].why = "exit"
      <4>1. CASE u = t
        BY <1>0, <1>30, <4>1 DEF StepKill, Ctl, ForkLabels, WaitLabels, ExitLabels
      <4>2. CASE u # t
        BY <1>0, <1>30, <4>2 DEF StepKill
      <4> QED
        BY <4>1, <4>2
    <3>2. /\ proc'[p].life = "unborn" => proc[p].life = "unborn"
          /\ proc'[p].alive = proc[p].alive /\ proc'[p].tasks \subseteq proc[p].tasks
          /\ proc'[p].pending => proc[p].pending
          /\ proc[p].zombie => proc'[p].zombie
      BY <1>30 DEF StepKill
    <3> QED
      BY <3>1, <3>2, CountFrame
  <2> QED
    BY <2>1, <2>2
<1>31. ASSUME NEW w \in Tasks, StepFlag(t, w)
      PROVE  (\A u \in Tasks : Ctl(u)') /\ \A p \in Procs : CountOk(p)'
  <2>1. ASSUME NEW u \in Tasks
        PROVE  Ctl(u)'
    <3>1. CASE u = t
      BY <1>0, <1>31, <3>1 DEF StepFlag, Ctl, ForkLabels, WaitLabels, ExitLabels
    <3>2. CASE u # t
      BY <1>0, <1>31, <3>2, CtlFrame DEF StepFlag
    <3> QED
      BY <3>1, <3>2
  <2>2. ASSUME NEW p \in Procs
        PROVE  CountOk(p)'
    <3>1. ASSUME NEW u \in Tasks
          PROVE  /\ pc'[u] = "unborn" <=> pc[u] = "unborn"
                 /\ loc'[u].why = "exit" <=> loc[u].why = "exit"
      <4>1. CASE u = t
        BY <1>0, <1>31, <4>1 DEF StepFlag, Ctl, ForkLabels, WaitLabels, ExitLabels
      <4>2. CASE u # t
        BY <1>0, <1>31, <4>2 DEF StepFlag
      <4> QED
        BY <4>1, <4>2
    <3>2. /\ proc'[p].life = "unborn" => proc[p].life = "unborn"
          /\ proc'[p].alive = proc[p].alive /\ proc'[p].tasks \subseteq proc[p].tasks
          /\ proc'[p].pending => proc[p].pending
          /\ proc[p].zombie => proc'[p].zombie
      BY <1>31 DEF StepFlag
    <3> QED
      BY <3>1, <3>2, CountFrame
  <2> QED
    BY <2>1, <2>2
<1>32. ASSUME NEW w \in Tasks, StepFlagOnly(t, w)
      PROVE  (\A u \in Tasks : Ctl(u)') /\ \A p \in Procs : CountOk(p)'
  <2>1. ASSUME NEW u \in Tasks
        PROVE  Ctl(u)'
    <3>1. CASE u = t
      BY <1>0, <1>32, <3>1 DEF StepFlagOnly, Ctl, ForkLabels, WaitLabels, ExitLabels
    <3>2. CASE u # t
      BY <1>0, <1>32, <3>2, CtlFrame DEF StepFlagOnly
    <3> QED
      BY <3>1, <3>2
  <2>2. ASSUME NEW p \in Procs
        PROVE  CountOk(p)'
    <3>1. ASSUME NEW u \in Tasks
          PROVE  /\ pc'[u] = "unborn" <=> pc[u] = "unborn"
                 /\ loc'[u].why = "exit" <=> loc[u].why = "exit"
      <4>1. CASE u = t
        BY <1>0, <1>32, <4>1 DEF StepFlagOnly, Ctl, ForkLabels, WaitLabels, ExitLabels
      <4>2. CASE u # t
        BY <1>0, <1>32, <4>2 DEF StepFlagOnly
      <4> QED
        BY <4>1, <4>2
    <3>2. /\ proc'[p].life = "unborn" => proc[p].life = "unborn"
          /\ proc'[p].alive = proc[p].alive /\ proc'[p].tasks \subseteq proc[p].tasks
          /\ proc'[p].pending => proc[p].pending
          /\ proc[p].zombie => proc'[p].zombie
      BY <1>32 DEF StepFlagOnly
    <3> QED
      BY <3>1, <3>2, CountFrame
  <2> QED
    BY <2>1, <2>2
<1>33. ASSUME StepNotify(t)
      PROVE  (\A u \in Tasks : Ctl(u)') /\ \A p \in Procs : CountOk(p)'
  <2>1. ASSUME NEW u \in Tasks
        PROVE  Ctl(u)'
    <3>1. CASE u = t
      BY <1>0, <1>33, <3>1 DEF StepNotify, Ctl, ForkLabels, WaitLabels, ExitLabels
    <3>2. CASE u # t
      BY <1>0, <1>33, <3>2, CtlFrame DEF StepNotify
    <3> QED
      BY <3>1, <3>2
  <2>2. ASSUME NEW p \in Procs
        PROVE  CountOk(p)'
    <3>1. ASSUME NEW u \in Tasks
          PROVE  /\ pc'[u] = "unborn" <=> pc[u] = "unborn"
                 /\ loc'[u].why = "exit" <=> loc[u].why = "exit"
      <4>1. CASE u = t
        BY <1>0, <1>33, <4>1 DEF StepNotify, Ctl, ForkLabels, WaitLabels, ExitLabels
      <4>2. CASE u # t
        BY <1>0, <1>33, <4>2 DEF StepNotify
      <4> QED
        BY <4>1, <4>2
    <3>2. /\ proc'[p].life = "unborn" => proc[p].life = "unborn"
          /\ proc'[p].alive = proc[p].alive /\ proc'[p].tasks \subseteq proc[p].tasks
          /\ proc'[p].pending => proc[p].pending
          /\ proc[p].zombie => proc'[p].zombie
      BY <1>33 DEF StepNotify
    <3> QED
      BY <3>1, <3>2, CountFrame
  <2> QED
    BY <2>1, <2>2
<1>34. ASSUME StepFinish(t)
      PROVE  (\A u \in Tasks : Ctl(u)') /\ \A p \in Procs : CountOk(p)'
  <2>0. deferred[t].parent \in SomeProc
    BY <1>0 DEF ControlInv, Types, EntryRecord
  <2>1. ASSUME NEW u \in Tasks
        PROVE  Ctl(u)'
    <3>1. CASE u = t
      BY <1>0, <2>0, <1>34, <3>1
      DEF StepFinish, Ctl, ForkLabels, WaitLabels, ExitLabels, SomeProc
    <3>2. CASE u # t
      BY <1>0, <1>34, <3>2, CtlFrame DEF StepFinish
    <3> QED
      BY <3>1, <3>2
  <2>2. ASSUME NEW p \in Procs
        PROVE  CountOk(p)'
    <3>1. ASSUME NEW u \in Tasks
          PROVE  /\ pc'[u] = "unborn" <=> pc[u] = "unborn"
                 /\ loc'[u].why = "exit" <=> loc[u].why = "exit"
      <4>1. CASE u = t
        BY <1>0, <1>34, <4>1 DEF StepFinish, Ctl, ForkLabels, WaitLabels, ExitLabels
      <4>2. CASE u # t
        BY <1>0, <1>34, <4>2 DEF StepFinish
      <4> QED
        BY <4>1, <4>2
    <3>2. /\ proc'[p].life = "unborn" => proc[p].life = "unborn"
          /\ proc'[p].alive = proc[p].alive /\ proc'[p].tasks \subseteq proc[p].tasks
          /\ proc'[p].pending => proc[p].pending
          /\ proc[p].zombie => proc'[p].zombie
      BY <1>34 DEF StepFinish
    <3> QED
      BY <3>1, <3>2, CountFrame
  <2> QED
    BY <2>1, <2>2
<1>35. ASSUME StepEvent(t)
      PROVE  (\A u \in Tasks : Ctl(u)') /\ \A p \in Procs : CountOk(p)'
  <2>1. ASSUME NEW u \in Tasks
        PROVE  Ctl(u)'
    <3>1. CASE u = t
      BY <1>0, <1>35, <3>1 DEF StepEvent, Ctl, ForkLabels, WaitLabels, ExitLabels
    <3>2. CASE u # t
      BY <1>0, <1>35, <3>2, CtlFrame DEF StepEvent
    <3> QED
      BY <3>1, <3>2
  <2>2. ASSUME NEW p \in Procs
        PROVE  CountOk(p)'
    <3>1. ASSUME NEW u \in Tasks
          PROVE  /\ pc'[u] = "unborn" <=> pc[u] = "unborn"
                 /\ loc'[u].why = "exit" <=> loc[u].why = "exit"
      <4>1. CASE u = t
        BY <1>0, <1>35, <4>1 DEF StepEvent, Ctl, ForkLabels, WaitLabels, ExitLabels
      <4>2. CASE u # t
        BY <1>0, <1>35, <4>2 DEF StepEvent
      <4> QED
        BY <4>1, <4>2
    <3>2. /\ proc'[p].life = "unborn" => proc[p].life = "unborn"
          /\ proc'[p].alive = proc[p].alive /\ proc'[p].tasks \subseteq proc[p].tasks
          /\ proc'[p].pending => proc[p].pending
          /\ proc[p].zombie => proc'[p].zombie
      BY <1>35 DEF StepEvent
    <3> QED
      BY <3>1, <3>2, CountFrame
  <2> QED
    BY <2>1, <2>2
<1>36. ASSUME StepCollect(t)
      PROVE  (\A u \in Tasks : Ctl(u)') /\ \A p \in Procs : CountOk(p)'
  <2>1. ASSUME NEW u \in Tasks
        PROVE  Ctl(u)'
    <3>1. CASE u = t
      BY <1>0, <1>36, <3>1 DEF StepCollect, Ctl, ForkLabels, WaitLabels, ExitLabels
    <3>2. CASE u # t
      BY <1>0, <1>36, <3>2, CtlFrame DEF StepCollect
    <3> QED
      BY <3>1, <3>2
  <2>2. ASSUME NEW p \in Procs
        PROVE  CountOk(p)'
    <3>1. ASSUME NEW u \in Tasks
          PROVE  /\ pc'[u] = "unborn" <=> pc[u] = "unborn"
                 /\ loc'[u].why = "exit" <=> loc[u].why = "exit"
      <4>1. CASE u = t
        BY <1>0, <1>36, <4>1 DEF StepCollect, Ctl, ForkLabels, WaitLabels, ExitLabels
      <4>2. CASE u # t
        BY <1>0, <1>36, <4>2 DEF StepCollect
      <4> QED
        BY <4>1, <4>2
    <3>2. /\ proc'[p].life = "unborn" => proc[p].life = "unborn"
          /\ proc'[p].alive = proc[p].alive /\ proc'[p].tasks \subseteq proc[p].tasks
          /\ proc'[p].pending => proc[p].pending
          /\ proc[p].zombie => proc'[p].zombie
      BY <1>36 DEF StepCollect
    <3> QED
      BY <3>1, <3>2, CountFrame
  <2> QED
    BY <2>1, <2>2
<1>37. ASSUME NEW w \in Tasks, StepWakeOne(t, w)
      PROVE  (\A u \in Tasks : Ctl(u)') /\ \A p \in Procs : CountOk(p)'
  <2>1. ASSUME NEW u \in Tasks
        PROVE  Ctl(u)'
    <3>1. CASE u = t
      BY <1>0, <1>37, <3>1 DEF StepWakeOne, Ctl, ForkLabels, WaitLabels, ExitLabels
    <3>2. CASE u # t
      BY <1>0, <1>37, <3>2, CtlFrame DEF StepWakeOne
    <3> QED
      BY <3>1, <3>2
  <2>2. ASSUME NEW p \in Procs
        PROVE  CountOk(p)'
    <3>1. ASSUME NEW u \in Tasks
          PROVE  /\ pc'[u] = "unborn" <=> pc[u] = "unborn"
                 /\ loc'[u].why = "exit" <=> loc[u].why = "exit"
      <4>1. CASE u = t
        BY <1>0, <1>37, <4>1 DEF StepWakeOne, Ctl, ForkLabels, WaitLabels, ExitLabels
      <4>2. CASE u # t
        BY <1>0, <1>37, <4>2 DEF StepWakeOne
      <4> QED
        BY <4>1, <4>2
    <3>2. /\ proc'[p].life = "unborn" => proc[p].life = "unborn"
          /\ proc'[p].alive = proc[p].alive /\ proc'[p].tasks \subseteq proc[p].tasks
          /\ proc'[p].pending => proc[p].pending
          /\ proc[p].zombie => proc'[p].zombie
      BY <1>37 DEF StepWakeOne
    <3> QED
      BY <3>1, <3>2, CountFrame
  <2> QED
    BY <2>1, <2>2
<1>38. ASSUME StepWakesDone(t)
      PROVE  (\A u \in Tasks : Ctl(u)') /\ \A p \in Procs : CountOk(p)'
  <2>1. ASSUME NEW u \in Tasks
        PROVE  Ctl(u)'
    <3>1. CASE u = t
      BY <1>0, <1>38, <3>1 DEF StepWakesDone, Ctl, ForkLabels, WaitLabels, ExitLabels
    <3>2. CASE u # t
      BY <1>0, <1>38, <3>2, CtlFrame DEF StepWakesDone
    <3> QED
      BY <3>1, <3>2
  <2>2. ASSUME NEW p \in Procs
        PROVE  CountOk(p)'
    <3>1. ASSUME NEW u \in Tasks
          PROVE  /\ pc'[u] = "unborn" <=> pc[u] = "unborn"
                 /\ loc'[u].why = "exit" <=> loc[u].why = "exit"
      <4>1. CASE u = t
        BY <1>0, <1>38, <4>1 DEF StepWakesDone, Ctl, ForkLabels, WaitLabels, ExitLabels
      <4>2. CASE u # t
        BY <1>0, <1>38, <4>2 DEF StepWakesDone
      <4> QED
        BY <4>1, <4>2
    <3>2. /\ proc'[p].life = "unborn" => proc[p].life = "unborn"
          /\ proc'[p].alive = proc[p].alive /\ proc'[p].tasks \subseteq proc[p].tasks
          /\ proc'[p].pending => proc[p].pending
          /\ proc[p].zombie => proc'[p].zombie
      BY <1>38 DEF StepWakesDone
    <3> QED
      BY <3>1, <3>2, CountFrame
  <2> QED
    BY <2>1, <2>2
<1> QED
  BY <1>1, <1>2, <1>3, <1>4, <1>5, <1>6, <1>7, <1>8, <1>9, <1>10, <1>11, <1>12, <1>13,
     <1>14, <1>15, <1>16, <1>17, <1>18, <1>19, <1>20, <1>21, <1>22, <1>23, <1>24, <1>25,
     <1>26, <1>27, <1>28, <1>29, <1>30, <1>31, <1>32, <1>33, <1>34, <1>35, <1>36, <1>37,
     <1>38
  DEF Step, ControlInv

\* The initial states have one thread in user code per thread that is counted.
LEMMA ControlInit ==
  ASSUME Init
  PROVE  ControlInv
<1> DEFINE live(s) == {ProcOf[x] : x \in s.start}
<1>1. PICK s \in Scenarios :
        /\ proc = [p \in Procs |->
                     IF p \notin live(s) THEN Absent
                     ELSE [NewProc(IF p = InitProc THEN Nobody ELSE InitProc,
                                   ThreadsOf(p) \cap s.start, Nobody, "live")
                           EXCEPT !.children = IF p = InitProc THEN live(s) \ {p} ELSE {}]]
        /\ pc = [t \in Tasks |-> IF t \in s.start THEN "user" ELSE "unborn"]
        /\ prog = s.prog
        /\ loc = [t \in Tasks |-> NoLocals] /\ token = [t \in Tasks |-> FALSE]
        /\ flag = [t \in Tasks |-> FALSE] /\ vforkChild = [t \in Tasks |-> Nobody]
        /\ deferred = [t \in Tasks |-> NoEntry] /\ adopted = {}
  BY DEF Init
<1>2. s.start \subseteq Tasks /\ live(s) \subseteq Procs /\ s.prog \in [Tasks -> Seq(Calls)]
  BY <1>1
<1> HIDE DEF live
<1>3. ASSUME NEW p \in Procs
      PROVE  /\ proc[p] \in ProcRecord /\ ~proc[p].pending /\ ~proc[p].zombie
             /\ proc[p].tasks = (IF p \in live(s) THEN ThreadsOf(p) \cap s.start ELSE {})
             /\ proc[p].alive = Cardinality(ThreadsOf(p) \cap s.start)
             /\ proc[p].life = "unborn" => p \notin live(s)
  <2>1. CASE p \notin live(s)
    <3>1. proc[p] = Absent
      BY <1>1, <2>1
    <3>2. Cardinality({}) = 0
      BY FS_EmptySet
    <3>3. Absent \in ProcRecord
      BY <3>2 DEF Absent, NewProc, ProcRecord, Life, SomeProc, SomeTask
    <3>4. ThreadsOf(p) \cap s.start = {}
      BY <2>1 DEF live, ThreadsOf
    <3>5. /\ Absent.life = "unborn" /\ ~Absent.pending /\ ~Absent.zombie /\ Absent.tasks = {}
          /\ Absent.alive = Cardinality({})
      BY DEF Absent, NewProc
    <3> QED
      BY <2>1, <3>1, <3>3, <3>4, <3>5
  <2>2. CASE p \in live(s)
    <3> DEFINE n == NewProc(IF p = InitProc THEN Nobody ELSE InitProc,
                            ThreadsOf(p) \cap s.start, Nobody, "live")
    <3> DEFINE k == IF p = InitProc THEN live(s) \ {p} ELSE {}
    <3>1. proc[p] = [n EXCEPT !.children = k]
      BY <1>1, <2>2
    <3>2. Cardinality(ThreadsOf(p) \cap s.start) \in Nat
      BY <1>2, FS_Subset, FS_CardinalityType
    <3>3. n \in ProcRecord
      BY <1>2, <3>2 DEF NewProc, ProcRecord, Life, SomeProc, SomeTask
    <3>4. k \in SUBSET Procs
      BY <1>2
    <3>6. /\ ~n.pending /\ ~n.zombie /\ n.tasks = ThreadsOf(p) \cap s.start /\ n.life = "live"
          /\ n.alive = Cardinality(ThreadsOf(p) \cap s.start)
      BY DEF NewProc
    <3> HIDE DEF n, k
    <3>8. [n EXCEPT !.children = k] \in ProcRecord
      BY <3>3, <3>4, ProcUpdates
    <3>5. proc[p] \in ProcRecord
      BY <3>1, <3>8
    <3>7. /\ proc[p].pending = n.pending /\ proc[p].zombie = n.zombie /\ proc[p].tasks = n.tasks
          /\ proc[p].life = n.life /\ proc[p].alive = n.alive
      BY <3>1, <3>3 DEF ProcRecord
    <3> QED
      BY <2>2, <3>5, <3>6, <3>7
  <2> QED
    BY <2>1, <2>2
<1>4. Types
  <2>1. NoEntry \in EntryRecord
    BY DEF NoEntry, EntryRecord, Stage, SomeProc
  <2>2. proc \in [Procs -> ProcRecord]
    BY <1>1, <1>3
  <2>3. {"user", "unborn"} \subseteq Labels
    BY DEF Labels
  <2>4. pc \in [Tasks -> Labels] /\ vforkChild \in [Tasks -> SomeProc]
    BY <1>1, <2>3 DEF SomeProc
  <2>5. loc \in [Tasks -> LocalRecord] /\ deferred \in [Tasks -> EntryRecord]
    BY <1>1, <2>1, NoLocalsTyped
  <2> QED
    BY <1>1, <1>2, <2>2, <2>4, <2>5 DEF Types
<1>5. ASSUME NEW t \in Tasks
      PROVE  Ctl(t) /\ loc[t].why = "call" /\ pc[t] = (IF t \in s.start THEN "user" ELSE "unborn")
  <2>1. loc[t].why = "call" /\ deferred[t].st = "none"
    BY <1>1 DEF NoLocals, NoEntry
  <2> QED
    BY <1>1, <2>1 DEF Ctl, ForkLabels, WaitLabels, ExitLabels
<1>6. ASSUME NEW p \in Procs
      PROVE  CountOk(p)
  <2>1. LiveThreads(p) = ThreadsOf(p) \cap s.start
    BY <1>5 DEF LiveThreads, ThreadsOf
  <2>2. proc[p].life = "unborn" => \A t \in ThreadsOf(p) : pc[t] = "unborn"
    <3>1. p \notin live(s) => \A t \in ThreadsOf(p) : t \notin s.start
      BY DEF ThreadsOf, live
    <3> QED
      BY <1>3, <1>5, <3>1 DEF ThreadsOf
  <2> QED
    BY <1>3, <2>1, <2>2 DEF CountOk
<1> QED
  BY <1>4, <1>5, <1>6 DEF ControlInv

\* ControlInv is inductive,
LEMMA ControlNext ==
  ASSUME ControlInv, [Next]_vars
  PROVE  ControlInv'
<1>1. CASE UNCHANGED vars
  <2>1. /\ proc' = proc /\ pc' = pc /\ loc' = loc /\ deferred' = deferred
        /\ Types' /\ \A t \in Tasks : Ctl(t)
    BY <1>1, NextIsStep DEF vars, ControlInv
  <2>2. \A t \in Tasks : Ctl(t)'
    BY <2>1, CtlFrame
  <2>3. \A p \in Procs : CountOk(p)'
    BY <2>1, CountFrame
  <2> QED
    BY <2>1, <2>2, <2>3 DEF ControlInv
<1>2. CASE \E t \in Tasks : Step(t)
  BY <1>2, NextIsStep, ControlStep
<1> QED
  BY <1>1, <1>2, NextIsStep

\* holds in every behaviour,
LEMMA ControlInvariant == Spec => []ControlInv
<1>1. Init => ControlInv
  BY ControlInit
<1>2. ControlInv /\ [Next]_vars => ControlInv'
  BY ControlNext
<1> QED
  BY <1>1, <1>2, PTL DEF Spec

\* and contains the types and the exact thread count.
LEMMA ControlImpliesTypeOK == ControlInv => TypeOK
<1> SUFFICES ASSUME ControlInv
             PROVE  TypeOK
  OBVIOUS
<1>1. ASSUME NEW p \in Procs
      PROVE  LiveThreads(p) = {t \in ThreadsOf(p) :
               pc[t] = "exitCount" \/ (~IsExiting(t) /\ pc[t] # "unborn")}
  <2>1. ASSUME NEW t \in Tasks
        PROVE  pc[t] # "unborn" /\ loc[t].why # "exit"
                 <=> pc[t] = "exitCount" \/ (~IsExiting(t) /\ pc[t] # "unborn")
    BY DEF ControlInv, Ctl, IsExiting, Exiting, ExitLabels
  <2> QED
    BY <2>1 DEF LiveThreads, ThreadsOf
<1>2. ASSUME NEW p \in Procs
      PROVE  /\ proc[p].life \in {"unborn", "made", "live", "reaped"}
             /\ proc[p].children \subseteq Procs
             /\ proc[p].parent \in Procs \cup {Nobody}
             /\ proc[p].vforkParent \in Tasks \cup {Nobody}
  BY DEF ControlInv, Types, ProcRecord, Life, SomeProc, SomeTask
<1>3. ASSUME NEW p \in Procs
      PROVE  /\ proc[p].tasks \subseteq ThreadsOf(p)
             /\ proc[p].alive = Cardinality(LiveThreads(p))
             /\ proc[p].pending => Dead(p)
  BY DEF ControlInv, CountOk
<1>4. \A t \in Tasks : loc[t].why \in Why /\ loc[t].todo \subseteq Procs
  BY DEF ControlInv, Types, LocalRecord
<1>5. /\ pc \in [Tasks -> Labels] /\ token \in [Tasks -> BOOLEAN]
      /\ flag \in [Tasks -> BOOLEAN] /\ vforkChild \in [Tasks -> Procs \cup {Nobody}]
  BY DEF ControlInv, Types, SomeProc
<1> QED
  BY <1>1, <1>2, <1>3, <1>4, <1>5 DEF TypeOK

(* The PCBs count their threads: alive_thread_count is the number of threads  *)
(* that have not been through the critical section of exit that counts, so    *)
(* the subtraction never passes zero and one thread finds itself the last;    *)
(* and final cleanup is pending only for a process without a thread.          *)
THEOREM TypeCorrect == Spec => []TypeOK
BY ControlInvariant, ControlImpliesTypeOK, PTL

-----------------------------------------------------------------------------
(* Who may be reaped *)

\* The thread that found itself the last one, and its entry of the deferred
\* list once the scheduler loop has seen it off its stack.
IsLast(t) == loc[t].why = "exit" /\ loc[t].last
Finished(t) == deferred[t].st \in {"publish", "collect", "wake", "done"}

\* It has told the PCB that it does not need its slot any more.
PastParent(t) ==
  loc[t].why = "exit" /\ pc[t] \in {"vforkClear", "vforkWake", "exitDefer", "exitSwitch", "gone", "rerun"}

\* Final cleanup is pending from the count of the last thread until the
\* scheduler loop has finished with it, and a thread that is not past its exit
\* has a slot of the PCB.
ExitOk(t) ==
  /\ pc[t] \in {"rpTake", "rpEach", "initPublish", "initWake", "exitParent", "vforkClear",
                "vforkWake"} /\ loc[t].why = "exit" => loc[t].last
  /\ IsLast(t) => Dead(ProcOf[t]) /\ (Finished(t) \/ proc[ProcOf[t]].pending)
  /\ IsLast(t) /\ pc[t] \in {"exitSwitch", "gone", "rerun"} => deferred[t].st # "none"
  /\ deferred[t].st # "none" => (deferred[t].final <=> loc[t].last)
  /\ deferred[t].st = "none" => ~deferred[t].final
  /\ pc[t] \notin {"unborn", "exitDefer", "exitSwitch", "gone", "rerun", "exitParent"}
       /\ ~PastParent(t) => t \in proc[ProcOf[t]].tasks

LastUnique == \A t, u \in Tasks : IsLast(t) /\ IsLast(u) /\ ProcOf[t] = ProcOf[u] => t = u

\* Init's own children are never taken from it.
ReapCtl(t) ==
  /\ loc[t].why = "reap" => pc[t] \in {"rpTake", "rpEach", "waitFree"}
  /\ pc[t] \in {"rpTake", "rpEach", "waitFree"} => loc[t].of # InitProc

Born(c) == proc[c].life = "unborn" => ~proc[c].zombie

Settled(c) ==
  \A u \in ThreadsOf(c) : \/ pc[u] \in {"gone", "unborn", "rerun"}
                          \/ (pc[u] \in {"exitDefer", "exitSwitch"} /\ ~loc[u].last)

\* A thread of the parent has found that c may be reaped.
Claims(t, c) == loc[t].of = c /\ (pc[t] = "waitRemove" \/ loc[t].why = "reap")

ReapOk(c) ==
  proc[c].life = "reaped" \/ (\E t \in Tasks : Claims(t, c)) =>
    proc[c].life # "unborn" /\ Settled(c)

ExitInv ==
  /\ \A t \in Tasks : ExitOk(t) /\ ReapCtl(t)
  /\ LastUnique
  /\ \A c \in Procs : Born(c) /\ ReapOk(c)

\* A process that is there is in one hand: in one list of children, with one
\* thread that moves it to init's list, or with one thread that reaps it.
InList(p, c) == c \in proc[p].children
Moving(t, c) == pc[t] = "rpEach" /\ c \in loc[t].todo \cup loc[t].moved
Forking(t, c) == pc[t] = "forkPush" /\ loc[t].of = c

Custody(c) ==
  /\ c = InitProc => proc[c].life = "live"
  /\ \A p \in Procs : InList(p, c) => proc[c].life = "live" /\ c # InitProc
  /\ \A t \in Tasks : Moving(t, c) => proc[c].life = "live" /\ c # InitProc
  /\ \A t \in Tasks : Reaps(t, c) => proc[c].life = "live" /\ c # InitProc
  /\ \A t \in Tasks : Forking(t, c) => proc[c].life = "made" /\ c # InitProc
  /\ \A p, q \in Procs : InList(p, c) /\ InList(q, c) => p = q
  /\ \A t, u \in Tasks : Moving(t, c) /\ Moving(u, c) => t = u
  /\ \A t, u \in Tasks : Reaps(t, c) /\ Reaps(u, c) => t = u
  /\ \A t, u \in Tasks : Forking(t, c) /\ Forking(u, c) => t = u
  /\ \A t \in Tasks, p \in Procs : Moving(t, c) => ~InList(p, c)
  /\ \A t \in Tasks, p \in Procs : Reaps(t, c) => ~InList(p, c)
  /\ \A t, u \in Tasks : Reaps(t, c) => ~Moving(u, c)

CustodyInv == \A c \in Procs : Custody(c)

\* A thread that a step does not move, or only wakes.
LEMMA ExitFrame ==
  ASSUME NEW u \in Tasks, ExitOk(u), loc'[u] = loc[u], deferred'[u] = deferred[u],
         pc'[u] = pc[u] \/ WokenTo(u),
         IsLast(u) => /\ Dead(ProcOf[u]) => Dead(ProcOf[u])'
                      /\ proc[ProcOf[u]].pending => proc'[ProcOf[u]].pending,
         u \in proc[ProcOf[u]].tasks => \/ u \in proc'[ProcOf[u]].tasks
                                        \/ pc'[u] \in {"unborn", "exitDefer", "exitSwitch", "gone", "rerun"}
  PROVE  ExitOk(u)'
BY DEF ExitOk, IsLast, Finished, PastParent

\* The same for what a reaping thread has in hand.
LEMMA ReapCtlFrame ==
  ASSUME NEW u \in Tasks, ReapCtl(u), loc'[u] = loc[u], pc'[u] = pc[u] \/ WokenTo(u)
  PROVE  ReapCtl(u)'
BY DEF ReapCtl

\* The threads of a process that is being reaped stay out of the way.
LEMMA SettledFrame ==
  ASSUME NEW c \in Procs, Settled(c),
         \A u \in ThreadsOf(c) : \/ (pc'[u] = pc[u] \/ WokenTo(u)) /\ loc'[u] = loc[u]
                                 \/ pc[u] \notin {"gone", "unborn", "rerun", "exitDefer", "exitSwitch"}
  PROVE  Settled(c)'
BY DEF Settled, ThreadsOf

\* A process nobody new claims stays reapable if it was.
LEMMA ReapFrame ==
  ASSUME NEW c \in Procs, ReapOk(c), Settled(c) => Settled(c)',
         \A u \in Tasks : Claims(u, c)' => Claims(u, c),
         proc'[c].life = "reaped" => proc[c].life = "reaped",
         proc'[c].life = "unborn" => proc[c].life = "unborn"
  PROVE  ReapOk(c)'
BY DEF ReapOk

\* A process whose count is zero has no thread before the count.
LEMMA NoneAlive ==
  ASSUME ControlInv, NEW p \in Procs, proc[p].alive = 0
  PROVE  LiveThreads(p) = {}
<1>1. LiveThreads(p) \subseteq Tasks /\ Cardinality(LiveThreads(p)) = 0
  BY DEF ControlInv, CountOk, LiveThreads, ThreadsOf
<1>2. IsFiniteSet(LiveThreads(p))
  BY <1>1, FS_Subset
<1> QED
  BY <1>1, <1>2, FS_EmptySet

\* What is freed is another process, whose threads are out of the way.
LEMMA FreeOther ==
  ASSUME ControlInv, ExitInv, NEW t \in Tasks, pc[t] = "waitFree"
  PROVE  loc[t].of \in Procs /\ Settled(loc[t].of) /\ ProcOf[t] # loc[t].of
<1>1. loc[t].of \in Procs /\ loc[t].why = "reap"
  BY DEF ControlInv, Ctl
<1>2. Settled(loc[t].of)
  BY <1>1 DEF ExitInv, ReapOk, Claims
<1>3. ProcOf[t] # loc[t].of
  BY <1>2 DEF Settled, ThreadsOf
<1> QED
  BY <1>1, <1>2, <1>3

\* Every step keeps what exit has told the PCB.
LEMMA ExitStep ==
  ASSUME ControlInv, ExitInv, NEW t \in Tasks, Step(t)
  PROVE  \A u \in Tasks : ExitOk(u)'
<1>0. /\ ProcOf[t] \in Procs /\ Ctl(t) /\ ExitOk(t) /\ \A u \in Tasks : ExitOk(u) /\ Ctl(u)
      /\ \A p \in Procs : CountOk(p)
  BY DEF ControlInv, ExitInv
<1>1. ASSUME StepReturn(t)
      PROVE  \A u \in Tasks : ExitOk(u)'
  <2>1. ExitOk(t)'
    BY <1>0, <1>1
    DEF StepReturn, ExitOk, IsLast, Finished, PastParent, Ctl, ForkLabels, WaitLabels,
        ExitLabels, Dead, AfterReturn
  <2>2. ASSUME NEW u \in Tasks, u # t
        PROVE  ExitOk(u)'
    BY <1>0, <1>1, <2>2, ExitFrame DEF StepReturn, Dead
  <2> QED
    BY <2>1, <2>2
<1>2. ASSUME NEW c \in Procs, NEW v \in BOOLEAN, StepFork(t, c, v)
      PROVE  \A u \in Tasks : ExitOk(u)'
  <2>1. ExitOk(t)'
    BY <1>0, <1>2
    DEF StepFork, ExitOk, IsLast, Finished, PastParent, Ctl, ForkLabels, WaitLabels,
        ExitLabels, Dead
  <2>2. ASSUME NEW u \in Tasks, u # t
        PROVE  ExitOk(u)'
    <3>1. CASE ProcOf[u] # c
      BY <1>0, <1>2, <2>2, <3>1, ExitFrame DEF StepFork, Dead
    <3>2. CASE ProcOf[u] = c
      <4>1. pc[u] = "unborn" /\ loc[u].why = "call" /\ deferred[u].st = "none"
        BY <1>0, <1>2, <3>2 DEF StepFork, CountOk, ThreadsOf, Ctl
      <4> QED
        BY <1>0, <1>2, <2>2, <3>2, <4>1 DEF StepFork, ExitOk, IsLast, Finished, PastParent
    <3> QED
      BY <3>1, <3>2
  <2> QED
    BY <2>1, <2>2
<1>3. ASSUME StepPush(t)
      PROVE  \A u \in Tasks : ExitOk(u)'
  <2>1. ExitOk(t)'
    BY <1>0, <1>3
    DEF StepPush, ExitOk, IsLast, Finished, PastParent, Ctl, ForkLabels, WaitLabels,
        ExitLabels, Dead
  <2>2. ASSUME NEW u \in Tasks, u # t
        PROVE  ExitOk(u)'
    BY <1>0, <1>3, <2>2, ExitFrame DEF StepPush, Dead
  <2> QED
    BY <2>1, <2>2
<1>4. ASSUME StepPublish(t)
      PROVE  \A u \in Tasks : ExitOk(u)'
  <2>1. ExitOk(t)'
    BY <1>0, <1>4
    DEF StepPublish, ExitOk, IsLast, Finished, PastParent, Ctl, ForkLabels, WaitLabels,
        ExitLabels, Dead
  <2>2. ASSUME NEW u \in Tasks, u # t
        PROVE  ExitOk(u)'
    BY <1>0, <1>4, <2>2, ExitFrame DEF StepPublish, Dead
  <2> QED
    BY <2>1, <2>2
<1>5. ASSUME StepStart(t)
      PROVE  \A u \in Tasks : ExitOk(u)'
  <2>1. ExitOk(t)'
    BY <1>0, <1>5
    DEF StepStart, ExitOk, IsLast, Finished, PastParent, Ctl, ForkLabels, WaitLabels,
        ExitLabels, Dead, AfterReturn
  <2>2. ASSUME NEW u \in Tasks, u # t
        PROVE  ExitOk(u)'
    BY <1>0, <1>5, <2>2, ExitFrame DEF StepStart, Dead
  <2> QED
    BY <2>1, <2>2
<1>6. ASSUME StepVforkBlock(t)
      PROVE  \A u \in Tasks : ExitOk(u)'
  <2>1. ExitOk(t)'
    BY <1>0, <1>6
    DEF StepVforkBlock, ExitOk, IsLast, Finished, PastParent, Ctl, ForkLabels,
        WaitLabels, ExitLabels, Dead
  <2>2. ASSUME NEW u \in Tasks, u # t
        PROVE  ExitOk(u)'
    BY <1>0, <1>6, <2>2, ExitFrame DEF StepVforkBlock, Dead
  <2> QED
    BY <2>1, <2>2
<1>7. ASSUME StepExec(t)
      PROVE  \A u \in Tasks : ExitOk(u)'
  <2>1. ExitOk(t)'
    BY <1>0, <1>7
    DEF StepExec, ExitOk, IsLast, Finished, PastParent, Ctl, ForkLabels, WaitLabels,
        ExitLabels, Dead, AfterReturn
  <2>2. ASSUME NEW u \in Tasks, u # t
        PROVE  ExitOk(u)'
    <3>1. /\ proc'[ProcOf[u]].tasks = proc[ProcOf[u]].tasks
          /\ proc'[ProcOf[u]].pending = proc[ProcOf[u]].pending /\ (Dead(ProcOf[u]) => Dead(ProcOf[u])')
      BY <1>0, <1>7 DEF StepExec, Dead
    <3>2. pc'[u] = pc[u] /\ loc'[u] = loc[u] /\ deferred'[u] = deferred[u]
      BY <1>7, <2>2 DEF StepExec
    <3> QED
      BY <1>0, <3>1, <3>2, ExitFrame
  <2> QED
    BY <2>1, <2>2
<1>8. ASSUME StepVforkClear(t)
      PROVE  \A u \in Tasks : ExitOk(u)'
  <2>1. ExitOk(t)'
    BY <1>0, <1>8
    DEF StepVforkClear, ExitOk, IsLast, Finished, PastParent, Ctl, ForkLabels,
        WaitLabels, ExitLabels, Dead, AfterVfork, AfterReturn
  <2>2. ASSUME NEW u \in Tasks, u # t
        PROVE  ExitOk(u)'
    BY <1>0, <1>8, <2>2, ExitFrame DEF StepVforkClear, Dead
  <2> QED
    BY <2>1, <2>2
<1>9. ASSUME StepVforkWake(t)
      PROVE  \A u \in Tasks : ExitOk(u)'
  <2>1. ExitOk(t)'
    BY <1>0, <1>9
    DEF StepVforkWake, ExitOk, IsLast, Finished, PastParent, Ctl, ForkLabels,
        WaitLabels, ExitLabels, Dead, AfterVfork, AfterReturn
  <2>2. ASSUME NEW u \in Tasks, u # t
        PROVE  ExitOk(u)'
    BY <1>0, <1>9, <2>2, ExitFrame DEF StepVforkWake, Dead
  <2> QED
    BY <2>1, <2>2
<1>10. ASSUME StepTake(t)
      PROVE  \A u \in Tasks : ExitOk(u)'
  <2>1. ExitOk(t)'
    BY <1>0, <1>10
    DEF StepTake, ExitOk, IsLast, Finished, PastParent, Ctl, ForkLabels, WaitLabels,
        ExitLabels, Dead
  <2>2. ASSUME NEW u \in Tasks, u # t
        PROVE  ExitOk(u)'
    BY <1>0, <1>10, <2>2, ExitFrame DEF StepTake, Dead
  <2> QED
    BY <2>1, <2>2
<1>11. ASSUME NEW c \in Procs, StepEach(t, c)
      PROVE  \A u \in Tasks : ExitOk(u)'
  <2>1. ExitOk(t)'
    BY <1>0, <1>11
    DEF StepEach, ExitOk, IsLast, Finished, PastParent, Ctl, ForkLabels, WaitLabels,
        ExitLabels, Dead
  <2>2. ASSUME NEW u \in Tasks, u # t
        PROVE  ExitOk(u)'
    BY <1>0, <1>11, <2>2, ExitFrame DEF StepEach, Dead
  <2> QED
    BY <2>1, <2>2
<1>12. ASSUME StepGive(t)
      PROVE  \A u \in Tasks : ExitOk(u)'
  <2>1. ExitOk(t)'
    <3>1. /\ proc'[ProcOf[t]].tasks = proc[ProcOf[t]].tasks
          /\ proc'[ProcOf[t]].pending = proc[ProcOf[t]].pending /\ (Dead(ProcOf[t]) => Dead(ProcOf[t])')
      BY <1>0, <1>12 DEF StepGive, Dead
    <3>2. /\ pc'[t] \in {"waitFree", "initPublish", "exitDetach", "notify"}
          /\ pc'[t] = "waitFree" => loc[t].why # "exit"
      BY <1>0, <1>12 DEF StepGive, AfterReparent, AfterAdoption
    <3>3. pc[t] = "rpEach" /\ loc' = loc /\ deferred' = deferred
      BY <1>12 DEF StepGive
    <3> QED
      BY <1>0, <3>1, <3>2, <3>3 DEF ExitOk, IsLast, Finished, PastParent
  <2>2. ASSUME NEW u \in Tasks, u # t
        PROVE  ExitOk(u)'
    BY <1>0, <1>12, <2>2, ExitFrame DEF StepGive, Dead
  <2> QED
    BY <2>1, <2>2
<1>13. ASSUME StepInitPublish(t)
      PROVE  \A u \in Tasks : ExitOk(u)'
  <2>1. ExitOk(t)'
    BY <1>0, <1>13
    DEF StepInitPublish, ExitOk, IsLast, Finished, PastParent, Ctl, ForkLabels,
        WaitLabels, ExitLabels, Dead
  <2>2. ASSUME NEW u \in Tasks, u # t
        PROVE  ExitOk(u)'
    BY <1>0, <1>13, <2>2, ExitFrame DEF StepInitPublish, Dead
  <2> QED
    BY <2>1, <2>2
<1>14. ASSUME NEW w \in SomeTask, StepInitWake(t, w)
      PROVE  \A u \in Tasks : ExitOk(u)'
  <2>1. ExitOk(t)'
    BY <1>0, <1>14
    DEF StepInitWake, ExitOk, IsLast, Finished, PastParent, Ctl, ForkLabels, WaitLabels,
        ExitLabels, Dead, AfterAdoption, Asleep, SomeTask
  <2>2. ASSUME NEW u \in Tasks, u # t
        PROVE  ExitOk(u)'
    BY <1>0, <1>14, <2>2, ExitFrame DEF StepInitWake, Dead, SomeTask
  <2> QED
    BY <2>1, <2>2
<1>15. ASSUME StepWaitSeq(t)
      PROVE  \A u \in Tasks : ExitOk(u)'
  <2>1. ExitOk(t)'
    BY <1>0, <1>15
    DEF StepWaitSeq, ExitOk, IsLast, Finished, PastParent, Ctl, ForkLabels, WaitLabels,
        ExitLabels, Dead
  <2>2. ASSUME NEW u \in Tasks, u # t
        PROVE  ExitOk(u)'
    BY <1>0, <1>15, <2>2, ExitFrame DEF StepWaitSeq, Dead
  <2> QED
    BY <2>1, <2>2
<1>16. ASSUME StepWaitList(t)
      PROVE  \A u \in Tasks : ExitOk(u)'
  <2>1. ExitOk(t)'
    BY <1>0, <1>16
    DEF StepWaitList, ExitOk, IsLast, Finished, PastParent, Ctl, ForkLabels, WaitLabels,
        ExitLabels, Dead
  <2>2. ASSUME NEW u \in Tasks, u # t
        PROVE  ExitOk(u)'
    BY <1>0, <1>16, <2>2, ExitFrame DEF StepWaitList, Dead
  <2> QED
    BY <2>1, <2>2
<1>17. ASSUME NEW c \in Procs, StepFound(t, c)
      PROVE  \A u \in Tasks : ExitOk(u)'
  <2>1. ExitOk(t)'
    BY <1>0, <1>17
    DEF StepFound, ExitOk, IsLast, Finished, PastParent, Ctl, ForkLabels, WaitLabels,
        ExitLabels, Dead
  <2>2. ASSUME NEW u \in Tasks, u # t
        PROVE  ExitOk(u)'
    BY <1>0, <1>17, <2>2, ExitFrame DEF StepFound, Dead
  <2> QED
    BY <2>1, <2>2
<1>18. ASSUME NEW c \in Procs, StepPass(t, c)
      PROVE  \A u \in Tasks : ExitOk(u)'
  <2>1. ExitOk(t)'
    BY <1>0, <1>18
    DEF StepPass, ExitOk, IsLast, Finished, PastParent, Ctl, ForkLabels, WaitLabels,
        ExitLabels, Dead
  <2>2. ASSUME NEW u \in Tasks, u # t
        PROVE  ExitOk(u)'
    BY <1>0, <1>18, <2>2, ExitFrame DEF StepPass, Dead
  <2> QED
    BY <2>1, <2>2
<1>19. ASSUME StepAgain(t)
      PROVE  \A u \in Tasks : ExitOk(u)'
  <2>1. ExitOk(t)'
    BY <1>0, <1>19
    DEF StepAgain, ExitOk, IsLast, Finished, PastParent, Ctl, ForkLabels, WaitLabels,
        ExitLabels, Dead
  <2>2. ASSUME NEW u \in Tasks, u # t
        PROVE  ExitOk(u)'
    BY <1>0, <1>19, <2>2, ExitFrame DEF StepAgain, Dead
  <2> QED
    BY <2>1, <2>2
<1>20. ASSUME StepWaitBlock(t)
      PROVE  \A u \in Tasks : ExitOk(u)'
  <2>1. ExitOk(t)'
    BY <1>0, <1>20
    DEF StepWaitBlock, ExitOk, IsLast, Finished, PastParent, Ctl, ForkLabels,
        WaitLabels, ExitLabels, Dead
  <2>2. ASSUME NEW u \in Tasks, u # t
        PROVE  ExitOk(u)'
    BY <1>0, <1>20, <2>2, ExitFrame DEF StepWaitBlock, Dead
  <2> QED
    BY <2>1, <2>2
<1>21. ASSUME StepWin(t)
      PROVE  \A u \in Tasks : ExitOk(u)'
  <2>1. ExitOk(t)'
    BY <1>0, <1>21
    DEF StepWin, ExitOk, IsLast, Finished, PastParent, Ctl, ForkLabels, WaitLabels,
        ExitLabels, Dead
  <2>2. ASSUME NEW u \in Tasks, u # t
        PROVE  ExitOk(u)'
    BY <1>0, <1>21, <2>2, ExitFrame DEF StepWin, Dead
  <2> QED
    BY <2>1, <2>2
<1>22. ASSUME StepLose(t)
      PROVE  \A u \in Tasks : ExitOk(u)'
  <2>1. ExitOk(t)'
    BY <1>0, <1>22
    DEF StepLose, ExitOk, IsLast, Finished, PastParent, Ctl, ForkLabels, WaitLabels,
        ExitLabels, Dead
  <2>2. ASSUME NEW u \in Tasks, u # t
        PROVE  ExitOk(u)'
    BY <1>0, <1>22, <2>2, ExitFrame DEF StepLose, Dead
  <2> QED
    BY <2>1, <2>2
<1>23. ASSUME StepFree(t)
      PROVE  \A u \in Tasks : ExitOk(u)'
  <2>1. ExitOk(t)'
    <3>1. proc[ProcOf[t]].tasks = proc'[ProcOf[t]].tasks
      BY <1>0, <1>23, FreeOther DEF StepFree
    <3> QED
      BY <1>0, <1>23, <3>1
      DEF StepFree, AfterReturn, Ctl, ExitOk, IsLast, Finished, PastParent, Dead
  <2>2. ASSUME NEW u \in Tasks, u # t
        PROVE  ExitOk(u)'
    <3>1. proc[ProcOf[u]].tasks = proc'[ProcOf[u]].tasks
              \/ pc'[u] \in {"unborn", "exitDefer", "exitSwitch", "gone", "rerun"}
      BY <1>0, <1>23, <2>2, FreeOther, SMTT(60) DEF StepFree, Settled, ThreadsOf
    <3>2. proc'[ProcOf[u]].zombie = proc[ProcOf[u]].zombie /\ proc'[ProcOf[u]].alive = proc[ProcOf[u]].alive
          /\ proc'[ProcOf[u]].pending = proc[ProcOf[u]].pending
      BY <1>23 DEF StepFree
    <3> QED
      BY <1>0, <1>23, <2>2, <3>1, <3>2, ExitFrame DEF StepFree, Dead
  <2> QED
    BY <2>1, <2>2
<1>24. ASSUME StepCount(t)
      PROVE  \A u \in Tasks : ExitOk(u)'
  <2>1. ExitOk(t)'
    <3>1. proc[ProcOf[t]].alive \in Nat \ {0}
      BY <1>0, <1>24, CountedAlive DEF StepCount, Ctl
    <3>2. deferred[t].st = "none" /\ t \in proc[ProcOf[t]].tasks
      BY <1>0, <1>24 DEF StepCount, Ctl, ExitOk, PastParent
    <3> QED
      BY <1>0, <1>24, <3>1, <3>2 DEF StepCount, ExitOk, IsLast, Finished, PastParent, Dead
  <2>2. ASSUME NEW u \in Tasks, u # t
        PROVE  ExitOk(u)'
    <3>1. proc[ProcOf[t]].alive \in Nat \ {0}
      BY <1>0, <1>24, CountedAlive DEF StepCount, Ctl
    <3>2. IsLast(u) => ProcOf[u] # ProcOf[t]
      BY <1>0, <3>1 DEF ExitOk, Dead
    <3>3. u \in proc[ProcOf[u]].tasks => u \in proc'[ProcOf[u]].tasks
      BY <1>24 DEF StepCount
    <3> QED
      BY <1>0, <1>24, <2>2, <3>2, <3>3, ExitFrame DEF StepCount, Dead
  <2> QED
    BY <2>1, <2>2
<1>25. ASSUME StepDetach(t)
      PROVE  \A u \in Tasks : ExitOk(u)'
  <2>1. ExitOk(t)'
    BY <1>0, <1>25
    DEF StepDetach, ExitOk, IsLast, Finished, PastParent, Ctl, ForkLabels, WaitLabels,
        ExitLabels, Dead
  <2>2. ASSUME NEW u \in Tasks, u # t
        PROVE  ExitOk(u)'
    BY <1>0, <1>25, <2>2, ExitFrame DEF StepDetach, Dead
  <2> QED
    BY <2>1, <2>2
<1>26. ASSUME StepParent(t)
      PROVE  \A u \in Tasks : ExitOk(u)'
  <2>1. ExitOk(t)'
    BY <1>0, <1>26
    DEF StepParent, ExitOk, IsLast, Finished, PastParent, Ctl, ForkLabels, WaitLabels,
        ExitLabels, Dead
  <2>2. ASSUME NEW u \in Tasks, u # t
        PROVE  ExitOk(u)'
    BY <1>0, <1>26, <2>2, ExitFrame DEF StepParent, Dead
  <2> QED
    BY <2>1, <2>2
<1>27. ASSUME StepDefer(t)
      PROVE  \A u \in Tasks : ExitOk(u)'
  <2>1. ExitOk(t)'
    BY <1>0, <1>27
    DEF StepDefer, ExitOk, IsLast, Finished, PastParent, Ctl, ForkLabels, WaitLabels,
        ExitLabels, Dead
  <2>2. ASSUME NEW u \in Tasks, u # t
        PROVE  ExitOk(u)'
    BY <1>0, <1>27, <2>2, ExitFrame DEF StepDefer, Dead
  <2> QED
    BY <2>1, <2>2
<1>28. ASSUME StepSwitch(t)
      PROVE  \A u \in Tasks : ExitOk(u)'
  <2>1. ExitOk(t)'
    BY <1>0, <1>28
    DEF StepSwitch, ExitOk, IsLast, Finished, PastParent, Ctl, ForkLabels, WaitLabels,
        ExitLabels, Dead
  <2>2. ASSUME NEW u \in Tasks, u # t
        PROVE  ExitOk(u)'
    BY <1>0, <1>28, <2>2, ExitFrame DEF StepSwitch, Dead
  <2> QED
    BY <2>1, <2>2
<1>29. ASSUME StepGroup(t)
      PROVE  \A u \in Tasks : ExitOk(u)'
  <2>1. ExitOk(t)'
    BY <1>0, <1>29
    DEF StepGroup, ExitOk, IsLast, Finished, PastParent, Ctl, ForkLabels, WaitLabels,
        ExitLabels, Dead
  <2>2. ASSUME NEW u \in Tasks, u # t
        PROVE  ExitOk(u)'
    BY <1>0, <1>29, <2>2, ExitFrame DEF StepGroup, Dead
  <2> QED
    BY <2>1, <2>2
<1>30. ASSUME NEW k \in Procs, StepKill(t, k)
      PROVE  \A u \in Tasks : ExitOk(u)'
  <2>1. ExitOk(t)'
    BY <1>0, <1>30
    DEF StepKill, ExitOk, IsLast, Finished, PastParent, Ctl, ForkLabels, WaitLabels,
        ExitLabels, Dead
  <2>2. ASSUME NEW u \in Tasks, u # t
        PROVE  ExitOk(u)'
    BY <1>0, <1>30, <2>2, ExitFrame DEF StepKill, Dead
  <2> QED
    BY <2>1, <2>2
<1>31. ASSUME NEW w \in Tasks, StepFlag(t, w)
      PROVE  \A u \in Tasks : ExitOk(u)'
  <2>1. ExitOk(t)'
    BY <1>0, <1>31
    DEF StepFlag, ExitOk, IsLast, Finished, PastParent, Ctl, ForkLabels, WaitLabels,
        ExitLabels, Dead
  <2>2. ASSUME NEW u \in Tasks, u # t
        PROVE  ExitOk(u)'
    BY <1>0, <1>31, <2>2, ExitFrame DEF StepFlag, Dead
  <2> QED
    BY <2>1, <2>2
<1>32. ASSUME NEW w \in Tasks, StepFlagOnly(t, w)
      PROVE  \A u \in Tasks : ExitOk(u)'
  <2>1. ExitOk(t)'
    BY <1>0, <1>32
    DEF StepFlagOnly, ExitOk, IsLast, Finished, PastParent, Ctl, ForkLabels, WaitLabels,
        ExitLabels, Dead
  <2>2. ASSUME NEW u \in Tasks, u # t
        PROVE  ExitOk(u)'
    BY <1>0, <1>32, <2>2, ExitFrame DEF StepFlagOnly, Dead
  <2> QED
    BY <2>1, <2>2
<1>33. ASSUME StepNotify(t)
      PROVE  \A u \in Tasks : ExitOk(u)'
  <2>1. ExitOk(t)'
    BY <1>0, <1>33
    DEF StepNotify, ExitOk, IsLast, Finished, PastParent, Ctl, ForkLabels, WaitLabels,
        ExitLabels, Dead
  <2>2. ASSUME NEW u \in Tasks, u # t
        PROVE  ExitOk(u)'
    BY <1>0, <1>33, <2>2, ExitFrame DEF StepNotify, Dead
  <2> QED
    BY <2>1, <2>2
<1>34. ASSUME StepFinish(t)
      PROVE  \A u \in Tasks : ExitOk(u)'
  <2>1. ExitOk(t)'
    BY <1>0, <1>34
    DEF StepFinish, ExitOk, IsLast, Finished, PastParent, Ctl, ForkLabels, WaitLabels,
        ExitLabels, Dead
  <2>2. ASSUME NEW u \in Tasks, u # t
        PROVE  ExitOk(u)'
    <3>1. IsLast(u) /\ ProcOf[u] = ProcOf[t] => ~deferred[t].final
      BY <1>0, <1>34, <2>2
      DEF StepFinish, ExitOk, Ctl, ExitLabels, IsLast, ExitInv, LastUnique
    <3>2. /\ Dead(ProcOf[u]) => Dead(ProcOf[u])' /\ proc'[ProcOf[u]].tasks = proc[ProcOf[u]].tasks
      BY <1>34 DEF StepFinish, Dead
    <3>3. IsLast(u) /\ proc[ProcOf[u]].pending => proc'[ProcOf[u]].pending
      BY <1>34, <3>1 DEF StepFinish
    <3> QED
      BY <1>0, <1>34, <2>2, <3>2, <3>3, ExitFrame DEF StepFinish
  <2> QED
    BY <2>1, <2>2
<1>35. ASSUME StepEvent(t)
      PROVE  \A u \in Tasks : ExitOk(u)'
  <2>1. ExitOk(t)'
    BY <1>0, <1>35
    DEF StepEvent, ExitOk, IsLast, Finished, PastParent, Ctl, ForkLabels, WaitLabels,
        ExitLabels, Dead
  <2>2. ASSUME NEW u \in Tasks, u # t
        PROVE  ExitOk(u)'
    BY <1>0, <1>35, <2>2, ExitFrame DEF StepEvent, Dead
  <2> QED
    BY <2>1, <2>2
<1>36. ASSUME StepCollect(t)
      PROVE  \A u \in Tasks : ExitOk(u)'
  <2>1. ExitOk(t)'
    BY <1>0, <1>36
    DEF StepCollect, ExitOk, IsLast, Finished, PastParent, Ctl, ForkLabels, WaitLabels,
        ExitLabels, Dead
  <2>2. ASSUME NEW u \in Tasks, u # t
        PROVE  ExitOk(u)'
    BY <1>0, <1>36, <2>2, ExitFrame DEF StepCollect, Dead
  <2> QED
    BY <2>1, <2>2
<1>37. ASSUME NEW w \in Tasks, StepWakeOne(t, w)
      PROVE  \A u \in Tasks : ExitOk(u)'
  <2>1. ExitOk(t)'
    BY <1>0, <1>37
    DEF StepWakeOne, ExitOk, IsLast, Finished, PastParent, Ctl, ForkLabels, WaitLabels,
        ExitLabels, Dead
  <2>2. ASSUME NEW u \in Tasks, u # t
        PROVE  ExitOk(u)'
    BY <1>0, <1>37, <2>2, ExitFrame DEF StepWakeOne, Dead
  <2> QED
    BY <2>1, <2>2
<1>38. ASSUME StepWakesDone(t)
      PROVE  \A u \in Tasks : ExitOk(u)'
  <2>1. ExitOk(t)'
    BY <1>0, <1>38
    DEF StepWakesDone, ExitOk, IsLast, Finished, PastParent, Ctl, ForkLabels,
        WaitLabels, ExitLabels, Dead
  <2>2. ASSUME NEW u \in Tasks, u # t
        PROVE  ExitOk(u)'
    BY <1>0, <1>38, <2>2, ExitFrame DEF StepWakesDone, Dead
  <2> QED
    BY <2>1, <2>2
<1> QED
  BY <1>1, <1>2, <1>3, <1>4, <1>5, <1>6, <1>7, <1>8, <1>9, <1>10, <1>11, <1>12, <1>13,
     <1>14, <1>15, <1>16, <1>17, <1>18, <1>19, <1>20, <1>21, <1>22, <1>23, <1>24, <1>25,
     <1>26, <1>27, <1>28, <1>29, <1>30, <1>31, <1>32, <1>33, <1>34, <1>35, <1>36, <1>37,
     <1>38
  DEF Step

\* Only one thread of a process finds itself the last one.
LEMMA LastStep ==
  ASSUME ControlInv, ExitInv, NEW t \in Tasks, Step(t)
  PROVE  LastUnique'
<1>0. /\ ProcOf[t] \in Procs /\ Ctl(t) /\ LastUnique /\ \A u \in Tasks : ExitOk(u) /\ Ctl(u)
  BY DEF ControlInv, ExitInv
<1>a. ASSUME \A u \in Tasks : IsLast(u)' => IsLast(u)
      PROVE  LastUnique'
  BY <1>0, <1>a DEF LastUnique
<1>1. ASSUME StepReturn(t)
      PROVE  LastUnique'
  <2>1. IsLast(t)' => IsLast(t)
    BY <1>0, <1>1 DEF StepReturn, IsLast
  <2>2. \A u \in Tasks \ {t} : IsLast(u)' => IsLast(u)
    BY <1>0, <1>1 DEF StepReturn, IsLast
  <2> QED
    BY <2>1, <2>2, <1>a
<1>2. ASSUME NEW c \in Procs, NEW v \in BOOLEAN, StepFork(t, c, v)
      PROVE  LastUnique'
  <2>1. IsLast(t)' => IsLast(t)
    BY <1>0, <1>2 DEF StepFork, IsLast
  <2>2. \A u \in Tasks \ {t} : IsLast(u)' => IsLast(u)
    BY <1>0, <1>2 DEF StepFork, IsLast
  <2> QED
    BY <2>1, <2>2, <1>a
<1>3. ASSUME StepPush(t)
      PROVE  LastUnique'
  <2>1. IsLast(t)' => IsLast(t)
    BY <1>0, <1>3 DEF StepPush, IsLast
  <2>2. \A u \in Tasks \ {t} : IsLast(u)' => IsLast(u)
    BY <1>0, <1>3 DEF StepPush, IsLast
  <2> QED
    BY <2>1, <2>2, <1>a
<1>4. ASSUME StepPublish(t)
      PROVE  LastUnique'
  <2>1. IsLast(t)' => IsLast(t)
    BY <1>0, <1>4 DEF StepPublish, IsLast
  <2>2. \A u \in Tasks \ {t} : IsLast(u)' => IsLast(u)
    BY <1>0, <1>4 DEF StepPublish, IsLast
  <2> QED
    BY <2>1, <2>2, <1>a
<1>5. ASSUME StepStart(t)
      PROVE  LastUnique'
  <2>1. IsLast(t)' => IsLast(t)
    BY <1>0, <1>5 DEF StepStart, IsLast
  <2>2. \A u \in Tasks \ {t} : IsLast(u)' => IsLast(u)
    BY <1>0, <1>5 DEF StepStart, IsLast
  <2> QED
    BY <2>1, <2>2, <1>a
<1>6. ASSUME StepVforkBlock(t)
      PROVE  LastUnique'
  <2>1. IsLast(t)' => IsLast(t)
    BY <1>0, <1>6 DEF StepVforkBlock, IsLast
  <2>2. \A u \in Tasks \ {t} : IsLast(u)' => IsLast(u)
    BY <1>0, <1>6 DEF StepVforkBlock, IsLast
  <2> QED
    BY <2>1, <2>2, <1>a
<1>7. ASSUME StepExec(t)
      PROVE  LastUnique'
  <2>1. IsLast(t)' => IsLast(t)
    BY <1>0, <1>7 DEF StepExec, IsLast
  <2>2. \A u \in Tasks \ {t} : IsLast(u)' => IsLast(u)
    BY <1>0, <1>7 DEF StepExec, IsLast
  <2> QED
    BY <2>1, <2>2, <1>a
<1>8. ASSUME StepVforkClear(t)
      PROVE  LastUnique'
  <2>1. IsLast(t)' => IsLast(t)
    BY <1>0, <1>8 DEF StepVforkClear, IsLast
  <2>2. \A u \in Tasks \ {t} : IsLast(u)' => IsLast(u)
    BY <1>0, <1>8 DEF StepVforkClear, IsLast
  <2> QED
    BY <2>1, <2>2, <1>a
<1>9. ASSUME StepVforkWake(t)
      PROVE  LastUnique'
  <2>1. IsLast(t)' => IsLast(t)
    BY <1>0, <1>9 DEF StepVforkWake, IsLast
  <2>2. \A u \in Tasks \ {t} : IsLast(u)' => IsLast(u)
    BY <1>0, <1>9 DEF StepVforkWake, IsLast
  <2> QED
    BY <2>1, <2>2, <1>a
<1>10. ASSUME StepTake(t)
      PROVE  LastUnique'
  <2>1. IsLast(t)' => IsLast(t)
    BY <1>0, <1>10 DEF StepTake, IsLast
  <2>2. \A u \in Tasks \ {t} : IsLast(u)' => IsLast(u)
    BY <1>0, <1>10 DEF StepTake, IsLast
  <2> QED
    BY <2>1, <2>2, <1>a
<1>11. ASSUME NEW c \in Procs, StepEach(t, c)
      PROVE  LastUnique'
  <2>1. IsLast(t)' => IsLast(t)
    BY <1>0, <1>11 DEF StepEach, IsLast
  <2>2. \A u \in Tasks \ {t} : IsLast(u)' => IsLast(u)
    BY <1>0, <1>11 DEF StepEach, IsLast
  <2> QED
    BY <2>1, <2>2, <1>a
<1>12. ASSUME StepGive(t)
      PROVE  LastUnique'
  <2>1. IsLast(t)' => IsLast(t)
    BY <1>0, <1>12 DEF StepGive, IsLast
  <2>2. \A u \in Tasks \ {t} : IsLast(u)' => IsLast(u)
    BY <1>0, <1>12 DEF StepGive, IsLast
  <2> QED
    BY <2>1, <2>2, <1>a
<1>13. ASSUME StepInitPublish(t)
      PROVE  LastUnique'
  <2>1. IsLast(t)' => IsLast(t)
    BY <1>0, <1>13 DEF StepInitPublish, IsLast
  <2>2. \A u \in Tasks \ {t} : IsLast(u)' => IsLast(u)
    BY <1>0, <1>13 DEF StepInitPublish, IsLast
  <2> QED
    BY <2>1, <2>2, <1>a
<1>14. ASSUME NEW w \in SomeTask, StepInitWake(t, w)
      PROVE  LastUnique'
  <2>1. IsLast(t)' => IsLast(t)
    BY <1>0, <1>14 DEF StepInitWake, IsLast
  <2>2. \A u \in Tasks \ {t} : IsLast(u)' => IsLast(u)
    BY <1>0, <1>14 DEF StepInitWake, IsLast
  <2> QED
    BY <2>1, <2>2, <1>a
<1>15. ASSUME StepWaitSeq(t)
      PROVE  LastUnique'
  <2>1. IsLast(t)' => IsLast(t)
    BY <1>0, <1>15 DEF StepWaitSeq, IsLast
  <2>2. \A u \in Tasks \ {t} : IsLast(u)' => IsLast(u)
    BY <1>0, <1>15 DEF StepWaitSeq, IsLast
  <2> QED
    BY <2>1, <2>2, <1>a
<1>16. ASSUME StepWaitList(t)
      PROVE  LastUnique'
  <2>1. IsLast(t)' => IsLast(t)
    BY <1>0, <1>16 DEF StepWaitList, IsLast
  <2>2. \A u \in Tasks \ {t} : IsLast(u)' => IsLast(u)
    BY <1>0, <1>16 DEF StepWaitList, IsLast
  <2> QED
    BY <2>1, <2>2, <1>a
<1>17. ASSUME NEW c \in Procs, StepFound(t, c)
      PROVE  LastUnique'
  <2>1. IsLast(t)' => IsLast(t)
    BY <1>0, <1>17 DEF StepFound, IsLast
  <2>2. \A u \in Tasks \ {t} : IsLast(u)' => IsLast(u)
    BY <1>0, <1>17 DEF StepFound, IsLast
  <2> QED
    BY <2>1, <2>2, <1>a
<1>18. ASSUME NEW c \in Procs, StepPass(t, c)
      PROVE  LastUnique'
  <2>1. IsLast(t)' => IsLast(t)
    BY <1>0, <1>18 DEF StepPass, IsLast
  <2>2. \A u \in Tasks \ {t} : IsLast(u)' => IsLast(u)
    BY <1>0, <1>18 DEF StepPass, IsLast
  <2> QED
    BY <2>1, <2>2, <1>a
<1>19. ASSUME StepAgain(t)
      PROVE  LastUnique'
  <2>1. IsLast(t)' => IsLast(t)
    BY <1>0, <1>19 DEF StepAgain, IsLast
  <2>2. \A u \in Tasks \ {t} : IsLast(u)' => IsLast(u)
    BY <1>0, <1>19 DEF StepAgain, IsLast
  <2> QED
    BY <2>1, <2>2, <1>a
<1>20. ASSUME StepWaitBlock(t)
      PROVE  LastUnique'
  <2>1. IsLast(t)' => IsLast(t)
    BY <1>0, <1>20 DEF StepWaitBlock, IsLast
  <2>2. \A u \in Tasks \ {t} : IsLast(u)' => IsLast(u)
    BY <1>0, <1>20 DEF StepWaitBlock, IsLast
  <2> QED
    BY <2>1, <2>2, <1>a
<1>21. ASSUME StepWin(t)
      PROVE  LastUnique'
  <2>1. IsLast(t)' => IsLast(t)
    BY <1>0, <1>21 DEF StepWin, IsLast
  <2>2. \A u \in Tasks \ {t} : IsLast(u)' => IsLast(u)
    BY <1>0, <1>21 DEF StepWin, IsLast
  <2> QED
    BY <2>1, <2>2, <1>a
<1>22. ASSUME StepLose(t)
      PROVE  LastUnique'
  <2>1. IsLast(t)' => IsLast(t)
    BY <1>0, <1>22 DEF StepLose, IsLast
  <2>2. \A u \in Tasks \ {t} : IsLast(u)' => IsLast(u)
    BY <1>0, <1>22 DEF StepLose, IsLast
  <2> QED
    BY <2>1, <2>2, <1>a
<1>23. ASSUME StepFree(t)
      PROVE  LastUnique'
  <2>1. IsLast(t)' => IsLast(t)
    BY <1>0, <1>23 DEF StepFree, IsLast
  <2>2. \A u \in Tasks \ {t} : IsLast(u)' => IsLast(u)
    BY <1>0, <1>23 DEF StepFree, IsLast
  <2> QED
    BY <2>1, <2>2, <1>a
<1>24. ASSUME StepCount(t)
      PROVE  LastUnique'
  <2>1. proc[ProcOf[t]].alive \in Nat \ {0}
    BY <1>0, <1>24, CountedAlive DEF StepCount, Ctl
  <2>2. \A u \in Tasks : IsLast(u) => ProcOf[u] # ProcOf[t]
    BY <1>0, <2>1 DEF ExitOk, Dead
  <2>3. \A u \in Tasks \ {t} : IsLast(u)' => IsLast(u)
    BY <1>24 DEF StepCount, IsLast
  <2> QED
    BY <1>0, <2>2, <2>3 DEF LastUnique
<1>25. ASSUME StepDetach(t)
      PROVE  LastUnique'
  <2>1. IsLast(t)' => IsLast(t)
    BY <1>0, <1>25 DEF StepDetach, IsLast
  <2>2. \A u \in Tasks \ {t} : IsLast(u)' => IsLast(u)
    BY <1>0, <1>25 DEF StepDetach, IsLast
  <2> QED
    BY <2>1, <2>2, <1>a
<1>26. ASSUME StepParent(t)
      PROVE  LastUnique'
  <2>1. IsLast(t)' => IsLast(t)
    BY <1>0, <1>26 DEF StepParent, IsLast
  <2>2. \A u \in Tasks \ {t} : IsLast(u)' => IsLast(u)
    BY <1>0, <1>26 DEF StepParent, IsLast
  <2> QED
    BY <2>1, <2>2, <1>a
<1>27. ASSUME StepDefer(t)
      PROVE  LastUnique'
  <2>1. IsLast(t)' => IsLast(t)
    BY <1>0, <1>27 DEF StepDefer, IsLast
  <2>2. \A u \in Tasks \ {t} : IsLast(u)' => IsLast(u)
    BY <1>0, <1>27 DEF StepDefer, IsLast
  <2> QED
    BY <2>1, <2>2, <1>a
<1>28. ASSUME StepSwitch(t)
      PROVE  LastUnique'
  <2>1. IsLast(t)' => IsLast(t)
    BY <1>0, <1>28 DEF StepSwitch, IsLast
  <2>2. \A u \in Tasks \ {t} : IsLast(u)' => IsLast(u)
    BY <1>0, <1>28 DEF StepSwitch, IsLast
  <2> QED
    BY <2>1, <2>2, <1>a
<1>29. ASSUME StepGroup(t)
      PROVE  LastUnique'
  <2>1. IsLast(t)' => IsLast(t)
    BY <1>0, <1>29 DEF StepGroup, IsLast
  <2>2. \A u \in Tasks \ {t} : IsLast(u)' => IsLast(u)
    BY <1>0, <1>29 DEF StepGroup, IsLast
  <2> QED
    BY <2>1, <2>2, <1>a
<1>30. ASSUME NEW k \in Procs, StepKill(t, k)
      PROVE  LastUnique'
  <2>1. IsLast(t)' => IsLast(t)
    BY <1>0, <1>30 DEF StepKill, IsLast
  <2>2. \A u \in Tasks \ {t} : IsLast(u)' => IsLast(u)
    BY <1>0, <1>30 DEF StepKill, IsLast
  <2> QED
    BY <2>1, <2>2, <1>a
<1>31. ASSUME NEW w \in Tasks, StepFlag(t, w)
      PROVE  LastUnique'
  <2>1. IsLast(t)' => IsLast(t)
    BY <1>0, <1>31 DEF StepFlag, IsLast
  <2>2. \A u \in Tasks \ {t} : IsLast(u)' => IsLast(u)
    BY <1>0, <1>31 DEF StepFlag, IsLast
  <2> QED
    BY <2>1, <2>2, <1>a
<1>32. ASSUME NEW w \in Tasks, StepFlagOnly(t, w)
      PROVE  LastUnique'
  <2>1. IsLast(t)' => IsLast(t)
    BY <1>0, <1>32 DEF StepFlagOnly, IsLast
  <2>2. \A u \in Tasks \ {t} : IsLast(u)' => IsLast(u)
    BY <1>0, <1>32 DEF StepFlagOnly, IsLast
  <2> QED
    BY <2>1, <2>2, <1>a
<1>33. ASSUME StepNotify(t)
      PROVE  LastUnique'
  <2>1. IsLast(t)' => IsLast(t)
    BY <1>0, <1>33 DEF StepNotify, IsLast
  <2>2. \A u \in Tasks \ {t} : IsLast(u)' => IsLast(u)
    BY <1>0, <1>33 DEF StepNotify, IsLast
  <2> QED
    BY <2>1, <2>2, <1>a
<1>34. ASSUME StepFinish(t)
      PROVE  LastUnique'
  <2>1. IsLast(t)' => IsLast(t)
    BY <1>0, <1>34 DEF StepFinish, IsLast
  <2>2. \A u \in Tasks \ {t} : IsLast(u)' => IsLast(u)
    BY <1>0, <1>34 DEF StepFinish, IsLast
  <2> QED
    BY <2>1, <2>2, <1>a
<1>35. ASSUME StepEvent(t)
      PROVE  LastUnique'
  <2>1. IsLast(t)' => IsLast(t)
    BY <1>0, <1>35 DEF StepEvent, IsLast
  <2>2. \A u \in Tasks \ {t} : IsLast(u)' => IsLast(u)
    BY <1>0, <1>35 DEF StepEvent, IsLast
  <2> QED
    BY <2>1, <2>2, <1>a
<1>36. ASSUME StepCollect(t)
      PROVE  LastUnique'
  <2>1. IsLast(t)' => IsLast(t)
    BY <1>0, <1>36 DEF StepCollect, IsLast
  <2>2. \A u \in Tasks \ {t} : IsLast(u)' => IsLast(u)
    BY <1>0, <1>36 DEF StepCollect, IsLast
  <2> QED
    BY <2>1, <2>2, <1>a
<1>37. ASSUME NEW w \in Tasks, StepWakeOne(t, w)
      PROVE  LastUnique'
  <2>1. IsLast(t)' => IsLast(t)
    BY <1>0, <1>37 DEF StepWakeOne, IsLast
  <2>2. \A u \in Tasks \ {t} : IsLast(u)' => IsLast(u)
    BY <1>0, <1>37 DEF StepWakeOne, IsLast
  <2> QED
    BY <2>1, <2>2, <1>a
<1>38. ASSUME StepWakesDone(t)
      PROVE  LastUnique'
  <2>1. IsLast(t)' => IsLast(t)
    BY <1>0, <1>38 DEF StepWakesDone, IsLast
  <2>2. \A u \in Tasks \ {t} : IsLast(u)' => IsLast(u)
    BY <1>0, <1>38 DEF StepWakesDone, IsLast
  <2> QED
    BY <2>1, <2>2, <1>a
<1> QED
  BY <1>1, <1>2, <1>3, <1>4, <1>5, <1>6, <1>7, <1>8, <1>9, <1>10, <1>11, <1>12, <1>13,
     <1>14, <1>15, <1>16, <1>17, <1>18, <1>19, <1>20, <1>21, <1>22, <1>23, <1>24, <1>25,
     <1>26, <1>27, <1>28, <1>29, <1>30, <1>31, <1>32, <1>33, <1>34, <1>35, <1>36, <1>37,
     <1>38
  DEF Step

\* No step takes children from init.
LEMMA ReapCtlStep ==
  ASSUME ControlInv, ExitInv, CustodyInv, NEW t \in Tasks, Step(t)
  PROVE  \A u \in Tasks : ReapCtl(u)'
<1>0. /\ ProcOf[t] \in Procs /\ Ctl(t) /\ \A u \in Tasks : ReapCtl(u) /\ Ctl(u)
  BY DEF ControlInv, ExitInv
<1>1. ASSUME StepReturn(t)
      PROVE  \A u \in Tasks : ReapCtl(u)'
  <2>1. ReapCtl(t)'
    BY <1>0, <1>1
    DEF StepReturn, ReapCtl, Ctl, ForkLabels, WaitLabels, ExitLabels, AfterReturn
  <2>2. ASSUME NEW u \in Tasks, u # t
        PROVE  ReapCtl(u)'
    BY <1>0, <1>1, <2>2, ReapCtlFrame DEF StepReturn
  <2> QED
    BY <2>1, <2>2
<1>2. ASSUME NEW c \in Procs, NEW v \in BOOLEAN, StepFork(t, c, v)
      PROVE  \A u \in Tasks : ReapCtl(u)'
  <2>1. ReapCtl(t)'
    BY <1>0, <1>2 DEF StepFork, ReapCtl, Ctl, ForkLabels, WaitLabels, ExitLabels
  <2>2. ASSUME NEW u \in Tasks, u # t
        PROVE  ReapCtl(u)'
    <3>1. CASE u = Leader[c]
      <4>0. pc[u] = "unborn"
        BY <1>2, <3>1 DEF StepFork, ControlInv, CountOk, ThreadsOf
      <4>1. loc[u].why = "call"
        BY <1>0, <4>0 DEF Ctl
      <4> QED
        BY <1>2, <2>2, <3>1, <4>1 DEF StepFork, ReapCtl
    <3>2. CASE u # Leader[c]
      BY <1>0, <1>2, <2>2, <3>2, ReapCtlFrame DEF StepFork
    <3> QED
      BY <3>1, <3>2
  <2> QED
    BY <2>1, <2>2
<1>3. ASSUME StepPush(t)
      PROVE  \A u \in Tasks : ReapCtl(u)'
  <2>1. ReapCtl(t)'
    BY <1>0, <1>3 DEF StepPush, ReapCtl, Ctl, ForkLabels, WaitLabels, ExitLabels
  <2>2. ASSUME NEW u \in Tasks, u # t
        PROVE  ReapCtl(u)'
    BY <1>0, <1>3, <2>2, ReapCtlFrame DEF StepPush
  <2> QED
    BY <2>1, <2>2
<1>4. ASSUME StepPublish(t)
      PROVE  \A u \in Tasks : ReapCtl(u)'
  <2>1. ReapCtl(t)'
    BY <1>0, <1>4 DEF StepPublish, ReapCtl, Ctl, ForkLabels, WaitLabels, ExitLabels
  <2>2. ASSUME NEW u \in Tasks, u # t
        PROVE  ReapCtl(u)'
    BY <1>0, <1>4, <2>2, ReapCtlFrame DEF StepPublish
  <2> QED
    BY <2>1, <2>2
<1>5. ASSUME StepStart(t)
      PROVE  \A u \in Tasks : ReapCtl(u)'
  <2>1. ReapCtl(t)'
    BY <1>0, <1>5
    DEF StepStart, ReapCtl, Ctl, ForkLabels, WaitLabels, ExitLabels, AfterReturn
  <2>2. ASSUME NEW u \in Tasks, u # t
        PROVE  ReapCtl(u)'
    BY <1>0, <1>5, <2>2, ReapCtlFrame DEF StepStart
  <2> QED
    BY <2>1, <2>2
<1>6. ASSUME StepVforkBlock(t)
      PROVE  \A u \in Tasks : ReapCtl(u)'
  <2>1. ReapCtl(t)'
    BY <1>0, <1>6 DEF StepVforkBlock, ReapCtl, Ctl, ForkLabels, WaitLabels, ExitLabels
  <2>2. ASSUME NEW u \in Tasks, u # t
        PROVE  ReapCtl(u)'
    BY <1>0, <1>6, <2>2, ReapCtlFrame DEF StepVforkBlock
  <2> QED
    BY <2>1, <2>2
<1>7. ASSUME StepExec(t)
      PROVE  \A u \in Tasks : ReapCtl(u)'
  <2>1. ReapCtl(t)'
    BY <1>0, <1>7
    DEF StepExec, ReapCtl, Ctl, ForkLabels, WaitLabels, ExitLabels, AfterReturn
  <2>2. ASSUME NEW u \in Tasks, u # t
        PROVE  ReapCtl(u)'
    BY <1>0, <1>7, <2>2, ReapCtlFrame DEF StepExec
  <2> QED
    BY <2>1, <2>2
<1>8. ASSUME StepVforkClear(t)
      PROVE  \A u \in Tasks : ReapCtl(u)'
  <2>1. ReapCtl(t)'
    BY <1>0, <1>8
    DEF StepVforkClear, ReapCtl, Ctl, ForkLabels, WaitLabels, ExitLabels, AfterVfork,
        AfterReturn
  <2>2. ASSUME NEW u \in Tasks, u # t
        PROVE  ReapCtl(u)'
    BY <1>0, <1>8, <2>2, ReapCtlFrame DEF StepVforkClear
  <2> QED
    BY <2>1, <2>2
<1>9. ASSUME StepVforkWake(t)
      PROVE  \A u \in Tasks : ReapCtl(u)'
  <2>1. ReapCtl(t)'
    BY <1>0, <1>9
    DEF StepVforkWake, ReapCtl, Ctl, ForkLabels, WaitLabels, ExitLabels, AfterVfork,
        AfterReturn
  <2>2. ASSUME NEW u \in Tasks, u # t
        PROVE  ReapCtl(u)'
    BY <1>0, <1>9, <2>2, ReapCtlFrame DEF StepVforkWake
  <2> QED
    BY <2>1, <2>2
<1>10. ASSUME StepTake(t)
      PROVE  \A u \in Tasks : ReapCtl(u)'
  <2>1. ReapCtl(t)'
    BY <1>0, <1>10 DEF StepTake, ReapCtl, Ctl, ForkLabels, WaitLabels, ExitLabels
  <2>2. ASSUME NEW u \in Tasks, u # t
        PROVE  ReapCtl(u)'
    BY <1>0, <1>10, <2>2, ReapCtlFrame DEF StepTake
  <2> QED
    BY <2>1, <2>2
<1>11. ASSUME NEW c \in Procs, StepEach(t, c)
      PROVE  \A u \in Tasks : ReapCtl(u)'
  <2>1. ReapCtl(t)'
    BY <1>0, <1>11 DEF StepEach, ReapCtl, Ctl, ForkLabels, WaitLabels, ExitLabels
  <2>2. ASSUME NEW u \in Tasks, u # t
        PROVE  ReapCtl(u)'
    BY <1>0, <1>11, <2>2, ReapCtlFrame DEF StepEach
  <2> QED
    BY <2>1, <2>2
<1>12. ASSUME StepGive(t)
      PROVE  \A u \in Tasks : ReapCtl(u)'
  <2>1. ReapCtl(t)'
    BY <1>0, <1>12
    DEF StepGive, ReapCtl, Ctl, ForkLabels, WaitLabels, ExitLabels, AfterReparent,
        AfterAdoption
  <2>2. ASSUME NEW u \in Tasks, u # t
        PROVE  ReapCtl(u)'
    BY <1>0, <1>12, <2>2, ReapCtlFrame DEF StepGive
  <2> QED
    BY <2>1, <2>2
<1>13. ASSUME StepInitPublish(t)
      PROVE  \A u \in Tasks : ReapCtl(u)'
  <2>1. ReapCtl(t)'
    BY <1>0, <1>13 DEF StepInitPublish, ReapCtl, Ctl, ForkLabels, WaitLabels, ExitLabels
  <2>2. ASSUME NEW u \in Tasks, u # t
        PROVE  ReapCtl(u)'
    BY <1>0, <1>13, <2>2, ReapCtlFrame DEF StepInitPublish
  <2> QED
    BY <2>1, <2>2
<1>14. ASSUME NEW w \in SomeTask, StepInitWake(t, w)
      PROVE  \A u \in Tasks : ReapCtl(u)'
  <2>1. ReapCtl(t)'
    BY <1>0, <1>14
    DEF StepInitWake, ReapCtl, Ctl, ForkLabels, WaitLabels, ExitLabels, AfterAdoption,
        Asleep, SomeTask
  <2>2. ASSUME NEW u \in Tasks, u # t
        PROVE  ReapCtl(u)'
    BY <1>0, <1>14, <2>2, ReapCtlFrame DEF StepInitWake, SomeTask
  <2> QED
    BY <2>1, <2>2
<1>15. ASSUME StepWaitSeq(t)
      PROVE  \A u \in Tasks : ReapCtl(u)'
  <2>1. ReapCtl(t)'
    BY <1>0, <1>15 DEF StepWaitSeq, ReapCtl, Ctl, ForkLabels, WaitLabels, ExitLabels
  <2>2. ASSUME NEW u \in Tasks, u # t
        PROVE  ReapCtl(u)'
    BY <1>0, <1>15, <2>2, ReapCtlFrame DEF StepWaitSeq
  <2> QED
    BY <2>1, <2>2
<1>16. ASSUME StepWaitList(t)
      PROVE  \A u \in Tasks : ReapCtl(u)'
  <2>1. ReapCtl(t)'
    BY <1>0, <1>16 DEF StepWaitList, ReapCtl, Ctl, ForkLabels, WaitLabels, ExitLabels
  <2>2. ASSUME NEW u \in Tasks, u # t
        PROVE  ReapCtl(u)'
    BY <1>0, <1>16, <2>2, ReapCtlFrame DEF StepWaitList
  <2> QED
    BY <2>1, <2>2
<1>17. ASSUME NEW c \in Procs, StepFound(t, c)
      PROVE  \A u \in Tasks : ReapCtl(u)'
  <2>1. ReapCtl(t)'
    BY <1>0, <1>17 DEF StepFound, ReapCtl, Ctl, ForkLabels, WaitLabels, ExitLabels
  <2>2. ASSUME NEW u \in Tasks, u # t
        PROVE  ReapCtl(u)'
    BY <1>0, <1>17, <2>2, ReapCtlFrame DEF StepFound
  <2> QED
    BY <2>1, <2>2
<1>18. ASSUME NEW c \in Procs, StepPass(t, c)
      PROVE  \A u \in Tasks : ReapCtl(u)'
  <2>1. ReapCtl(t)'
    BY <1>0, <1>18 DEF StepPass, ReapCtl, Ctl, ForkLabels, WaitLabels, ExitLabels
  <2>2. ASSUME NEW u \in Tasks, u # t
        PROVE  ReapCtl(u)'
    BY <1>0, <1>18, <2>2, ReapCtlFrame DEF StepPass
  <2> QED
    BY <2>1, <2>2
<1>19. ASSUME StepAgain(t)
      PROVE  \A u \in Tasks : ReapCtl(u)'
  <2>1. ReapCtl(t)'
    BY <1>0, <1>19 DEF StepAgain, ReapCtl, Ctl, ForkLabels, WaitLabels, ExitLabels
  <2>2. ASSUME NEW u \in Tasks, u # t
        PROVE  ReapCtl(u)'
    BY <1>0, <1>19, <2>2, ReapCtlFrame DEF StepAgain
  <2> QED
    BY <2>1, <2>2
<1>20. ASSUME StepWaitBlock(t)
      PROVE  \A u \in Tasks : ReapCtl(u)'
  <2>1. ReapCtl(t)'
    BY <1>0, <1>20 DEF StepWaitBlock, ReapCtl, Ctl, ForkLabels, WaitLabels, ExitLabels
  <2>2. ASSUME NEW u \in Tasks, u # t
        PROVE  ReapCtl(u)'
    BY <1>0, <1>20, <2>2, ReapCtlFrame DEF StepWaitBlock
  <2> QED
    BY <2>1, <2>2
<1>21. ASSUME StepWin(t)
      PROVE  \A u \in Tasks : ReapCtl(u)'
  <2>1. ReapCtl(t)'
    <3>1. loc[t].of \in Procs
      BY <1>0, <1>21 DEF StepWin, Ctl
    <3>2. loc[t].of # InitProc
      BY <1>0, <1>21, <3>1 DEF StepWin, CustodyInv, Custody, InList
    <3> QED
      BY <1>21, <3>2 DEF StepWin, ReapCtl
  <2>2. ASSUME NEW u \in Tasks, u # t
        PROVE  ReapCtl(u)'
    BY <1>0, <1>21, <2>2, ReapCtlFrame DEF StepWin
  <2> QED
    BY <2>1, <2>2
<1>22. ASSUME StepLose(t)
      PROVE  \A u \in Tasks : ReapCtl(u)'
  <2>1. ReapCtl(t)'
    BY <1>0, <1>22 DEF StepLose, ReapCtl, Ctl, ForkLabels, WaitLabels, ExitLabels
  <2>2. ASSUME NEW u \in Tasks, u # t
        PROVE  ReapCtl(u)'
    BY <1>0, <1>22, <2>2, ReapCtlFrame DEF StepLose
  <2> QED
    BY <2>1, <2>2
<1>23. ASSUME StepFree(t)
      PROVE  \A u \in Tasks : ReapCtl(u)'
  <2>1. ReapCtl(t)'
    BY <1>0, <1>23
    DEF StepFree, ReapCtl, Ctl, ForkLabels, WaitLabels, ExitLabels, AfterReturn
  <2>2. ASSUME NEW u \in Tasks, u # t
        PROVE  ReapCtl(u)'
    BY <1>0, <1>23, <2>2, ReapCtlFrame DEF StepFree
  <2> QED
    BY <2>1, <2>2
<1>24. ASSUME StepCount(t)
      PROVE  \A u \in Tasks : ReapCtl(u)'
  <2>1. ReapCtl(t)'
    BY <1>0, <1>24 DEF StepCount, ReapCtl, Ctl, ForkLabels, WaitLabels, ExitLabels
  <2>2. ASSUME NEW u \in Tasks, u # t
        PROVE  ReapCtl(u)'
    BY <1>0, <1>24, <2>2, ReapCtlFrame DEF StepCount
  <2> QED
    BY <2>1, <2>2
<1>25. ASSUME StepDetach(t)
      PROVE  \A u \in Tasks : ReapCtl(u)'
  <2>1. ReapCtl(t)'
    BY <1>0, <1>25 DEF StepDetach, ReapCtl, Ctl, ForkLabels, WaitLabels, ExitLabels
  <2>2. ASSUME NEW u \in Tasks, u # t
        PROVE  ReapCtl(u)'
    BY <1>0, <1>25, <2>2, ReapCtlFrame DEF StepDetach
  <2> QED
    BY <2>1, <2>2
<1>26. ASSUME StepParent(t)
      PROVE  \A u \in Tasks : ReapCtl(u)'
  <2>1. ReapCtl(t)'
    BY <1>0, <1>26 DEF StepParent, ReapCtl, Ctl, ForkLabels, WaitLabels, ExitLabels
  <2>2. ASSUME NEW u \in Tasks, u # t
        PROVE  ReapCtl(u)'
    BY <1>0, <1>26, <2>2, ReapCtlFrame DEF StepParent
  <2> QED
    BY <2>1, <2>2
<1>27. ASSUME StepDefer(t)
      PROVE  \A u \in Tasks : ReapCtl(u)'
  <2>1. ReapCtl(t)'
    BY <1>0, <1>27 DEF StepDefer, ReapCtl, Ctl, ForkLabels, WaitLabels, ExitLabels
  <2>2. ASSUME NEW u \in Tasks, u # t
        PROVE  ReapCtl(u)'
    BY <1>0, <1>27, <2>2, ReapCtlFrame DEF StepDefer
  <2> QED
    BY <2>1, <2>2
<1>28. ASSUME StepSwitch(t)
      PROVE  \A u \in Tasks : ReapCtl(u)'
  <2>1. ReapCtl(t)'
    BY <1>0, <1>28 DEF StepSwitch, ReapCtl, Ctl, ForkLabels, WaitLabels, ExitLabels
  <2>2. ASSUME NEW u \in Tasks, u # t
        PROVE  ReapCtl(u)'
    BY <1>0, <1>28, <2>2, ReapCtlFrame DEF StepSwitch
  <2> QED
    BY <2>1, <2>2
<1>29. ASSUME StepGroup(t)
      PROVE  \A u \in Tasks : ReapCtl(u)'
  <2>1. ReapCtl(t)'
    BY <1>0, <1>29 DEF StepGroup, ReapCtl, Ctl, ForkLabels, WaitLabels, ExitLabels
  <2>2. ASSUME NEW u \in Tasks, u # t
        PROVE  ReapCtl(u)'
    BY <1>0, <1>29, <2>2, ReapCtlFrame DEF StepGroup
  <2> QED
    BY <2>1, <2>2
<1>30. ASSUME NEW k \in Procs, StepKill(t, k)
      PROVE  \A u \in Tasks : ReapCtl(u)'
  <2>1. ReapCtl(t)'
    BY <1>0, <1>30 DEF StepKill, ReapCtl, Ctl, ForkLabels, WaitLabels, ExitLabels
  <2>2. ASSUME NEW u \in Tasks, u # t
        PROVE  ReapCtl(u)'
    BY <1>0, <1>30, <2>2, ReapCtlFrame DEF StepKill
  <2> QED
    BY <2>1, <2>2
<1>31. ASSUME NEW w \in Tasks, StepFlag(t, w)
      PROVE  \A u \in Tasks : ReapCtl(u)'
  <2>1. ReapCtl(t)'
    BY <1>0, <1>31 DEF StepFlag, ReapCtl, Ctl, ForkLabels, WaitLabels, ExitLabels
  <2>2. ASSUME NEW u \in Tasks, u # t
        PROVE  ReapCtl(u)'
    BY <1>0, <1>31, <2>2, ReapCtlFrame DEF StepFlag
  <2> QED
    BY <2>1, <2>2
<1>32. ASSUME NEW w \in Tasks, StepFlagOnly(t, w)
      PROVE  \A u \in Tasks : ReapCtl(u)'
  <2>1. ReapCtl(t)'
    BY <1>0, <1>32 DEF StepFlagOnly, ReapCtl, Ctl, ForkLabels, WaitLabels, ExitLabels
  <2>2. ASSUME NEW u \in Tasks, u # t
        PROVE  ReapCtl(u)'
    BY <1>0, <1>32, <2>2, ReapCtlFrame DEF StepFlagOnly
  <2> QED
    BY <2>1, <2>2
<1>33. ASSUME StepNotify(t)
      PROVE  \A u \in Tasks : ReapCtl(u)'
  <2>1. ReapCtl(t)'
    BY <1>0, <1>33 DEF StepNotify, ReapCtl, Ctl, ForkLabels, WaitLabels, ExitLabels
  <2>2. ASSUME NEW u \in Tasks, u # t
        PROVE  ReapCtl(u)'
    BY <1>0, <1>33, <2>2, ReapCtlFrame DEF StepNotify
  <2> QED
    BY <2>1, <2>2
<1>34. ASSUME StepFinish(t)
      PROVE  \A u \in Tasks : ReapCtl(u)'
  <2>1. ReapCtl(t)'
    BY <1>0, <1>34 DEF StepFinish, ReapCtl, Ctl, ForkLabels, WaitLabels, ExitLabels
  <2>2. ASSUME NEW u \in Tasks, u # t
        PROVE  ReapCtl(u)'
    BY <1>0, <1>34, <2>2, ReapCtlFrame DEF StepFinish
  <2> QED
    BY <2>1, <2>2
<1>35. ASSUME StepEvent(t)
      PROVE  \A u \in Tasks : ReapCtl(u)'
  <2>1. ReapCtl(t)'
    BY <1>0, <1>35 DEF StepEvent, ReapCtl, Ctl, ForkLabels, WaitLabels, ExitLabels
  <2>2. ASSUME NEW u \in Tasks, u # t
        PROVE  ReapCtl(u)'
    BY <1>0, <1>35, <2>2, ReapCtlFrame DEF StepEvent
  <2> QED
    BY <2>1, <2>2
<1>36. ASSUME StepCollect(t)
      PROVE  \A u \in Tasks : ReapCtl(u)'
  <2>1. ReapCtl(t)'
    BY <1>0, <1>36 DEF StepCollect, ReapCtl, Ctl, ForkLabels, WaitLabels, ExitLabels
  <2>2. ASSUME NEW u \in Tasks, u # t
        PROVE  ReapCtl(u)'
    BY <1>0, <1>36, <2>2, ReapCtlFrame DEF StepCollect
  <2> QED
    BY <2>1, <2>2
<1>37. ASSUME NEW w \in Tasks, StepWakeOne(t, w)
      PROVE  \A u \in Tasks : ReapCtl(u)'
  <2>1. ReapCtl(t)'
    BY <1>0, <1>37 DEF StepWakeOne, ReapCtl, Ctl, ForkLabels, WaitLabels, ExitLabels
  <2>2. ASSUME NEW u \in Tasks, u # t
        PROVE  ReapCtl(u)'
    BY <1>0, <1>37, <2>2, ReapCtlFrame DEF StepWakeOne
  <2> QED
    BY <2>1, <2>2
<1>38. ASSUME StepWakesDone(t)
      PROVE  \A u \in Tasks : ReapCtl(u)'
  <2>1. ReapCtl(t)'
    BY <1>0, <1>38 DEF StepWakesDone, ReapCtl, Ctl, ForkLabels, WaitLabels, ExitLabels
  <2>2. ASSUME NEW u \in Tasks, u # t
        PROVE  ReapCtl(u)'
    BY <1>0, <1>38, <2>2, ReapCtlFrame DEF StepWakesDone
  <2> QED
    BY <2>1, <2>2
<1> QED
  BY <1>1, <1>2, <1>3, <1>4, <1>5, <1>6, <1>7, <1>8, <1>9, <1>10, <1>11, <1>12, <1>13,
     <1>14, <1>15, <1>16, <1>17, <1>18, <1>19, <1>20, <1>21, <1>22, <1>23, <1>24, <1>25,
     <1>26, <1>27, <1>28, <1>29, <1>30, <1>31, <1>32, <1>33, <1>34, <1>35, <1>36, <1>37,
     <1>38
  DEF Step

\* What a waiter claims, or has reaped, has no thread on its kernel stack.
LEMMA ReapStep ==
  ASSUME ControlInv, ExitInv, NEW t \in Tasks, Step(t)
  PROVE  \A c \in Procs : Born(c)' /\ ReapOk(c)'
<1>0. /\ ProcOf[t] \in Procs /\ Ctl(t) /\ ReapCtl(t) /\ \A u \in Tasks : ExitOk(u) /\ Ctl(u)
      /\ \A p \in Procs : CountOk(p) /\ Born(p) /\ ReapOk(p)
  BY DEF ControlInv, ExitInv
<1>1. ASSUME StepReturn(t)
      PROVE  \A d \in Procs : Born(d)' /\ ReapOk(d)'
  <2> SUFFICES ASSUME NEW d \in Procs
               PROVE  Born(d)' /\ ReapOk(d)'
    OBVIOUS
  <2>1. Born(d)'
    BY <1>0, <1>1 DEF StepReturn, Born
  <2>2. Settled(d) => Settled(d)'
    BY <1>0, <1>1, SettledFrame DEF StepReturn, ThreadsOf
  <2>3. \A u \in Tasks : Claims(u, d)' => Claims(u, d)
    <3>1. Claims(t, d)' => Claims(t, d)
      BY <1>0, <1>1
      DEF StepReturn, Claims, Ctl, ForkLabels, WaitLabels, ExitLabels, AfterReturn
    <3>2. ASSUME NEW u \in Tasks, u # t
          PROVE  Claims(u, d)' => Claims(u, d)
      BY <1>0, <1>1, <3>2 DEF StepReturn, Claims
    <3> QED
      BY <3>1, <3>2
  <2>4. proc'[d].life = proc[d].life
    BY <1>1 DEF StepReturn
  <2> QED
    BY <1>0, <2>1, <2>2, <2>3, <2>4, ReapFrame
<1>2. ASSUME NEW c \in Procs, NEW v \in BOOLEAN, StepFork(t, c, v)
      PROVE  \A d \in Procs : Born(d)' /\ ReapOk(d)'
  <2> SUFFICES ASSUME NEW d \in Procs
               PROVE  Born(d)' /\ ReapOk(d)'
    OBVIOUS
  <2>1. CASE d = c
    <3>1. \A u \in Tasks : ~Claims(u, d)
      BY <1>0, <1>2, <2>1 DEF StepFork, ReapOk
    <3>2. pc'[t] = "forkPush" /\ loc'[t].why \in {"fork", "vfork"}
      BY <1>2 DEF StepFork
    <3>3. \A u \in Tasks \ {t} : ~Claims(u, d)'
      <4>1. ASSUME NEW u \in Tasks \ {t}
            PROVE  loc'[u] = loc[u] /\ (pc'[u] = "waitRemove" => pc[u] = "waitRemove")
        BY <1>2 DEF StepFork
      <4> QED
        BY <3>1, <4>1 DEF Claims
    <3>4. ~Claims(t, d)'
      BY <3>2 DEF Claims
    <3>5. proc'[d].life = "made"
      BY <1>2, <2>1 DEF StepFork
    <3> QED
      BY <3>3, <3>4, <3>5 DEF ReapOk, Born
  <2>2. CASE d # c
    <3>0. proc'[d] = proc[d]
      BY <1>2, <2>2 DEF StepFork
    <3>1. ASSUME NEW u \in ThreadsOf(d)
          PROVE  \/ (pc'[u] = pc[u] \/ WokenTo(u)) /\ loc'[u] = loc[u]
                 \/ pc[u] \notin {"gone", "unborn", "rerun", "exitDefer", "exitSwitch"}
      <4>1. u \in Tasks /\ u # Leader[c]
        BY <2>2 DEF ThreadsOf
      <4> QED
        BY <1>2, <4>1 DEF StepFork
    <3>2. Settled(d) => Settled(d)'
      BY <3>1, SettledFrame
    <3>3. pc'[t] = "forkPush" /\ loc'[t].why \in {"fork", "vfork"}
      BY <1>2 DEF StepFork
    <3>4. \A u \in Tasks \ {t} : Claims(u, d)' => Claims(u, d)
      <4>1. ASSUME NEW u \in Tasks \ {t}
            PROVE  loc'[u] = loc[u] /\ (pc'[u] = "waitRemove" => pc[u] = "waitRemove")
        BY <1>2 DEF StepFork
      <4> QED
        BY <4>1 DEF Claims
    <3>5. \A u \in Tasks : Claims(u, d)' => Claims(u, d)
      BY <3>3, <3>4 DEF Claims
    <3>6. ReapOk(d)'
      BY <1>0, <3>0, <3>2, <3>5, ReapFrame
    <3> QED
      BY <1>0, <3>0, <3>6 DEF Born
  <2> QED
    BY <2>1, <2>2
<1>3. ASSUME StepPush(t)
      PROVE  \A d \in Procs : Born(d)' /\ ReapOk(d)'
  <2> SUFFICES ASSUME NEW d \in Procs
               PROVE  Born(d)' /\ ReapOk(d)'
    OBVIOUS
  <2>1. Born(d)'
    BY <1>0, <1>3, ZenonT(60) DEF StepPush, Born
  <2>2. Settled(d) => Settled(d)'
    BY <1>0, <1>3, SettledFrame DEF StepPush, ThreadsOf
  <2>3. \A u \in Tasks : Claims(u, d)' => Claims(u, d)
    <3>1. Claims(t, d)' => Claims(t, d)
      BY <1>0, <1>3 DEF StepPush, Claims, Ctl, ForkLabels, WaitLabels, ExitLabels
    <3>2. ASSUME NEW u \in Tasks, u # t
          PROVE  Claims(u, d)' => Claims(u, d)
      BY <1>0, <1>3, <3>2 DEF StepPush, Claims
    <3> QED
      BY <3>1, <3>2
  <2>4. proc'[d].life # proc[d].life => proc'[d].life = "live"
    BY <1>3 DEF StepPush
  <2> QED
    BY <1>0, <2>1, <2>2, <2>3, <2>4, ReapFrame
<1>4. ASSUME StepPublish(t)
      PROVE  \A d \in Procs : Born(d)' /\ ReapOk(d)'
  <2> SUFFICES ASSUME NEW d \in Procs
               PROVE  Born(d)' /\ ReapOk(d)'
    OBVIOUS
  <2>1. Born(d)'
    BY <1>0, <1>4 DEF StepPublish, Born
  <2>2. Settled(d) => Settled(d)'
    BY <1>0, <1>4, SettledFrame DEF StepPublish, ThreadsOf
  <2>3. \A u \in Tasks : Claims(u, d)' => Claims(u, d)
    <3>1. Claims(t, d)' => Claims(t, d)
      BY <1>0, <1>4 DEF StepPublish, Claims, Ctl, ForkLabels, WaitLabels, ExitLabels
    <3>2. ASSUME NEW u \in Tasks, u # t
          PROVE  Claims(u, d)' => Claims(u, d)
      BY <1>0, <1>4, <3>2 DEF StepPublish, Claims
    <3> QED
      BY <3>1, <3>2
  <2>4. proc'[d].life = proc[d].life
    BY <1>4 DEF StepPublish
  <2> QED
    BY <1>0, <2>1, <2>2, <2>3, <2>4, ReapFrame
<1>5. ASSUME StepStart(t)
      PROVE  \A d \in Procs : Born(d)' /\ ReapOk(d)'
  <2> SUFFICES ASSUME NEW d \in Procs
               PROVE  Born(d)' /\ ReapOk(d)'
    OBVIOUS
  <2>1. Born(d)'
    BY <1>0, <1>5 DEF StepStart, Born
  <2>2. Settled(d) => Settled(d)'
    BY <1>0, <1>5, SettledFrame DEF StepStart, ThreadsOf
  <2>3. \A u \in Tasks : Claims(u, d)' => Claims(u, d)
    <3>1. Claims(t, d)' => Claims(t, d)
      BY <1>0, <1>5
      DEF StepStart, Claims, Ctl, ForkLabels, WaitLabels, ExitLabels, AfterReturn
    <3>2. ASSUME NEW u \in Tasks, u # t
          PROVE  Claims(u, d)' => Claims(u, d)
      BY <1>0, <1>5, <3>2 DEF StepStart, Claims
    <3> QED
      BY <3>1, <3>2
  <2>4. proc'[d].life = proc[d].life
    BY <1>5 DEF StepStart
  <2> QED
    BY <1>0, <2>1, <2>2, <2>3, <2>4, ReapFrame
<1>6. ASSUME StepVforkBlock(t)
      PROVE  \A d \in Procs : Born(d)' /\ ReapOk(d)'
  <2> SUFFICES ASSUME NEW d \in Procs
               PROVE  Born(d)' /\ ReapOk(d)'
    OBVIOUS
  <2>1. Born(d)'
    BY <1>0, <1>6 DEF StepVforkBlock, Born
  <2>2. Settled(d) => Settled(d)'
    BY <1>0, <1>6, SettledFrame DEF StepVforkBlock, ThreadsOf
  <2>3. \A u \in Tasks : Claims(u, d)' => Claims(u, d)
    <3>1. Claims(t, d)' => Claims(t, d)
      BY <1>0, <1>6 DEF StepVforkBlock, Claims, Ctl, ForkLabels, WaitLabels, ExitLabels
    <3>2. ASSUME NEW u \in Tasks, u # t
          PROVE  Claims(u, d)' => Claims(u, d)
      BY <1>0, <1>6, <3>2 DEF StepVforkBlock, Claims
    <3> QED
      BY <3>1, <3>2
  <2>4. proc'[d].life = proc[d].life
    BY <1>6 DEF StepVforkBlock
  <2> QED
    BY <1>0, <2>1, <2>2, <2>3, <2>4, ReapFrame
<1>7. ASSUME StepExec(t)
      PROVE  \A d \in Procs : Born(d)' /\ ReapOk(d)'
  <2> SUFFICES ASSUME NEW d \in Procs
               PROVE  Born(d)' /\ ReapOk(d)'
    OBVIOUS
  <2>1. Born(d)'
    BY <1>0, <1>7 DEF StepExec, Born
  <2>2. Settled(d) => Settled(d)'
    BY <1>0, <1>7, SettledFrame DEF StepExec, ThreadsOf
  <2>3. \A u \in Tasks : Claims(u, d)' => Claims(u, d)
    <3>1. Claims(t, d)' => Claims(t, d)
      BY <1>0, <1>7
      DEF StepExec, Claims, Ctl, ForkLabels, WaitLabels, ExitLabels, AfterReturn
    <3>2. ASSUME NEW u \in Tasks, u # t
          PROVE  Claims(u, d)' => Claims(u, d)
      BY <1>0, <1>7, <3>2 DEF StepExec, Claims
    <3> QED
      BY <3>1, <3>2
  <2>4. proc'[d].life = proc[d].life
    BY <1>7 DEF StepExec
  <2> QED
    BY <1>0, <2>1, <2>2, <2>3, <2>4, ReapFrame
<1>8. ASSUME StepVforkClear(t)
      PROVE  \A d \in Procs : Born(d)' /\ ReapOk(d)'
  <2> SUFFICES ASSUME NEW d \in Procs
               PROVE  Born(d)' /\ ReapOk(d)'
    OBVIOUS
  <2>1. Born(d)'
    BY <1>0, <1>8 DEF StepVforkClear, Born
  <2>2. Settled(d) => Settled(d)'
    BY <1>0, <1>8, SettledFrame DEF StepVforkClear, ThreadsOf
  <2>3. \A u \in Tasks : Claims(u, d)' => Claims(u, d)
    <3>1. Claims(t, d)' => Claims(t, d)
      BY <1>0, <1>8
      DEF StepVforkClear, Claims, Ctl, ForkLabels, WaitLabels, ExitLabels, AfterVfork,
          AfterReturn
    <3>2. ASSUME NEW u \in Tasks, u # t
          PROVE  Claims(u, d)' => Claims(u, d)
      BY <1>0, <1>8, <3>2 DEF StepVforkClear, Claims
    <3> QED
      BY <3>1, <3>2
  <2>4. proc'[d].life = proc[d].life
    BY <1>8 DEF StepVforkClear
  <2> QED
    BY <1>0, <2>1, <2>2, <2>3, <2>4, ReapFrame
<1>9. ASSUME StepVforkWake(t)
      PROVE  \A d \in Procs : Born(d)' /\ ReapOk(d)'
  <2> SUFFICES ASSUME NEW d \in Procs
               PROVE  Born(d)' /\ ReapOk(d)'
    OBVIOUS
  <2>1. Born(d)'
    BY <1>0, <1>9 DEF StepVforkWake, Born
  <2>2. Settled(d) => Settled(d)'
    BY <1>0, <1>9, SettledFrame DEF StepVforkWake, ThreadsOf
  <2>3. \A u \in Tasks : Claims(u, d)' => Claims(u, d)
    <3>1. Claims(t, d)' => Claims(t, d)
      BY <1>0, <1>9
      DEF StepVforkWake, Claims, Ctl, ForkLabels, WaitLabels, ExitLabels, AfterVfork,
          AfterReturn
    <3>2. ASSUME NEW u \in Tasks, u # t
          PROVE  Claims(u, d)' => Claims(u, d)
      BY <1>0, <1>9, <3>2 DEF StepVforkWake, Claims
    <3> QED
      BY <3>1, <3>2
  <2>4. proc'[d].life = proc[d].life
    BY <1>9 DEF StepVforkWake
  <2> QED
    BY <1>0, <2>1, <2>2, <2>3, <2>4, ReapFrame
<1>10. ASSUME StepTake(t)
      PROVE  \A d \in Procs : Born(d)' /\ ReapOk(d)'
  <2> SUFFICES ASSUME NEW d \in Procs
               PROVE  Born(d)' /\ ReapOk(d)'
    OBVIOUS
  <2>1. Born(d)'
    BY <1>0, <1>10 DEF StepTake, Born
  <2>2. Settled(d) => Settled(d)'
    BY <1>0, <1>10, SettledFrame DEF StepTake, ThreadsOf
  <2>3. \A u \in Tasks : Claims(u, d)' => Claims(u, d)
    <3>1. Claims(t, d)' => Claims(t, d)
      BY <1>0, <1>10 DEF StepTake, Claims, Ctl, ForkLabels, WaitLabels, ExitLabels
    <3>2. ASSUME NEW u \in Tasks, u # t
          PROVE  Claims(u, d)' => Claims(u, d)
      BY <1>0, <1>10, <3>2 DEF StepTake, Claims
    <3> QED
      BY <3>1, <3>2
  <2>4. proc'[d].life = proc[d].life
    BY <1>10 DEF StepTake
  <2> QED
    BY <1>0, <2>1, <2>2, <2>3, <2>4, ReapFrame
<1>11. ASSUME NEW c \in Procs, StepEach(t, c)
      PROVE  \A d \in Procs : Born(d)' /\ ReapOk(d)'
  <2> SUFFICES ASSUME NEW d \in Procs
               PROVE  Born(d)' /\ ReapOk(d)'
    OBVIOUS
  <2>1. Born(d)'
    BY <1>0, <1>11 DEF StepEach, Born
  <2>2. Settled(d) => Settled(d)'
    BY <1>0, <1>11, SettledFrame DEF StepEach, ThreadsOf
  <2>3. \A u \in Tasks : Claims(u, d)' => Claims(u, d)
    <3>1. Claims(t, d)' => Claims(t, d)
      BY <1>0, <1>11 DEF StepEach, Claims, Ctl, ForkLabels, WaitLabels, ExitLabels
    <3>2. ASSUME NEW u \in Tasks, u # t
          PROVE  Claims(u, d)' => Claims(u, d)
      BY <1>0, <1>11, <3>2 DEF StepEach, Claims
    <3> QED
      BY <3>1, <3>2
  <2>4. proc'[d].life = proc[d].life
    BY <1>11 DEF StepEach
  <2> QED
    BY <1>0, <2>1, <2>2, <2>3, <2>4, ReapFrame
<1>12. ASSUME StepGive(t)
      PROVE  \A d \in Procs : Born(d)' /\ ReapOk(d)'
  <2> SUFFICES ASSUME NEW d \in Procs
               PROVE  Born(d)' /\ ReapOk(d)'
    OBVIOUS
  <2>1. Born(d)'
    BY <1>0, <1>12 DEF StepGive, Born
  <2>2. Settled(d) => Settled(d)'
    BY <1>0, <1>12, SettledFrame DEF StepGive, ThreadsOf
  <2>3. \A u \in Tasks : Claims(u, d)' => Claims(u, d)
    <3>1. Claims(t, d)' => Claims(t, d)
      BY <1>0, <1>12
      DEF StepGive, Claims, Ctl, ForkLabels, WaitLabels, ExitLabels, AfterReparent,
          AfterAdoption
    <3>2. ASSUME NEW u \in Tasks, u # t
          PROVE  Claims(u, d)' => Claims(u, d)
      BY <1>0, <1>12, <3>2 DEF StepGive, Claims
    <3> QED
      BY <3>1, <3>2
  <2>4. proc'[d].life = proc[d].life
    BY <1>12 DEF StepGive
  <2> QED
    BY <1>0, <2>1, <2>2, <2>3, <2>4, ReapFrame
<1>13. ASSUME StepInitPublish(t)
      PROVE  \A d \in Procs : Born(d)' /\ ReapOk(d)'
  <2> SUFFICES ASSUME NEW d \in Procs
               PROVE  Born(d)' /\ ReapOk(d)'
    OBVIOUS
  <2>1. Born(d)'
    BY <1>0, <1>13 DEF StepInitPublish, Born
  <2>2. Settled(d) => Settled(d)'
    BY <1>0, <1>13, SettledFrame DEF StepInitPublish, ThreadsOf
  <2>3. \A u \in Tasks : Claims(u, d)' => Claims(u, d)
    <3>1. Claims(t, d)' => Claims(t, d)
      BY <1>0, <1>13 DEF StepInitPublish, Claims, Ctl, ForkLabels, WaitLabels, ExitLabels
    <3>2. ASSUME NEW u \in Tasks, u # t
          PROVE  Claims(u, d)' => Claims(u, d)
      BY <1>0, <1>13, <3>2 DEF StepInitPublish, Claims
    <3> QED
      BY <3>1, <3>2
  <2>4. proc'[d].life = proc[d].life
    BY <1>13 DEF StepInitPublish
  <2> QED
    BY <1>0, <2>1, <2>2, <2>3, <2>4, ReapFrame
<1>14. ASSUME NEW w \in SomeTask, StepInitWake(t, w)
      PROVE  \A d \in Procs : Born(d)' /\ ReapOk(d)'
  <2> SUFFICES ASSUME NEW d \in Procs
               PROVE  Born(d)' /\ ReapOk(d)'
    OBVIOUS
  <2>1. Born(d)'
    BY <1>0, <1>14 DEF StepInitWake, Born
  <2>2. Settled(d) => Settled(d)'
    BY <1>0, <1>14, SettledFrame DEF StepInitWake, ThreadsOf, SomeTask
  <2>3. \A u \in Tasks : Claims(u, d)' => Claims(u, d)
    <3>1. Claims(t, d)' => Claims(t, d)
      BY <1>0, <1>14
      DEF StepInitWake, Claims, Ctl, ForkLabels, WaitLabels, ExitLabels, AfterAdoption,
          Asleep, SomeTask
    <3>2. ASSUME NEW u \in Tasks, u # t
          PROVE  Claims(u, d)' => Claims(u, d)
      BY <1>0, <1>14, <3>2 DEF StepInitWake, Claims, SomeTask
    <3> QED
      BY <3>1, <3>2
  <2>4. proc'[d].life = proc[d].life
    BY <1>14 DEF StepInitWake
  <2> QED
    BY <1>0, <2>1, <2>2, <2>3, <2>4, ReapFrame
<1>15. ASSUME StepWaitSeq(t)
      PROVE  \A d \in Procs : Born(d)' /\ ReapOk(d)'
  <2> SUFFICES ASSUME NEW d \in Procs
               PROVE  Born(d)' /\ ReapOk(d)'
    OBVIOUS
  <2>1. Born(d)'
    BY <1>0, <1>15 DEF StepWaitSeq, Born
  <2>2. Settled(d) => Settled(d)'
    BY <1>0, <1>15, SettledFrame DEF StepWaitSeq, ThreadsOf
  <2>3. \A u \in Tasks : Claims(u, d)' => Claims(u, d)
    <3>1. Claims(t, d)' => Claims(t, d)
      BY <1>0, <1>15 DEF StepWaitSeq, Claims, Ctl, ForkLabels, WaitLabels, ExitLabels
    <3>2. ASSUME NEW u \in Tasks, u # t
          PROVE  Claims(u, d)' => Claims(u, d)
      BY <1>0, <1>15, <3>2 DEF StepWaitSeq, Claims
    <3> QED
      BY <3>1, <3>2
  <2>4. proc'[d].life = proc[d].life
    BY <1>15 DEF StepWaitSeq
  <2> QED
    BY <1>0, <2>1, <2>2, <2>3, <2>4, ReapFrame
<1>16. ASSUME StepWaitList(t)
      PROVE  \A d \in Procs : Born(d)' /\ ReapOk(d)'
  <2> SUFFICES ASSUME NEW d \in Procs
               PROVE  Born(d)' /\ ReapOk(d)'
    OBVIOUS
  <2>1. Born(d)'
    BY <1>0, <1>16 DEF StepWaitList, Born
  <2>2. Settled(d) => Settled(d)'
    BY <1>0, <1>16, SettledFrame DEF StepWaitList, ThreadsOf
  <2>3. \A u \in Tasks : Claims(u, d)' => Claims(u, d)
    <3>1. Claims(t, d)' => Claims(t, d)
      BY <1>0, <1>16 DEF StepWaitList, Claims, Ctl, ForkLabels, WaitLabels, ExitLabels
    <3>2. ASSUME NEW u \in Tasks, u # t
          PROVE  Claims(u, d)' => Claims(u, d)
      BY <1>0, <1>16, <3>2 DEF StepWaitList, Claims
    <3> QED
      BY <3>1, <3>2
  <2>4. proc'[d].life = proc[d].life
    BY <1>16 DEF StepWaitList
  <2> QED
    BY <1>0, <2>1, <2>2, <2>3, <2>4, ReapFrame
<1>17. ASSUME NEW c \in Procs, StepFound(t, c)
      PROVE  \A d \in Procs : Born(d)' /\ ReapOk(d)'
  <2> SUFFICES ASSUME NEW d \in Procs
               PROVE  Born(d)' /\ ReapOk(d)'
    OBVIOUS
  <2>1. Born(d)'
    BY <1>0, <1>17 DEF StepFound, Born
  <2>2. Settled(d) => Settled(d)'
    BY <1>0, <1>17, SettledFrame DEF StepFound, ThreadsOf
  <2>3. CASE d = c
    <3>1. Settled(d)
      <4>1. LiveThreads(d) = {}
        BY <1>0, <1>17, <2>3, NoneAlive DEF StepFound, Dead
      <4>2. ASSUME NEW u \in ThreadsOf(d), pc[u] \notin {"gone", "unborn", "rerun"}
            PROVE  pc[u] \in {"exitDefer", "exitSwitch"} /\ ~loc[u].last
        <5>1. u \in Tasks /\ ProcOf[u] = d /\ loc[u].why = "exit" /\ pc[u] \in Labels
          BY <4>1, <4>2 DEF LiveThreads, ThreadsOf, ControlInv, Types
        <5>2. ~IsLast(u)
          BY <1>0, <1>17, <2>3, <4>2, <5>1
          DEF StepFound, TasksQuiescent, ExitOk, Finished, Ctl
        <5>3. u \notin proc[d].tasks
          BY <1>17, <2>3, <4>2 DEF StepFound, TasksQuiescent
        <5> QED
          BY <1>0, <4>2, <5>1, <5>2, <5>3
          DEF ExitOk, IsLast, PastParent, Ctl, ForkLabels, WaitLabels, Labels, Exiting
      <4> QED
        BY <4>2 DEF Settled
    <3>2. proc[d].life # "unborn"
      BY <1>0, <1>17, <2>3 DEF StepFound, Dead, Born
    <3> QED
      BY <1>17, <2>1, <2>2, <3>1, <3>2 DEF StepFound, ReapOk
  <2>4. CASE d # c
    <3>1. \A u \in Tasks : Claims(u, d)' => Claims(u, d)
      BY <1>17, <2>4 DEF StepFound, Claims
    <3> QED
      BY <1>0, <1>17, <2>1, <2>2, <3>1, ReapFrame DEF StepFound
  <2> QED
    BY <2>3, <2>4
<1>18. ASSUME NEW c \in Procs, StepPass(t, c)
      PROVE  \A d \in Procs : Born(d)' /\ ReapOk(d)'
  <2> SUFFICES ASSUME NEW d \in Procs
               PROVE  Born(d)' /\ ReapOk(d)'
    OBVIOUS
  <2>1. Born(d)'
    BY <1>0, <1>18 DEF StepPass, Born
  <2>2. Settled(d) => Settled(d)'
    BY <1>0, <1>18, SettledFrame DEF StepPass, ThreadsOf
  <2>3. \A u \in Tasks : Claims(u, d)' => Claims(u, d)
    <3>1. Claims(t, d)' => Claims(t, d)
      BY <1>0, <1>18 DEF StepPass, Claims, Ctl, ForkLabels, WaitLabels, ExitLabels
    <3>2. ASSUME NEW u \in Tasks, u # t
          PROVE  Claims(u, d)' => Claims(u, d)
      BY <1>0, <1>18, <3>2 DEF StepPass, Claims
    <3> QED
      BY <3>1, <3>2
  <2>4. proc'[d].life = proc[d].life
    BY <1>18 DEF StepPass
  <2> QED
    BY <1>0, <2>1, <2>2, <2>3, <2>4, ReapFrame
<1>19. ASSUME StepAgain(t)
      PROVE  \A d \in Procs : Born(d)' /\ ReapOk(d)'
  <2> SUFFICES ASSUME NEW d \in Procs
               PROVE  Born(d)' /\ ReapOk(d)'
    OBVIOUS
  <2>1. Born(d)'
    BY <1>0, <1>19 DEF StepAgain, Born
  <2>2. Settled(d) => Settled(d)'
    BY <1>0, <1>19, SettledFrame DEF StepAgain, ThreadsOf
  <2>3. \A u \in Tasks : Claims(u, d)' => Claims(u, d)
    <3>1. Claims(t, d)' => Claims(t, d)
      BY <1>0, <1>19 DEF StepAgain, Claims, Ctl, ForkLabels, WaitLabels, ExitLabels
    <3>2. ASSUME NEW u \in Tasks, u # t
          PROVE  Claims(u, d)' => Claims(u, d)
      BY <1>0, <1>19, <3>2 DEF StepAgain, Claims
    <3> QED
      BY <3>1, <3>2
  <2>4. proc'[d].life = proc[d].life
    BY <1>19 DEF StepAgain
  <2> QED
    BY <1>0, <2>1, <2>2, <2>3, <2>4, ReapFrame
<1>20. ASSUME StepWaitBlock(t)
      PROVE  \A d \in Procs : Born(d)' /\ ReapOk(d)'
  <2> SUFFICES ASSUME NEW d \in Procs
               PROVE  Born(d)' /\ ReapOk(d)'
    OBVIOUS
  <2>1. Born(d)'
    BY <1>0, <1>20 DEF StepWaitBlock, Born
  <2>2. Settled(d) => Settled(d)'
    BY <1>0, <1>20, SettledFrame DEF StepWaitBlock, ThreadsOf
  <2>3. \A u \in Tasks : Claims(u, d)' => Claims(u, d)
    <3>1. Claims(t, d)' => Claims(t, d)
      BY <1>0, <1>20 DEF StepWaitBlock, Claims, Ctl, ForkLabels, WaitLabels, ExitLabels
    <3>2. ASSUME NEW u \in Tasks, u # t
          PROVE  Claims(u, d)' => Claims(u, d)
      BY <1>0, <1>20, <3>2 DEF StepWaitBlock, Claims
    <3> QED
      BY <3>1, <3>2
  <2>4. proc'[d].life = proc[d].life
    BY <1>20 DEF StepWaitBlock
  <2> QED
    BY <1>0, <2>1, <2>2, <2>3, <2>4, ReapFrame
<1>21. ASSUME StepWin(t)
      PROVE  \A d \in Procs : Born(d)' /\ ReapOk(d)'
  <2> SUFFICES ASSUME NEW d \in Procs
               PROVE  Born(d)' /\ ReapOk(d)'
    OBVIOUS
  <2>1. Born(d)'
    BY <1>0, <1>21 DEF StepWin, Born
  <2>2. Settled(d) => Settled(d)'
    BY <1>0, <1>21, SettledFrame DEF StepWin, ThreadsOf
  <2>3. \A u \in Tasks : Claims(u, d)' => Claims(u, d)
    <3>1. Claims(t, d)' => Claims(t, d)
      BY <1>0, <1>21 DEF StepWin, Claims, Ctl, ForkLabels, WaitLabels, ExitLabels
    <3>2. ASSUME NEW u \in Tasks, u # t
          PROVE  Claims(u, d)' => Claims(u, d)
      BY <1>0, <1>21, <3>2 DEF StepWin, Claims
    <3> QED
      BY <3>1, <3>2
  <2>4. proc'[d].life = proc[d].life
    BY <1>21 DEF StepWin
  <2> QED
    BY <1>0, <2>1, <2>2, <2>3, <2>4, ReapFrame
<1>22. ASSUME StepLose(t)
      PROVE  \A d \in Procs : Born(d)' /\ ReapOk(d)'
  <2> SUFFICES ASSUME NEW d \in Procs
               PROVE  Born(d)' /\ ReapOk(d)'
    OBVIOUS
  <2>1. Born(d)'
    BY <1>0, <1>22 DEF StepLose, Born
  <2>2. Settled(d) => Settled(d)'
    BY <1>0, <1>22, SettledFrame DEF StepLose, ThreadsOf
  <2>3. \A u \in Tasks : Claims(u, d)' => Claims(u, d)
    <3>1. Claims(t, d)' => Claims(t, d)
      BY <1>0, <1>22 DEF StepLose, Claims, Ctl, ForkLabels, WaitLabels, ExitLabels
    <3>2. ASSUME NEW u \in Tasks, u # t
          PROVE  Claims(u, d)' => Claims(u, d)
      BY <1>0, <1>22, <3>2 DEF StepLose, Claims
    <3> QED
      BY <3>1, <3>2
  <2>4. proc'[d].life = proc[d].life
    BY <1>22 DEF StepLose
  <2> QED
    BY <1>0, <2>1, <2>2, <2>3, <2>4, ReapFrame
<1>23. ASSUME StepFree(t)
      PROVE  \A d \in Procs : Born(d)' /\ ReapOk(d)'
  <2> SUFFICES ASSUME NEW d \in Procs
               PROVE  Born(d)' /\ ReapOk(d)'
    OBVIOUS
  <2>1. Born(d)'
    BY <1>0, <1>23 DEF StepFree, Born
  <2>2. Settled(d) => Settled(d)'
    BY <1>0, <1>23, SettledFrame DEF StepFree, ThreadsOf
  <2>3. CASE d = loc[t].of
    <3>1. Settled(d)
      BY <1>23, <2>3, FreeOther DEF StepFree
    <3> QED
      BY <1>23, <2>1, <2>2, <2>3, <3>1 DEF StepFree, ReapOk
  <2>4. CASE d # loc[t].of
    <3>1. \A u \in Tasks : Claims(u, d)' => Claims(u, d)
      BY <1>23 DEF StepFree, Claims, AfterReturn
    <3> QED
      BY <1>0, <1>23, <2>1, <2>2, <2>4, <3>1, ReapFrame DEF StepFree
  <2> QED
    BY <2>3, <2>4
<1>24. ASSUME StepCount(t)
      PROVE  \A d \in Procs : Born(d)' /\ ReapOk(d)'
  <2> SUFFICES ASSUME NEW d \in Procs
               PROVE  Born(d)' /\ ReapOk(d)'
    OBVIOUS
  <2>0. proc[ProcOf[t]].life # "unborn"
    BY <1>0, <1>24 DEF StepCount, CountOk, ThreadsOf
  <2>1. Born(d)'
    <3>1. CASE d = ProcOf[t]
      BY <1>24, <2>0, <3>1 DEF StepCount, Born
    <3>2. CASE d # ProcOf[t]
      BY <1>0, <1>24, <3>2 DEF StepCount, Born
    <3> QED
      BY <3>1, <3>2
  <2>2. Settled(d) => Settled(d)'
    BY <1>0, <1>24, SettledFrame DEF StepCount, ThreadsOf
  <2>3. \A u \in Tasks : Claims(u, d)' => Claims(u, d)
    BY <1>0, <1>24 DEF StepCount, Claims, Ctl
  <2>4. proc'[d].life = proc[d].life
    BY <1>24 DEF StepCount
  <2> QED
    BY <1>0, <2>1, <2>2, <2>3, <2>4, ReapFrame
<1>25. ASSUME StepDetach(t)
      PROVE  \A d \in Procs : Born(d)' /\ ReapOk(d)'
  <2> SUFFICES ASSUME NEW d \in Procs
               PROVE  Born(d)' /\ ReapOk(d)'
    OBVIOUS
  <2>1. Born(d)'
    BY <1>0, <1>25 DEF StepDetach, Born
  <2>2. Settled(d) => Settled(d)'
    BY <1>0, <1>25, SettledFrame DEF StepDetach, ThreadsOf
  <2>3. \A u \in Tasks : Claims(u, d)' => Claims(u, d)
    <3>1. Claims(t, d)' => Claims(t, d)
      BY <1>0, <1>25 DEF StepDetach, Claims, Ctl, ForkLabels, WaitLabels, ExitLabels
    <3>2. ASSUME NEW u \in Tasks, u # t
          PROVE  Claims(u, d)' => Claims(u, d)
      BY <1>0, <1>25, <3>2 DEF StepDetach, Claims
    <3> QED
      BY <3>1, <3>2
  <2>4. proc'[d].life = proc[d].life
    BY <1>25 DEF StepDetach
  <2> QED
    BY <1>0, <2>1, <2>2, <2>3, <2>4, ReapFrame
<1>26. ASSUME StepParent(t)
      PROVE  \A d \in Procs : Born(d)' /\ ReapOk(d)'
  <2> SUFFICES ASSUME NEW d \in Procs
               PROVE  Born(d)' /\ ReapOk(d)'
    OBVIOUS
  <2>1. Born(d)'
    BY <1>0, <1>26 DEF StepParent, Born
  <2>2. Settled(d) => Settled(d)'
    BY <1>0, <1>26, SettledFrame DEF StepParent, ThreadsOf
  <2>3. \A u \in Tasks : Claims(u, d)' => Claims(u, d)
    <3>1. Claims(t, d)' => Claims(t, d)
      BY <1>0, <1>26 DEF StepParent, Claims, Ctl, ForkLabels, WaitLabels, ExitLabels
    <3>2. ASSUME NEW u \in Tasks, u # t
          PROVE  Claims(u, d)' => Claims(u, d)
      BY <1>0, <1>26, <3>2 DEF StepParent, Claims
    <3> QED
      BY <3>1, <3>2
  <2>4. proc'[d].life = proc[d].life
    BY <1>26 DEF StepParent
  <2> QED
    BY <1>0, <2>1, <2>2, <2>3, <2>4, ReapFrame
<1>27. ASSUME StepDefer(t)
      PROVE  \A d \in Procs : Born(d)' /\ ReapOk(d)'
  <2> SUFFICES ASSUME NEW d \in Procs
               PROVE  Born(d)' /\ ReapOk(d)'
    OBVIOUS
  <2>1. Born(d)'
    BY <1>0, <1>27 DEF StepDefer, Born
  <2>2. Settled(d) => Settled(d)'
    BY <1>0, <1>27 DEF StepDefer, Settled, ThreadsOf
  <2>3. \A u \in Tasks : Claims(u, d)' => Claims(u, d)
    <3>1. Claims(t, d)' => Claims(t, d)
      BY <1>0, <1>27 DEF StepDefer, Claims, Ctl, ForkLabels, WaitLabels, ExitLabels
    <3>2. ASSUME NEW u \in Tasks, u # t
          PROVE  Claims(u, d)' => Claims(u, d)
      BY <1>0, <1>27, <3>2 DEF StepDefer, Claims
    <3> QED
      BY <3>1, <3>2
  <2>4. proc'[d].life = proc[d].life
    BY <1>27 DEF StepDefer
  <2> QED
    BY <1>0, <2>1, <2>2, <2>3, <2>4, ReapFrame
<1>28. ASSUME StepSwitch(t)
      PROVE  \A d \in Procs : Born(d)' /\ ReapOk(d)'
  <2> SUFFICES ASSUME NEW d \in Procs
               PROVE  Born(d)' /\ ReapOk(d)'
    OBVIOUS
  <2>1. Born(d)'
    BY <1>0, <1>28 DEF StepSwitch, Born
  <2>2. Settled(d) => Settled(d)'
    BY <1>0, <1>28 DEF StepSwitch, Settled, ThreadsOf
  <2>3. \A u \in Tasks : Claims(u, d)' => Claims(u, d)
    <3>1. Claims(t, d)' => Claims(t, d)
      BY <1>0, <1>28 DEF StepSwitch, Claims, Ctl, ForkLabels, WaitLabels, ExitLabels
    <3>2. ASSUME NEW u \in Tasks, u # t
          PROVE  Claims(u, d)' => Claims(u, d)
      BY <1>0, <1>28, <3>2 DEF StepSwitch, Claims
    <3> QED
      BY <3>1, <3>2
  <2>4. proc'[d].life = proc[d].life
    BY <1>28 DEF StepSwitch
  <2> QED
    BY <1>0, <2>1, <2>2, <2>3, <2>4, ReapFrame
<1>29. ASSUME StepGroup(t)
      PROVE  \A d \in Procs : Born(d)' /\ ReapOk(d)'
  <2> SUFFICES ASSUME NEW d \in Procs
               PROVE  Born(d)' /\ ReapOk(d)'
    OBVIOUS
  <2>0. proc[ProcOf[t]].life # "unborn"
    BY <1>0, <1>29 DEF StepGroup, CountOk, ThreadsOf
  <2>1. Born(d)'
    BY <1>0, <1>29, <2>0 DEF StepGroup, Born
  <2>2. Settled(d) => Settled(d)'
    BY <1>0, <1>29, SettledFrame DEF StepGroup, ThreadsOf
  <2>3. \A u \in Tasks : Claims(u, d)' => Claims(u, d)
    <3>1. Claims(t, d)' => Claims(t, d)
      BY <1>0, <1>29 DEF StepGroup, Claims, Ctl, ForkLabels, WaitLabels, ExitLabels
    <3>2. ASSUME NEW u \in Tasks, u # t
          PROVE  Claims(u, d)' => Claims(u, d)
      BY <1>0, <1>29, <3>2 DEF StepGroup, Claims
    <3> QED
      BY <3>1, <3>2
  <2>4. proc'[d].life = proc[d].life
    BY <1>29 DEF StepGroup
  <2> QED
    BY <1>0, <2>1, <2>2, <2>3, <2>4, ReapFrame
<1>30. ASSUME NEW k \in Procs, StepKill(t, k)
      PROVE  \A d \in Procs : Born(d)' /\ ReapOk(d)'
  <2> SUFFICES ASSUME NEW d \in Procs
               PROVE  Born(d)' /\ ReapOk(d)'
    OBVIOUS
  <2>1. Born(d)'
    BY <1>0, <1>30 DEF StepKill, Born
  <2>2. Settled(d) => Settled(d)'
    BY <1>0, <1>30, SettledFrame DEF StepKill, ThreadsOf
  <2>3. \A u \in Tasks : Claims(u, d)' => Claims(u, d)
    <3>1. Claims(t, d)' => Claims(t, d)
      BY <1>0, <1>30 DEF StepKill, Claims, Ctl, ForkLabels, WaitLabels, ExitLabels
    <3>2. ASSUME NEW u \in Tasks, u # t
          PROVE  Claims(u, d)' => Claims(u, d)
      BY <1>0, <1>30, <3>2 DEF StepKill, Claims
    <3> QED
      BY <3>1, <3>2
  <2>4. proc'[d].life = proc[d].life
    BY <1>30 DEF StepKill
  <2> QED
    BY <1>0, <2>1, <2>2, <2>3, <2>4, ReapFrame
<1>31. ASSUME NEW w \in Tasks, StepFlag(t, w)
      PROVE  \A d \in Procs : Born(d)' /\ ReapOk(d)'
  <2> SUFFICES ASSUME NEW d \in Procs
               PROVE  Born(d)' /\ ReapOk(d)'
    OBVIOUS
  <2>1. Born(d)'
    BY <1>0, <1>31 DEF StepFlag, Born
  <2>2. Settled(d) => Settled(d)'
    BY <1>0, <1>31, SettledFrame DEF StepFlag, ThreadsOf
  <2>3. \A u \in Tasks : Claims(u, d)' => Claims(u, d)
    <3>1. Claims(t, d)' => Claims(t, d)
      BY <1>0, <1>31 DEF StepFlag, Claims, Ctl, ForkLabels, WaitLabels, ExitLabels
    <3>2. ASSUME NEW u \in Tasks, u # t
          PROVE  Claims(u, d)' => Claims(u, d)
      BY <1>0, <1>31, <3>2 DEF StepFlag, Claims
    <3> QED
      BY <3>1, <3>2
  <2>4. proc'[d].life = proc[d].life
    BY <1>31 DEF StepFlag
  <2> QED
    BY <1>0, <2>1, <2>2, <2>3, <2>4, ReapFrame
<1>32. ASSUME NEW w \in Tasks, StepFlagOnly(t, w)
      PROVE  \A d \in Procs : Born(d)' /\ ReapOk(d)'
  <2> SUFFICES ASSUME NEW d \in Procs
               PROVE  Born(d)' /\ ReapOk(d)'
    OBVIOUS
  <2>1. Born(d)'
    BY <1>0, <1>32 DEF StepFlagOnly, Born
  <2>2. Settled(d) => Settled(d)'
    BY <1>0, <1>32, SettledFrame DEF StepFlagOnly, ThreadsOf
  <2>3. \A u \in Tasks : Claims(u, d)' => Claims(u, d)
    <3>1. Claims(t, d)' => Claims(t, d)
      BY <1>0, <1>32 DEF StepFlagOnly, Claims, Ctl, ForkLabels, WaitLabels, ExitLabels
    <3>2. ASSUME NEW u \in Tasks, u # t
          PROVE  Claims(u, d)' => Claims(u, d)
      BY <1>0, <1>32, <3>2 DEF StepFlagOnly, Claims
    <3> QED
      BY <3>1, <3>2
  <2>4. proc'[d].life = proc[d].life
    BY <1>32 DEF StepFlagOnly
  <2> QED
    BY <1>0, <2>1, <2>2, <2>3, <2>4, ReapFrame
<1>33. ASSUME StepNotify(t)
      PROVE  \A d \in Procs : Born(d)' /\ ReapOk(d)'
  <2> SUFFICES ASSUME NEW d \in Procs
               PROVE  Born(d)' /\ ReapOk(d)'
    OBVIOUS
  <2>1. Born(d)'
    BY <1>0, <1>33 DEF StepNotify, Born
  <2>2. Settled(d) => Settled(d)'
    BY <1>0, <1>33, SettledFrame DEF StepNotify, ThreadsOf
  <2>3. \A u \in Tasks : Claims(u, d)' => Claims(u, d)
    <3>1. Claims(t, d)' => Claims(t, d)
      BY <1>0, <1>33 DEF StepNotify, Claims, Ctl, ForkLabels, WaitLabels, ExitLabels
    <3>2. ASSUME NEW u \in Tasks, u # t
          PROVE  Claims(u, d)' => Claims(u, d)
      <4>1. loc'[u] = loc[u] /\ (pc'[u] = pc[u] \/ WokenTo(u))
        BY <1>33, <3>2 DEF StepNotify
      <4> QED
        BY <4>1 DEF Claims
    <3> QED
      BY <3>1, <3>2
  <2>4. proc'[d].life = proc[d].life
    BY <1>33 DEF StepNotify
  <2> QED
    BY <1>0, <2>1, <2>2, <2>3, <2>4, ReapFrame
<1>34. ASSUME StepFinish(t)
      PROVE  \A d \in Procs : Born(d)' /\ ReapOk(d)'
  <2> SUFFICES ASSUME NEW d \in Procs
               PROVE  Born(d)' /\ ReapOk(d)'
    OBVIOUS
  <2>1. Born(d)'
    BY <1>0, <1>34 DEF StepFinish, Born
  <2>2. Settled(d) => Settled(d)'
    BY <1>0, <1>34, SettledFrame DEF StepFinish, ThreadsOf
  <2>3. \A u \in Tasks : Claims(u, d)' => Claims(u, d)
    <3>1. Claims(t, d)' => Claims(t, d)
      BY <1>0, <1>34 DEF StepFinish, Claims, Ctl, ForkLabels, WaitLabels, ExitLabels
    <3>2. ASSUME NEW u \in Tasks, u # t
          PROVE  Claims(u, d)' => Claims(u, d)
      BY <1>0, <1>34, <3>2 DEF StepFinish, Claims
    <3> QED
      BY <3>1, <3>2
  <2>4. proc'[d].life = proc[d].life
    BY <1>34 DEF StepFinish
  <2> QED
    BY <1>0, <2>1, <2>2, <2>3, <2>4, ReapFrame
<1>35. ASSUME StepEvent(t)
      PROVE  \A d \in Procs : Born(d)' /\ ReapOk(d)'
  <2> SUFFICES ASSUME NEW d \in Procs
               PROVE  Born(d)' /\ ReapOk(d)'
    OBVIOUS
  <2>1. Born(d)'
    BY <1>0, <1>35 DEF StepEvent, Born
  <2>2. Settled(d) => Settled(d)'
    BY <1>0, <1>35, SettledFrame DEF StepEvent, ThreadsOf
  <2>3. \A u \in Tasks : Claims(u, d)' => Claims(u, d)
    <3>1. Claims(t, d)' => Claims(t, d)
      BY <1>0, <1>35 DEF StepEvent, Claims, Ctl, ForkLabels, WaitLabels, ExitLabels
    <3>2. ASSUME NEW u \in Tasks, u # t
          PROVE  Claims(u, d)' => Claims(u, d)
      BY <1>0, <1>35, <3>2 DEF StepEvent, Claims
    <3> QED
      BY <3>1, <3>2
  <2>4. proc'[d].life = proc[d].life
    BY <1>35 DEF StepEvent
  <2> QED
    BY <1>0, <2>1, <2>2, <2>3, <2>4, ReapFrame
<1>36. ASSUME StepCollect(t)
      PROVE  \A d \in Procs : Born(d)' /\ ReapOk(d)'
  <2> SUFFICES ASSUME NEW d \in Procs
               PROVE  Born(d)' /\ ReapOk(d)'
    OBVIOUS
  <2>1. Born(d)'
    BY <1>0, <1>36 DEF StepCollect, Born
  <2>2. Settled(d) => Settled(d)'
    BY <1>0, <1>36, SettledFrame DEF StepCollect, ThreadsOf
  <2>3. \A u \in Tasks : Claims(u, d)' => Claims(u, d)
    <3>1. Claims(t, d)' => Claims(t, d)
      BY <1>0, <1>36 DEF StepCollect, Claims, Ctl, ForkLabels, WaitLabels, ExitLabels
    <3>2. ASSUME NEW u \in Tasks, u # t
          PROVE  Claims(u, d)' => Claims(u, d)
      BY <1>0, <1>36, <3>2 DEF StepCollect, Claims
    <3> QED
      BY <3>1, <3>2
  <2>4. proc'[d].life = proc[d].life
    BY <1>36 DEF StepCollect
  <2> QED
    BY <1>0, <2>1, <2>2, <2>3, <2>4, ReapFrame
<1>37. ASSUME NEW w \in Tasks, StepWakeOne(t, w)
      PROVE  \A d \in Procs : Born(d)' /\ ReapOk(d)'
  <2> SUFFICES ASSUME NEW d \in Procs
               PROVE  Born(d)' /\ ReapOk(d)'
    OBVIOUS
  <2>1. Born(d)'
    BY <1>0, <1>37 DEF StepWakeOne, Born
  <2>2. Settled(d) => Settled(d)'
    BY <1>0, <1>37, SettledFrame DEF StepWakeOne, ThreadsOf
  <2>3. \A u \in Tasks : Claims(u, d)' => Claims(u, d)
    <3>1. Claims(t, d)' => Claims(t, d)
      BY <1>0, <1>37 DEF StepWakeOne, Claims, Ctl, ForkLabels, WaitLabels, ExitLabels
    <3>2. ASSUME NEW u \in Tasks, u # t
          PROVE  Claims(u, d)' => Claims(u, d)
      BY <1>0, <1>37, <3>2 DEF StepWakeOne, Claims
    <3> QED
      BY <3>1, <3>2
  <2>4. proc'[d].life = proc[d].life
    BY <1>37 DEF StepWakeOne
  <2> QED
    BY <1>0, <2>1, <2>2, <2>3, <2>4, ReapFrame
<1>38. ASSUME StepWakesDone(t)
      PROVE  \A d \in Procs : Born(d)' /\ ReapOk(d)'
  <2> SUFFICES ASSUME NEW d \in Procs
               PROVE  Born(d)' /\ ReapOk(d)'
    OBVIOUS
  <2>1. Born(d)'
    BY <1>0, <1>38 DEF StepWakesDone, Born
  <2>2. Settled(d) => Settled(d)'
    BY <1>0, <1>38, SettledFrame DEF StepWakesDone, ThreadsOf
  <2>3. \A u \in Tasks : Claims(u, d)' => Claims(u, d)
    <3>1. Claims(t, d)' => Claims(t, d)
      BY <1>0, <1>38 DEF StepWakesDone, Claims, Ctl, ForkLabels, WaitLabels, ExitLabels
    <3>2. ASSUME NEW u \in Tasks, u # t
          PROVE  Claims(u, d)' => Claims(u, d)
      BY <1>0, <1>38, <3>2 DEF StepWakesDone, Claims
    <3> QED
      BY <3>1, <3>2
  <2>4. proc'[d].life = proc[d].life
    BY <1>38 DEF StepWakesDone
  <2> QED
    BY <1>0, <2>1, <2>2, <2>3, <2>4, ReapFrame
<1> QED
  BY <1>1, <1>2, <1>3, <1>4, <1>5, <1>6, <1>7, <1>8, <1>9, <1>10, <1>11, <1>12, <1>13,
     <1>14, <1>15, <1>16, <1>17, <1>18, <1>19, <1>20, <1>21, <1>22, <1>23, <1>24, <1>25,
     <1>26, <1>27, <1>28, <1>29, <1>30, <1>31, <1>32, <1>33, <1>34, <1>35, <1>36, <1>37,
     <1>38
  DEF Step

\* A process stays in its hand when no list and no thread takes it up.
LEMMA CustodyFrame ==
  ASSUME NEW c \in Procs, Custody(c), proc'[c].life = proc[c].life,
         \A p \in Procs : InList(p, c)' => InList(p, c),
         \A u \in Tasks : /\ Moving(u, c)' => Moving(u, c)
                          /\ Reaps(u, c)' => Reaps(u, c)
                          /\ Forking(u, c)' => Forking(u, c)
  PROVE  Custody(c)'
BY DEF Custody

\* A thread a step does not move, or only wakes, has the same processes in hand.
LEMMA HandsFrame ==
  ASSUME NEW u \in Tasks, NEW c, loc'[u] = loc[u], pc'[u] = pc[u] \/ WokenTo(u)
  PROVE  /\ Moving(u, c)' => Moving(u, c)
         /\ Reaps(u, c)' => Reaps(u, c)
         /\ Forking(u, c)' => Forking(u, c)
BY DEF Moving, Reaps, Forking

\* Every step leaves every process in one hand.
LEMMA CustodyStep ==
  ASSUME ControlInv, ExitInv, CustodyInv, NEW t \in Tasks, Step(t)
  PROVE  CustodyInv'
<1>0. /\ ProcOf[t] \in Procs /\ Ctl(t) /\ ReapCtl(t) /\ \A d \in Procs : Custody(d)
  BY DEF ControlInv, ExitInv, CustodyInv
<1>1. ASSUME StepReturn(t)
      PROVE  \A d \in Procs : Custody(d)'
  <2> SUFFICES ASSUME NEW d \in Procs
               PROVE  Custody(d)'
    OBVIOUS
  <2>a. proc'[d].life = proc[d].life
    BY <1>1 DEF StepReturn
  <2>b. \A q \in Procs : InList(q, d)' => InList(q, d)
    BY <1>1 DEF StepReturn, InList
  <2>c. /\ Moving(t, d)' => Moving(t, d)
        /\ Reaps(t, d)' => Reaps(t, d)
        /\ Forking(t, d)' => Forking(t, d)
    BY <1>0, <1>1
    DEF StepReturn, Moving, Reaps, Forking, Ctl, ForkLabels, WaitLabels, ExitLabels,
        ReapCtl, AfterReturn
  <2>d. ASSUME NEW u \in Tasks, u # t
       PROVE  /\ Moving(u, d)' => Moving(u, d)
              /\ Reaps(u, d)' => Reaps(u, d)
              /\ Forking(u, d)' => Forking(u, d)
    BY <1>1, <2>d, HandsFrame DEF StepReturn
  <2> QED
    BY <1>0, <2>a, <2>b, <2>c, <2>d, CustodyFrame
<1>2. ASSUME NEW c \in Procs, NEW v \in BOOLEAN, StepFork(t, c, v)
      PROVE  \A d \in Procs : Custody(d)'
  <2> SUFFICES ASSUME NEW d \in Procs
               PROVE  Custody(d)'
    OBVIOUS
  <2>0. Custody(d)
    BY <1>0
  <2>1. CASE d = c
    <3>1. proc[d].life = "unborn"
      BY <1>0, <1>2, <2>1 DEF StepFork, InList, Moving, Reaps, Forking, Ctl, ForkLabels
    <3>2. proc'[d].life = "made"
      BY <1>2, <2>1 DEF StepFork
    <3>3. ~Moving(t, d)' /\ ~Reaps(t, d)'
      BY <1>0, <1>2, <2>1, <2>0, <3>1
      DEF StepFork, Moving, Reaps, Forking, Custody, Ctl, ReapCtl
    <3>4. \A q \in Procs : ~InList(q, d)'
      BY <1>0, <1>2, <2>0, <2>1, <3>1 DEF StepFork, InList, Custody, Moving, Reaps, Forking
    <3>5. ASSUME NEW u \in Tasks, u # t
         PROVE  /\ Moving(u, d)' => Moving(u, d)
                /\ Reaps(u, d)' => Reaps(u, d)
                /\ Forking(u, d)' => Forking(u, d)
      BY <1>2, <3>5 DEF StepFork, Moving, Reaps, Forking
    <3>6. \A u \in Tasks : u # t => ~Moving(u, d)' /\ ~Reaps(u, d)' /\ ~Forking(u, d)'
      BY <2>0, <3>1, <3>5 DEF Custody, InList, Moving, Reaps, Forking
    <3> QED
      BY <2>0, <3>1, <3>2, <3>3, <3>4, <3>6 DEF Custody
  <2>2. CASE ~(d = c)
    <3>a. proc'[d].life = proc[d].life
      BY <1>2, <2>2 DEF StepFork
    <3>b. \A q \in Procs : InList(q, d)' => InList(q, d)
      BY <1>2, <2>2 DEF StepFork, InList
    <3>c. /\ Moving(t, d)' => Moving(t, d)
          /\ Reaps(t, d)' => Reaps(t, d)
          /\ Forking(t, d)' => Forking(t, d)
      BY <1>0, <1>2, <2>2
      DEF StepFork, Moving, Reaps, Forking, Ctl, ForkLabels, WaitLabels, ExitLabels,
          ReapCtl
    <3>d. ASSUME NEW u \in Tasks, u # t
         PROVE  /\ Moving(u, d)' => Moving(u, d)
                /\ Reaps(u, d)' => Reaps(u, d)
                /\ Forking(u, d)' => Forking(u, d)
      BY <1>2, <3>d DEF StepFork, Moving, Reaps, Forking
    <3> QED
      BY <1>0, <3>a, <3>b, <3>c, <3>d, CustodyFrame
  <2> QED
    BY <2>1, <2>2
<1>3. ASSUME StepPush(t)
      PROVE  \A d \in Procs : Custody(d)'
  <2> SUFFICES ASSUME NEW d \in Procs
               PROVE  Custody(d)'
    OBVIOUS
  <2>0. Custody(d)
    BY <1>0
  <2>1. CASE d = loc[t].of
    <3>1. Forking(t, d)
      BY <1>0, <1>3, <2>1 DEF StepPush, InList, Moving, Reaps, Forking, Ctl, ForkLabels
    <3>2. proc'[d].life = "live"
      BY <1>3, <2>1 DEF StepPush
    <3>3. ~Moving(t, d)' /\ ~Reaps(t, d)' /\ ~Forking(t, d)'
      BY <1>0, <1>3, <2>1, <2>0, <3>1
      DEF StepPush, Moving, Reaps, Forking, Custody, Ctl, ReapCtl
    <3>4. \A q \in Procs : InList(q, d)' => q = ProcOf[t]
      BY <1>0, <1>3, <2>0, <2>1, <3>1 DEF StepPush, InList, Custody, Moving, Reaps, Forking
    <3>5. ASSUME NEW u \in Tasks, u # t
         PROVE  /\ Moving(u, d)' => Moving(u, d)
                /\ Reaps(u, d)' => Reaps(u, d)
                /\ Forking(u, d)' => Forking(u, d)
      BY <1>3, <3>5, HandsFrame DEF StepPush
    <3>6. \A u \in Tasks : u # t => ~Moving(u, d)' /\ ~Reaps(u, d)' /\ ~Forking(u, d)'
      BY <2>0, <3>1, <3>5 DEF Custody, InList, Moving, Reaps, Forking
    <3> QED
      BY <2>0, <3>1, <3>2, <3>3, <3>4, <3>6 DEF Custody
  <2>2. CASE ~(d = loc[t].of)
    <3>a. proc'[d].life = proc[d].life
      BY <1>3, <2>2 DEF StepPush
    <3>b. ASSUME NEW q \in Procs
         PROVE  InList(q, d)' => InList(q, d)
      <4>1. CASE q = ProcOf[t]
        <5>1. proc'[q].children = proc[q].children \cup {loc[t].of}
          BY <1>3, <4>1 DEF StepPush
        <5> QED
          BY <2>2, <5>1 DEF InList
      <4>2. CASE q # ProcOf[t]
        BY <1>3, <2>2, <4>2 DEF StepPush, InList
      <4> QED
        BY <4>1, <4>2
    <3>c. /\ Moving(t, d)' => Moving(t, d)
          /\ Reaps(t, d)' => Reaps(t, d)
          /\ Forking(t, d)' => Forking(t, d)
      BY <1>0, <1>3, <2>2
      DEF StepPush, Moving, Reaps, Forking, Ctl, ForkLabels, WaitLabels, ExitLabels,
          ReapCtl
    <3>d. ASSUME NEW u \in Tasks, u # t
         PROVE  /\ Moving(u, d)' => Moving(u, d)
                /\ Reaps(u, d)' => Reaps(u, d)
                /\ Forking(u, d)' => Forking(u, d)
      BY <1>3, <3>d, HandsFrame DEF StepPush
    <3> QED
      BY <1>0, <3>a, <3>b, <3>c, <3>d, CustodyFrame
  <2> QED
    BY <2>1, <2>2
<1>4. ASSUME StepPublish(t)
      PROVE  \A d \in Procs : Custody(d)'
  <2> SUFFICES ASSUME NEW d \in Procs
               PROVE  Custody(d)'
    OBVIOUS
  <2>a. proc'[d].life = proc[d].life
    BY <1>4 DEF StepPublish
  <2>b. \A q \in Procs : InList(q, d)' => InList(q, d)
    BY <1>4 DEF StepPublish, InList
  <2>c. /\ Moving(t, d)' => Moving(t, d)
        /\ Reaps(t, d)' => Reaps(t, d)
        /\ Forking(t, d)' => Forking(t, d)
    BY <1>0, <1>4
    DEF StepPublish, Moving, Reaps, Forking, Ctl, ForkLabels, WaitLabels, ExitLabels,
        ReapCtl
  <2>d. ASSUME NEW u \in Tasks, u # t
       PROVE  /\ Moving(u, d)' => Moving(u, d)
              /\ Reaps(u, d)' => Reaps(u, d)
              /\ Forking(u, d)' => Forking(u, d)
    BY <1>4, <2>d, HandsFrame DEF StepPublish
  <2> QED
    BY <1>0, <2>a, <2>b, <2>c, <2>d, CustodyFrame
<1>5. ASSUME StepStart(t)
      PROVE  \A d \in Procs : Custody(d)'
  <2> SUFFICES ASSUME NEW d \in Procs
               PROVE  Custody(d)'
    OBVIOUS
  <2>a. proc'[d].life = proc[d].life
    BY <1>5 DEF StepStart
  <2>b. \A q \in Procs : InList(q, d)' => InList(q, d)
    BY <1>5 DEF StepStart, InList
  <2>c. /\ Moving(t, d)' => Moving(t, d)
        /\ Reaps(t, d)' => Reaps(t, d)
        /\ Forking(t, d)' => Forking(t, d)
    BY <1>0, <1>5
    DEF StepStart, Moving, Reaps, Forking, Ctl, ForkLabels, WaitLabels, ExitLabels,
        ReapCtl, AfterReturn
  <2>d. ASSUME NEW u \in Tasks, u # t
       PROVE  /\ Moving(u, d)' => Moving(u, d)
              /\ Reaps(u, d)' => Reaps(u, d)
              /\ Forking(u, d)' => Forking(u, d)
    BY <1>5, <2>d, HandsFrame DEF StepStart
  <2> QED
    BY <1>0, <2>a, <2>b, <2>c, <2>d, CustodyFrame
<1>6. ASSUME StepVforkBlock(t)
      PROVE  \A d \in Procs : Custody(d)'
  <2> SUFFICES ASSUME NEW d \in Procs
               PROVE  Custody(d)'
    OBVIOUS
  <2>a. proc'[d].life = proc[d].life
    BY <1>6 DEF StepVforkBlock
  <2>b. \A q \in Procs : InList(q, d)' => InList(q, d)
    BY <1>6 DEF StepVforkBlock, InList
  <2>c. /\ Moving(t, d)' => Moving(t, d)
        /\ Reaps(t, d)' => Reaps(t, d)
        /\ Forking(t, d)' => Forking(t, d)
    BY <1>0, <1>6
    DEF StepVforkBlock, Moving, Reaps, Forking, Ctl, ForkLabels, WaitLabels, ExitLabels,
        ReapCtl
  <2>d. ASSUME NEW u \in Tasks, u # t
       PROVE  /\ Moving(u, d)' => Moving(u, d)
              /\ Reaps(u, d)' => Reaps(u, d)
              /\ Forking(u, d)' => Forking(u, d)
    BY <1>6, <2>d, HandsFrame DEF StepVforkBlock
  <2> QED
    BY <1>0, <2>a, <2>b, <2>c, <2>d, CustodyFrame
<1>7. ASSUME StepExec(t)
      PROVE  \A d \in Procs : Custody(d)'
  <2> SUFFICES ASSUME NEW d \in Procs
               PROVE  Custody(d)'
    OBVIOUS
  <2>a. proc'[d].life = proc[d].life
    BY <1>7 DEF StepExec
  <2>b. \A q \in Procs : InList(q, d)' => InList(q, d)
    BY <1>7 DEF StepExec, InList
  <2>c. /\ Moving(t, d)' => Moving(t, d)
        /\ Reaps(t, d)' => Reaps(t, d)
        /\ Forking(t, d)' => Forking(t, d)
    BY <1>0, <1>7
    DEF StepExec, Moving, Reaps, Forking, Ctl, ForkLabels, WaitLabels, ExitLabels,
        ReapCtl, AfterReturn
  <2>d. ASSUME NEW u \in Tasks, u # t
       PROVE  /\ Moving(u, d)' => Moving(u, d)
              /\ Reaps(u, d)' => Reaps(u, d)
              /\ Forking(u, d)' => Forking(u, d)
    BY <1>7, <2>d, HandsFrame DEF StepExec
  <2> QED
    BY <1>0, <2>a, <2>b, <2>c, <2>d, CustodyFrame
<1>8. ASSUME StepVforkClear(t)
      PROVE  \A d \in Procs : Custody(d)'
  <2> SUFFICES ASSUME NEW d \in Procs
               PROVE  Custody(d)'
    OBVIOUS
  <2>a. proc'[d].life = proc[d].life
    BY <1>8 DEF StepVforkClear
  <2>b. \A q \in Procs : InList(q, d)' => InList(q, d)
    BY <1>8 DEF StepVforkClear, InList
  <2>c. /\ Moving(t, d)' => Moving(t, d)
        /\ Reaps(t, d)' => Reaps(t, d)
        /\ Forking(t, d)' => Forking(t, d)
    BY <1>0, <1>8
    DEF StepVforkClear, Moving, Reaps, Forking, Ctl, ForkLabels, WaitLabels, ExitLabels,
        ReapCtl, AfterVfork, AfterReturn
  <2>d. ASSUME NEW u \in Tasks, u # t
       PROVE  /\ Moving(u, d)' => Moving(u, d)
              /\ Reaps(u, d)' => Reaps(u, d)
              /\ Forking(u, d)' => Forking(u, d)
    BY <1>8, <2>d, HandsFrame DEF StepVforkClear
  <2> QED
    BY <1>0, <2>a, <2>b, <2>c, <2>d, CustodyFrame
<1>9. ASSUME StepVforkWake(t)
      PROVE  \A d \in Procs : Custody(d)'
  <2> SUFFICES ASSUME NEW d \in Procs
               PROVE  Custody(d)'
    OBVIOUS
  <2>a. proc'[d].life = proc[d].life
    BY <1>9 DEF StepVforkWake
  <2>b. \A q \in Procs : InList(q, d)' => InList(q, d)
    BY <1>9 DEF StepVforkWake, InList
  <2>c. /\ Moving(t, d)' => Moving(t, d)
        /\ Reaps(t, d)' => Reaps(t, d)
        /\ Forking(t, d)' => Forking(t, d)
    BY <1>0, <1>9
    DEF StepVforkWake, Moving, Reaps, Forking, Ctl, ForkLabels, WaitLabels, ExitLabels,
        ReapCtl, AfterVfork, AfterReturn
  <2>d. ASSUME NEW u \in Tasks, u # t
       PROVE  /\ Moving(u, d)' => Moving(u, d)
              /\ Reaps(u, d)' => Reaps(u, d)
              /\ Forking(u, d)' => Forking(u, d)
    BY <1>9, <2>d, HandsFrame DEF StepVforkWake
  <2> QED
    BY <1>0, <2>a, <2>b, <2>c, <2>d, CustodyFrame
<1>10. ASSUME StepTake(t)
      PROVE  \A d \in Procs : Custody(d)'
  <2> SUFFICES ASSUME NEW d \in Procs
               PROVE  Custody(d)'
    OBVIOUS
  <2>0. Custody(d)
    BY <1>0
  <2>1. CASE d \in proc[loc[t].of].children
    <3>1. loc[t].of \in Procs /\ InList(loc[t].of, d)
      BY <1>0, <1>10, <2>1 DEF StepTake, InList, Moving, Reaps, Forking, Ctl, ForkLabels
    <3>2. proc'[d].life = proc[d].life
      BY <1>10, <2>1 DEF StepTake
    <3>3. ~Reaps(t, d)' /\ ~Forking(t, d)'
      BY <1>0, <1>10, <2>1, <2>0, <3>1
      DEF StepTake, Moving, Reaps, Forking, Custody, Ctl, ReapCtl
    <3>4. \A q \in Procs : ~InList(q, d)'
      BY <1>0, <1>10, <2>0, <2>1, <3>1 DEF StepTake, InList, Custody, Moving, Reaps, Forking
    <3>5. ASSUME NEW u \in Tasks, u # t
         PROVE  /\ Moving(u, d)' => Moving(u, d)
                /\ Reaps(u, d)' => Reaps(u, d)
                /\ Forking(u, d)' => Forking(u, d)
      BY <1>10, <3>5, HandsFrame DEF StepTake
    <3>6. \A u \in Tasks : u # t => ~Moving(u, d)' /\ ~Reaps(u, d)' /\ ~Forking(u, d)'
      BY <2>0, <3>1, <3>5 DEF Custody, InList, Moving, Reaps, Forking
    <3> QED
      BY <2>0, <3>1, <3>2, <3>3, <3>4, <3>6 DEF Custody
  <2>2. CASE ~(d \in proc[loc[t].of].children)
    <3>a. proc'[d].life = proc[d].life
      BY <1>10, <2>2 DEF StepTake
    <3>b. \A q \in Procs : InList(q, d)' => InList(q, d)
      BY <1>10, <2>2 DEF StepTake, InList
    <3>c. /\ Moving(t, d)' => Moving(t, d)
          /\ Reaps(t, d)' => Reaps(t, d)
          /\ Forking(t, d)' => Forking(t, d)
      BY <1>0, <1>10, <2>2
      DEF StepTake, Moving, Reaps, Forking, Ctl, ForkLabels, WaitLabels, ExitLabels,
          ReapCtl
    <3>d. ASSUME NEW u \in Tasks, u # t
         PROVE  /\ Moving(u, d)' => Moving(u, d)
                /\ Reaps(u, d)' => Reaps(u, d)
                /\ Forking(u, d)' => Forking(u, d)
      BY <1>10, <3>d, HandsFrame DEF StepTake
    <3> QED
      BY <1>0, <3>a, <3>b, <3>c, <3>d, CustodyFrame
  <2> QED
    BY <2>1, <2>2
<1>11. ASSUME NEW c \in Procs, StepEach(t, c)
      PROVE  \A d \in Procs : Custody(d)'
  <2> SUFFICES ASSUME NEW d \in Procs
               PROVE  Custody(d)'
    OBVIOUS
  <2>a. proc'[d].life = proc[d].life
    BY <1>11 DEF StepEach
  <2>b. \A q \in Procs : InList(q, d)' => InList(q, d)
    BY <1>11 DEF StepEach, InList
  <2>c. /\ Moving(t, d)' => Moving(t, d)
        /\ Reaps(t, d)' => Reaps(t, d)
        /\ Forking(t, d)' => Forking(t, d)
    BY <1>0, <1>11
    DEF StepEach, Moving, Reaps, Forking, Ctl, ForkLabels, WaitLabels, ExitLabels,
        ReapCtl
  <2>d. ASSUME NEW u \in Tasks, u # t
       PROVE  /\ Moving(u, d)' => Moving(u, d)
              /\ Reaps(u, d)' => Reaps(u, d)
              /\ Forking(u, d)' => Forking(u, d)
    BY <1>11, <2>d, HandsFrame DEF StepEach
  <2> QED
    BY <1>0, <2>a, <2>b, <2>c, <2>d, CustodyFrame
<1>12. ASSUME StepGive(t)
      PROVE  \A d \in Procs : Custody(d)'
  <2> SUFFICES ASSUME NEW d \in Procs
               PROVE  Custody(d)'
    OBVIOUS
  <2>0. Custody(d)
    BY <1>0
  <2>1. CASE d \in loc[t].moved
    <3>1. Moving(t, d)
      BY <1>0, <1>12, <2>1 DEF StepGive, InList, Moving, Reaps, Forking, Ctl, ForkLabels
    <3>2. proc'[d].life = proc[d].life
      BY <1>12, <2>1 DEF StepGive
    <3>3. ~Moving(t, d)' /\ ~Reaps(t, d)' /\ ~Forking(t, d)'
      BY <1>0, <1>12, <2>1, <2>0, <3>1
      DEF StepGive, Moving, Reaps, Forking, Custody, Ctl, ReapCtl, AfterReparent,
          AfterAdoption
    <3>4. \A q \in Procs : InList(q, d)' => q = InitProc
      BY <1>0, <1>12, <2>0, <2>1, <3>1 DEF StepGive, InList, Custody, Moving, Reaps, Forking
    <3>5. ASSUME NEW u \in Tasks, u # t
         PROVE  /\ Moving(u, d)' => Moving(u, d)
                /\ Reaps(u, d)' => Reaps(u, d)
                /\ Forking(u, d)' => Forking(u, d)
      BY <1>12, <3>5, HandsFrame DEF StepGive
    <3>6. \A u \in Tasks : u # t => ~Moving(u, d)' /\ ~Reaps(u, d)' /\ ~Forking(u, d)'
      BY <2>0, <3>1, <3>5 DEF Custody, InList, Moving, Reaps, Forking
    <3> QED
      BY <2>0, <3>1, <3>2, <3>3, <3>4, <3>6 DEF Custody
  <2>2. CASE ~(d \in loc[t].moved)
    <3>a. proc'[d].life = proc[d].life
      BY <1>12, <2>2 DEF StepGive
    <3>b. \A q \in Procs : InList(q, d)' => InList(q, d)
      BY <1>12, <2>2 DEF StepGive, InList
    <3>c. /\ Moving(t, d)' => Moving(t, d)
          /\ Reaps(t, d)' => Reaps(t, d)
          /\ Forking(t, d)' => Forking(t, d)
      BY <1>0, <1>12, <2>2
      DEF StepGive, Moving, Reaps, Forking, Ctl, ForkLabels, WaitLabels, ExitLabels,
          ReapCtl, AfterReparent, AfterAdoption
    <3>d. ASSUME NEW u \in Tasks, u # t
         PROVE  /\ Moving(u, d)' => Moving(u, d)
                /\ Reaps(u, d)' => Reaps(u, d)
                /\ Forking(u, d)' => Forking(u, d)
      BY <1>12, <3>d, HandsFrame DEF StepGive
    <3> QED
      BY <1>0, <3>a, <3>b, <3>c, <3>d, CustodyFrame
  <2> QED
    BY <2>1, <2>2
<1>13. ASSUME StepInitPublish(t)
      PROVE  \A d \in Procs : Custody(d)'
  <2> SUFFICES ASSUME NEW d \in Procs
               PROVE  Custody(d)'
    OBVIOUS
  <2>a. proc'[d].life = proc[d].life
    BY <1>13 DEF StepInitPublish
  <2>b. \A q \in Procs : InList(q, d)' => InList(q, d)
    BY <1>13 DEF StepInitPublish, InList
  <2>c. /\ Moving(t, d)' => Moving(t, d)
        /\ Reaps(t, d)' => Reaps(t, d)
        /\ Forking(t, d)' => Forking(t, d)
    BY <1>0, <1>13
    DEF StepInitPublish, Moving, Reaps, Forking, Ctl, ForkLabels, WaitLabels,
        ExitLabels, ReapCtl
  <2>d. ASSUME NEW u \in Tasks, u # t
       PROVE  /\ Moving(u, d)' => Moving(u, d)
              /\ Reaps(u, d)' => Reaps(u, d)
              /\ Forking(u, d)' => Forking(u, d)
    BY <1>13, <2>d, HandsFrame DEF StepInitPublish
  <2> QED
    BY <1>0, <2>a, <2>b, <2>c, <2>d, CustodyFrame
<1>14. ASSUME NEW w \in SomeTask, StepInitWake(t, w)
      PROVE  \A d \in Procs : Custody(d)'
  <2> SUFFICES ASSUME NEW d \in Procs
               PROVE  Custody(d)'
    OBVIOUS
  <2>a. proc'[d].life = proc[d].life
    BY <1>14 DEF StepInitWake
  <2>b. \A q \in Procs : InList(q, d)' => InList(q, d)
    BY <1>14 DEF StepInitWake, InList
  <2>c. /\ Moving(t, d)' => Moving(t, d)
        /\ Reaps(t, d)' => Reaps(t, d)
        /\ Forking(t, d)' => Forking(t, d)
    BY <1>0, <1>14
    DEF StepInitWake, Moving, Reaps, Forking, Ctl, ForkLabels, WaitLabels, ExitLabels,
        ReapCtl, AfterAdoption, Asleep, SomeTask
  <2>d. ASSUME NEW u \in Tasks, u # t
       PROVE  /\ Moving(u, d)' => Moving(u, d)
              /\ Reaps(u, d)' => Reaps(u, d)
              /\ Forking(u, d)' => Forking(u, d)
    BY <1>14, <2>d, HandsFrame DEF StepInitWake, SomeTask
  <2> QED
    BY <1>0, <2>a, <2>b, <2>c, <2>d, CustodyFrame
<1>15. ASSUME StepWaitSeq(t)
      PROVE  \A d \in Procs : Custody(d)'
  <2> SUFFICES ASSUME NEW d \in Procs
               PROVE  Custody(d)'
    OBVIOUS
  <2>a. proc'[d].life = proc[d].life
    BY <1>15 DEF StepWaitSeq
  <2>b. \A q \in Procs : InList(q, d)' => InList(q, d)
    BY <1>15 DEF StepWaitSeq, InList
  <2>c. /\ Moving(t, d)' => Moving(t, d)
        /\ Reaps(t, d)' => Reaps(t, d)
        /\ Forking(t, d)' => Forking(t, d)
    BY <1>0, <1>15
    DEF StepWaitSeq, Moving, Reaps, Forking, Ctl, ForkLabels, WaitLabels, ExitLabels,
        ReapCtl
  <2>d. ASSUME NEW u \in Tasks, u # t
       PROVE  /\ Moving(u, d)' => Moving(u, d)
              /\ Reaps(u, d)' => Reaps(u, d)
              /\ Forking(u, d)' => Forking(u, d)
    BY <1>15, <2>d, HandsFrame DEF StepWaitSeq
  <2> QED
    BY <1>0, <2>a, <2>b, <2>c, <2>d, CustodyFrame
<1>16. ASSUME StepWaitList(t)
      PROVE  \A d \in Procs : Custody(d)'
  <2> SUFFICES ASSUME NEW d \in Procs
               PROVE  Custody(d)'
    OBVIOUS
  <2>a. proc'[d].life = proc[d].life
    BY <1>16 DEF StepWaitList
  <2>b. \A q \in Procs : InList(q, d)' => InList(q, d)
    BY <1>16 DEF StepWaitList, InList
  <2>c. /\ Moving(t, d)' => Moving(t, d)
        /\ Reaps(t, d)' => Reaps(t, d)
        /\ Forking(t, d)' => Forking(t, d)
    BY <1>0, <1>16
    DEF StepWaitList, Moving, Reaps, Forking, Ctl, ForkLabels, WaitLabels, ExitLabels,
        ReapCtl
  <2>d. ASSUME NEW u \in Tasks, u # t
       PROVE  /\ Moving(u, d)' => Moving(u, d)
              /\ Reaps(u, d)' => Reaps(u, d)
              /\ Forking(u, d)' => Forking(u, d)
    BY <1>16, <2>d, HandsFrame DEF StepWaitList
  <2> QED
    BY <1>0, <2>a, <2>b, <2>c, <2>d, CustodyFrame
<1>17. ASSUME NEW c \in Procs, StepFound(t, c)
      PROVE  \A d \in Procs : Custody(d)'
  <2> SUFFICES ASSUME NEW d \in Procs
               PROVE  Custody(d)'
    OBVIOUS
  <2>a. proc'[d].life = proc[d].life
    BY <1>17 DEF StepFound
  <2>b. \A q \in Procs : InList(q, d)' => InList(q, d)
    BY <1>17 DEF StepFound, InList
  <2>c. /\ Moving(t, d)' => Moving(t, d)
        /\ Reaps(t, d)' => Reaps(t, d)
        /\ Forking(t, d)' => Forking(t, d)
    BY <1>0, <1>17
    DEF StepFound, Moving, Reaps, Forking, Ctl, ForkLabels, WaitLabels, ExitLabels,
        ReapCtl
  <2>d. ASSUME NEW u \in Tasks, u # t
       PROVE  /\ Moving(u, d)' => Moving(u, d)
              /\ Reaps(u, d)' => Reaps(u, d)
              /\ Forking(u, d)' => Forking(u, d)
    BY <1>17, <2>d, HandsFrame DEF StepFound
  <2> QED
    BY <1>0, <2>a, <2>b, <2>c, <2>d, CustodyFrame
<1>18. ASSUME NEW c \in Procs, StepPass(t, c)
      PROVE  \A d \in Procs : Custody(d)'
  <2> SUFFICES ASSUME NEW d \in Procs
               PROVE  Custody(d)'
    OBVIOUS
  <2>a. proc'[d].life = proc[d].life
    BY <1>18 DEF StepPass
  <2>b. \A q \in Procs : InList(q, d)' => InList(q, d)
    BY <1>18 DEF StepPass, InList
  <2>c. /\ Moving(t, d)' => Moving(t, d)
        /\ Reaps(t, d)' => Reaps(t, d)
        /\ Forking(t, d)' => Forking(t, d)
    BY <1>0, <1>18
    DEF StepPass, Moving, Reaps, Forking, Ctl, ForkLabels, WaitLabels, ExitLabels,
        ReapCtl
  <2>d. ASSUME NEW u \in Tasks, u # t
       PROVE  /\ Moving(u, d)' => Moving(u, d)
              /\ Reaps(u, d)' => Reaps(u, d)
              /\ Forking(u, d)' => Forking(u, d)
    BY <1>18, <2>d, HandsFrame DEF StepPass
  <2> QED
    BY <1>0, <2>a, <2>b, <2>c, <2>d, CustodyFrame
<1>19. ASSUME StepAgain(t)
      PROVE  \A d \in Procs : Custody(d)'
  <2> SUFFICES ASSUME NEW d \in Procs
               PROVE  Custody(d)'
    OBVIOUS
  <2>a. proc'[d].life = proc[d].life
    BY <1>19 DEF StepAgain
  <2>b. \A q \in Procs : InList(q, d)' => InList(q, d)
    BY <1>19 DEF StepAgain, InList
  <2>c. /\ Moving(t, d)' => Moving(t, d)
        /\ Reaps(t, d)' => Reaps(t, d)
        /\ Forking(t, d)' => Forking(t, d)
    BY <1>0, <1>19
    DEF StepAgain, Moving, Reaps, Forking, Ctl, ForkLabels, WaitLabels, ExitLabels,
        ReapCtl
  <2>d. ASSUME NEW u \in Tasks, u # t
       PROVE  /\ Moving(u, d)' => Moving(u, d)
              /\ Reaps(u, d)' => Reaps(u, d)
              /\ Forking(u, d)' => Forking(u, d)
    BY <1>19, <2>d, HandsFrame DEF StepAgain
  <2> QED
    BY <1>0, <2>a, <2>b, <2>c, <2>d, CustodyFrame
<1>20. ASSUME StepWaitBlock(t)
      PROVE  \A d \in Procs : Custody(d)'
  <2> SUFFICES ASSUME NEW d \in Procs
               PROVE  Custody(d)'
    OBVIOUS
  <2>a. proc'[d].life = proc[d].life
    BY <1>20 DEF StepWaitBlock
  <2>b. \A q \in Procs : InList(q, d)' => InList(q, d)
    BY <1>20 DEF StepWaitBlock, InList
  <2>c. /\ Moving(t, d)' => Moving(t, d)
        /\ Reaps(t, d)' => Reaps(t, d)
        /\ Forking(t, d)' => Forking(t, d)
    BY <1>0, <1>20
    DEF StepWaitBlock, Moving, Reaps, Forking, Ctl, ForkLabels, WaitLabels, ExitLabels,
        ReapCtl
  <2>d. ASSUME NEW u \in Tasks, u # t
       PROVE  /\ Moving(u, d)' => Moving(u, d)
              /\ Reaps(u, d)' => Reaps(u, d)
              /\ Forking(u, d)' => Forking(u, d)
    BY <1>20, <2>d, HandsFrame DEF StepWaitBlock
  <2> QED
    BY <1>0, <2>a, <2>b, <2>c, <2>d, CustodyFrame
<1>21. ASSUME StepWin(t)
      PROVE  \A d \in Procs : Custody(d)'
  <2> SUFFICES ASSUME NEW d \in Procs
               PROVE  Custody(d)'
    OBVIOUS
  <2>0. Custody(d)
    BY <1>0
  <2>1. CASE d = loc[t].of
    <3>1. InList(ProcOf[t], d)
      BY <1>0, <1>21, <2>1 DEF StepWin, InList, Moving, Reaps, Forking, Ctl, ForkLabels
    <3>2. proc'[d].life = proc[d].life
      BY <1>21, <2>1 DEF StepWin
    <3>3. ~Moving(t, d)' /\ ~Forking(t, d)'
      BY <1>0, <1>21, <2>1, <2>0, <3>1
      DEF StepWin, Moving, Reaps, Forking, Custody, Ctl, ReapCtl
    <3>4. \A q \in Procs : ~InList(q, d)'
      BY <1>0, <1>21, <2>0, <2>1, <3>1 DEF StepWin, InList, Custody, Moving, Reaps, Forking
    <3>5. ASSUME NEW u \in Tasks, u # t
         PROVE  /\ Moving(u, d)' => Moving(u, d)
                /\ Reaps(u, d)' => Reaps(u, d)
                /\ Forking(u, d)' => Forking(u, d)
      BY <1>21, <3>5, HandsFrame DEF StepWin
    <3>6. \A u \in Tasks : u # t => ~Moving(u, d)' /\ ~Reaps(u, d)' /\ ~Forking(u, d)'
      BY <2>0, <3>1, <3>5 DEF Custody, InList, Moving, Reaps, Forking
    <3> QED
      BY <2>0, <3>1, <3>2, <3>3, <3>4, <3>6 DEF Custody
  <2>2. CASE ~(d = loc[t].of)
    <3>a. proc'[d].life = proc[d].life
      BY <1>21, <2>2 DEF StepWin
    <3>b. \A q \in Procs : InList(q, d)' => InList(q, d)
      BY <1>21, <2>2 DEF StepWin, InList
    <3>c. /\ Moving(t, d)' => Moving(t, d)
          /\ Reaps(t, d)' => Reaps(t, d)
          /\ Forking(t, d)' => Forking(t, d)
      BY <1>0, <1>21, <2>2
      DEF StepWin, Moving, Reaps, Forking, Ctl, ForkLabels, WaitLabels, ExitLabels,
          ReapCtl
    <3>d. ASSUME NEW u \in Tasks, u # t
         PROVE  /\ Moving(u, d)' => Moving(u, d)
                /\ Reaps(u, d)' => Reaps(u, d)
                /\ Forking(u, d)' => Forking(u, d)
      BY <1>21, <3>d, HandsFrame DEF StepWin
    <3> QED
      BY <1>0, <3>a, <3>b, <3>c, <3>d, CustodyFrame
  <2> QED
    BY <2>1, <2>2
<1>22. ASSUME StepLose(t)
      PROVE  \A d \in Procs : Custody(d)'
  <2> SUFFICES ASSUME NEW d \in Procs
               PROVE  Custody(d)'
    OBVIOUS
  <2>a. proc'[d].life = proc[d].life
    BY <1>22 DEF StepLose
  <2>b. \A q \in Procs : InList(q, d)' => InList(q, d)
    BY <1>22 DEF StepLose, InList
  <2>c. /\ Moving(t, d)' => Moving(t, d)
        /\ Reaps(t, d)' => Reaps(t, d)
        /\ Forking(t, d)' => Forking(t, d)
    BY <1>0, <1>22
    DEF StepLose, Moving, Reaps, Forking, Ctl, ForkLabels, WaitLabels, ExitLabels,
        ReapCtl
  <2>d. ASSUME NEW u \in Tasks, u # t
       PROVE  /\ Moving(u, d)' => Moving(u, d)
              /\ Reaps(u, d)' => Reaps(u, d)
              /\ Forking(u, d)' => Forking(u, d)
    BY <1>22, <2>d, HandsFrame DEF StepLose
  <2> QED
    BY <1>0, <2>a, <2>b, <2>c, <2>d, CustodyFrame
<1>23. ASSUME StepFree(t)
      PROVE  \A d \in Procs : Custody(d)'
  <2> SUFFICES ASSUME NEW d \in Procs
               PROVE  Custody(d)'
    OBVIOUS
  <2>0. Custody(d)
    BY <1>0
  <2>1. CASE d = loc[t].of
    <3>1. Reaps(t, d)
      BY <1>0, <1>23, <2>1 DEF StepFree, InList, Moving, Reaps, Forking, Ctl, ForkLabels
    <3>2. proc'[d].life = "reaped"
      BY <1>23, <2>1 DEF StepFree
    <3>3. ~Moving(t, d)' /\ ~Reaps(t, d)' /\ ~Forking(t, d)'
      BY <1>0, <1>23, <2>1, <2>0, <3>1
      DEF StepFree, Moving, Reaps, Forking, Custody, Ctl, ReapCtl, AfterReturn
    <3>4. \A q \in Procs : ~InList(q, d)'
      BY <1>0, <1>23, <2>0, <2>1, <3>1 DEF StepFree, InList, Custody, Moving, Reaps, Forking
    <3>5. ASSUME NEW u \in Tasks, u # t
         PROVE  /\ Moving(u, d)' => Moving(u, d)
                /\ Reaps(u, d)' => Reaps(u, d)
                /\ Forking(u, d)' => Forking(u, d)
      BY <1>23, <3>5, HandsFrame DEF StepFree
    <3>6. \A u \in Tasks : u # t => ~Moving(u, d)' /\ ~Reaps(u, d)' /\ ~Forking(u, d)'
      BY <2>0, <3>1, <3>5 DEF Custody, InList, Moving, Reaps, Forking
    <3> QED
      BY <2>0, <3>1, <3>2, <3>3, <3>4, <3>6 DEF Custody
  <2>2. CASE ~(d = loc[t].of)
    <3>a. proc'[d].life = proc[d].life
      BY <1>23, <2>2 DEF StepFree
    <3>b. \A q \in Procs : InList(q, d)' => InList(q, d)
      BY <1>23, <2>2 DEF StepFree, InList
    <3>c. /\ Moving(t, d)' => Moving(t, d)
          /\ Reaps(t, d)' => Reaps(t, d)
          /\ Forking(t, d)' => Forking(t, d)
      BY <1>0, <1>23, <2>2
      DEF StepFree, Moving, Reaps, Forking, Ctl, ForkLabels, WaitLabels, ExitLabels,
          ReapCtl, AfterReturn
    <3>d. ASSUME NEW u \in Tasks, u # t
         PROVE  /\ Moving(u, d)' => Moving(u, d)
                /\ Reaps(u, d)' => Reaps(u, d)
                /\ Forking(u, d)' => Forking(u, d)
      BY <1>23, <3>d, HandsFrame DEF StepFree
    <3> QED
      BY <1>0, <3>a, <3>b, <3>c, <3>d, CustodyFrame
  <2> QED
    BY <2>1, <2>2
<1>24. ASSUME StepCount(t)
      PROVE  \A d \in Procs : Custody(d)'
  <2> SUFFICES ASSUME NEW d \in Procs
               PROVE  Custody(d)'
    OBVIOUS
  <2>a. proc'[d].life = proc[d].life
    BY <1>24 DEF StepCount
  <2>b. \A q \in Procs : InList(q, d)' => InList(q, d)
    BY <1>24 DEF StepCount, InList
  <2>c. /\ Moving(t, d)' => Moving(t, d)
        /\ Reaps(t, d)' => Reaps(t, d)
        /\ Forking(t, d)' => Forking(t, d)
    BY <1>0, <1>24
    DEF StepCount, Moving, Reaps, Forking, Ctl, ForkLabels, WaitLabels, ExitLabels,
        ReapCtl
  <2>d. ASSUME NEW u \in Tasks, u # t
       PROVE  /\ Moving(u, d)' => Moving(u, d)
              /\ Reaps(u, d)' => Reaps(u, d)
              /\ Forking(u, d)' => Forking(u, d)
    BY <1>24, <2>d, HandsFrame DEF StepCount
  <2> QED
    BY <1>0, <2>a, <2>b, <2>c, <2>d, CustodyFrame
<1>25. ASSUME StepDetach(t)
      PROVE  \A d \in Procs : Custody(d)'
  <2> SUFFICES ASSUME NEW d \in Procs
               PROVE  Custody(d)'
    OBVIOUS
  <2>a. proc'[d].life = proc[d].life
    BY <1>25 DEF StepDetach
  <2>b. \A q \in Procs : InList(q, d)' => InList(q, d)
    BY <1>25 DEF StepDetach, InList
  <2>c. /\ Moving(t, d)' => Moving(t, d)
        /\ Reaps(t, d)' => Reaps(t, d)
        /\ Forking(t, d)' => Forking(t, d)
    BY <1>0, <1>25
    DEF StepDetach, Moving, Reaps, Forking, Ctl, ForkLabels, WaitLabels, ExitLabels,
        ReapCtl
  <2>d. ASSUME NEW u \in Tasks, u # t
       PROVE  /\ Moving(u, d)' => Moving(u, d)
              /\ Reaps(u, d)' => Reaps(u, d)
              /\ Forking(u, d)' => Forking(u, d)
    BY <1>25, <2>d, HandsFrame DEF StepDetach
  <2> QED
    BY <1>0, <2>a, <2>b, <2>c, <2>d, CustodyFrame
<1>26. ASSUME StepParent(t)
      PROVE  \A d \in Procs : Custody(d)'
  <2> SUFFICES ASSUME NEW d \in Procs
               PROVE  Custody(d)'
    OBVIOUS
  <2>a. proc'[d].life = proc[d].life
    BY <1>26 DEF StepParent
  <2>b. \A q \in Procs : InList(q, d)' => InList(q, d)
    BY <1>26 DEF StepParent, InList
  <2>c. /\ Moving(t, d)' => Moving(t, d)
        /\ Reaps(t, d)' => Reaps(t, d)
        /\ Forking(t, d)' => Forking(t, d)
    BY <1>0, <1>26
    DEF StepParent, Moving, Reaps, Forking, Ctl, ForkLabels, WaitLabels, ExitLabels,
        ReapCtl
  <2>d. ASSUME NEW u \in Tasks, u # t
       PROVE  /\ Moving(u, d)' => Moving(u, d)
              /\ Reaps(u, d)' => Reaps(u, d)
              /\ Forking(u, d)' => Forking(u, d)
    BY <1>26, <2>d, HandsFrame DEF StepParent
  <2> QED
    BY <1>0, <2>a, <2>b, <2>c, <2>d, CustodyFrame
<1>27. ASSUME StepDefer(t)
      PROVE  \A d \in Procs : Custody(d)'
  <2> SUFFICES ASSUME NEW d \in Procs
               PROVE  Custody(d)'
    OBVIOUS
  <2>a. proc'[d].life = proc[d].life
    BY <1>27 DEF StepDefer
  <2>b. \A q \in Procs : InList(q, d)' => InList(q, d)
    BY <1>27 DEF StepDefer, InList
  <2>c. /\ Moving(t, d)' => Moving(t, d)
        /\ Reaps(t, d)' => Reaps(t, d)
        /\ Forking(t, d)' => Forking(t, d)
    BY <1>0, <1>27
    DEF StepDefer, Moving, Reaps, Forking, Ctl, ForkLabels, WaitLabels, ExitLabels,
        ReapCtl
  <2>d. ASSUME NEW u \in Tasks, u # t
       PROVE  /\ Moving(u, d)' => Moving(u, d)
              /\ Reaps(u, d)' => Reaps(u, d)
              /\ Forking(u, d)' => Forking(u, d)
    BY <1>27, <2>d, HandsFrame DEF StepDefer
  <2> QED
    BY <1>0, <2>a, <2>b, <2>c, <2>d, CustodyFrame
<1>28. ASSUME StepSwitch(t)
      PROVE  \A d \in Procs : Custody(d)'
  <2> SUFFICES ASSUME NEW d \in Procs
               PROVE  Custody(d)'
    OBVIOUS
  <2>a. proc'[d].life = proc[d].life
    BY <1>28 DEF StepSwitch
  <2>b. \A q \in Procs : InList(q, d)' => InList(q, d)
    BY <1>28 DEF StepSwitch, InList
  <2>c. /\ Moving(t, d)' => Moving(t, d)
        /\ Reaps(t, d)' => Reaps(t, d)
        /\ Forking(t, d)' => Forking(t, d)
    BY <1>0, <1>28
    DEF StepSwitch, Moving, Reaps, Forking, Ctl, ForkLabels, WaitLabels, ExitLabels,
        ReapCtl
  <2>d. ASSUME NEW u \in Tasks, u # t
       PROVE  /\ Moving(u, d)' => Moving(u, d)
              /\ Reaps(u, d)' => Reaps(u, d)
              /\ Forking(u, d)' => Forking(u, d)
    BY <1>28, <2>d, HandsFrame DEF StepSwitch
  <2> QED
    BY <1>0, <2>a, <2>b, <2>c, <2>d, CustodyFrame
<1>29. ASSUME StepGroup(t)
      PROVE  \A d \in Procs : Custody(d)'
  <2> SUFFICES ASSUME NEW d \in Procs
               PROVE  Custody(d)'
    OBVIOUS
  <2>a. proc'[d].life = proc[d].life
    BY <1>29 DEF StepGroup
  <2>b. \A q \in Procs : InList(q, d)' => InList(q, d)
    BY <1>29 DEF StepGroup, InList
  <2>c. /\ Moving(t, d)' => Moving(t, d)
        /\ Reaps(t, d)' => Reaps(t, d)
        /\ Forking(t, d)' => Forking(t, d)
    BY <1>0, <1>29
    DEF StepGroup, Moving, Reaps, Forking, Ctl, ForkLabels, WaitLabels, ExitLabels,
        ReapCtl
  <2>d. ASSUME NEW u \in Tasks, u # t
       PROVE  /\ Moving(u, d)' => Moving(u, d)
              /\ Reaps(u, d)' => Reaps(u, d)
              /\ Forking(u, d)' => Forking(u, d)
    BY <1>29, <2>d, HandsFrame DEF StepGroup
  <2> QED
    BY <1>0, <2>a, <2>b, <2>c, <2>d, CustodyFrame
<1>30. ASSUME NEW k \in Procs, StepKill(t, k)
      PROVE  \A d \in Procs : Custody(d)'
  <2> SUFFICES ASSUME NEW d \in Procs
               PROVE  Custody(d)'
    OBVIOUS
  <2>a. proc'[d].life = proc[d].life
    BY <1>30 DEF StepKill
  <2>b. \A q \in Procs : InList(q, d)' => InList(q, d)
    BY <1>30 DEF StepKill, InList
  <2>c. /\ Moving(t, d)' => Moving(t, d)
        /\ Reaps(t, d)' => Reaps(t, d)
        /\ Forking(t, d)' => Forking(t, d)
    BY <1>0, <1>30
    DEF StepKill, Moving, Reaps, Forking, Ctl, ForkLabels, WaitLabels, ExitLabels,
        ReapCtl
  <2>d. ASSUME NEW u \in Tasks, u # t
       PROVE  /\ Moving(u, d)' => Moving(u, d)
              /\ Reaps(u, d)' => Reaps(u, d)
              /\ Forking(u, d)' => Forking(u, d)
    BY <1>30, <2>d, HandsFrame DEF StepKill
  <2> QED
    BY <1>0, <2>a, <2>b, <2>c, <2>d, CustodyFrame
<1>31. ASSUME NEW w \in Tasks, StepFlag(t, w)
      PROVE  \A d \in Procs : Custody(d)'
  <2> SUFFICES ASSUME NEW d \in Procs
               PROVE  Custody(d)'
    OBVIOUS
  <2>a. proc'[d].life = proc[d].life
    BY <1>31 DEF StepFlag
  <2>b. \A q \in Procs : InList(q, d)' => InList(q, d)
    BY <1>31 DEF StepFlag, InList
  <2>c. /\ Moving(t, d)' => Moving(t, d)
        /\ Reaps(t, d)' => Reaps(t, d)
        /\ Forking(t, d)' => Forking(t, d)
    BY <1>0, <1>31
    DEF StepFlag, Moving, Reaps, Forking, Ctl, ForkLabels, WaitLabels, ExitLabels,
        ReapCtl
  <2>d. ASSUME NEW u \in Tasks, u # t
       PROVE  /\ Moving(u, d)' => Moving(u, d)
              /\ Reaps(u, d)' => Reaps(u, d)
              /\ Forking(u, d)' => Forking(u, d)
    BY <1>31, <2>d, HandsFrame DEF StepFlag
  <2> QED
    BY <1>0, <2>a, <2>b, <2>c, <2>d, CustodyFrame
<1>32. ASSUME NEW w \in Tasks, StepFlagOnly(t, w)
      PROVE  \A d \in Procs : Custody(d)'
  <2> SUFFICES ASSUME NEW d \in Procs
               PROVE  Custody(d)'
    OBVIOUS
  <2>a. proc'[d].life = proc[d].life
    BY <1>32 DEF StepFlagOnly
  <2>b. \A q \in Procs : InList(q, d)' => InList(q, d)
    BY <1>32 DEF StepFlagOnly, InList
  <2>c. /\ Moving(t, d)' => Moving(t, d)
        /\ Reaps(t, d)' => Reaps(t, d)
        /\ Forking(t, d)' => Forking(t, d)
    BY <1>0, <1>32
    DEF StepFlagOnly, Moving, Reaps, Forking, Ctl, ForkLabels, WaitLabels, ExitLabels,
        ReapCtl
  <2>d. ASSUME NEW u \in Tasks, u # t
       PROVE  /\ Moving(u, d)' => Moving(u, d)
              /\ Reaps(u, d)' => Reaps(u, d)
              /\ Forking(u, d)' => Forking(u, d)
    BY <1>32, <2>d, HandsFrame DEF StepFlagOnly
  <2> QED
    BY <1>0, <2>a, <2>b, <2>c, <2>d, CustodyFrame
<1>33. ASSUME StepNotify(t)
      PROVE  \A d \in Procs : Custody(d)'
  <2> SUFFICES ASSUME NEW d \in Procs
               PROVE  Custody(d)'
    OBVIOUS
  <2>a. proc'[d].life = proc[d].life
    BY <1>33 DEF StepNotify
  <2>b. \A q \in Procs : InList(q, d)' => InList(q, d)
    BY <1>33 DEF StepNotify, InList
  <2>c. /\ Moving(t, d)' => Moving(t, d)
        /\ Reaps(t, d)' => Reaps(t, d)
        /\ Forking(t, d)' => Forking(t, d)
    BY <1>0, <1>33
    DEF StepNotify, Moving, Reaps, Forking, Ctl, ForkLabels, WaitLabels, ExitLabels,
        ReapCtl
  <2>d. ASSUME NEW u \in Tasks, u # t
       PROVE  /\ Moving(u, d)' => Moving(u, d)
              /\ Reaps(u, d)' => Reaps(u, d)
              /\ Forking(u, d)' => Forking(u, d)
    BY <1>33, <2>d, HandsFrame DEF StepNotify
  <2> QED
    BY <1>0, <2>a, <2>b, <2>c, <2>d, CustodyFrame
<1>34. ASSUME StepFinish(t)
      PROVE  \A d \in Procs : Custody(d)'
  <2> SUFFICES ASSUME NEW d \in Procs
               PROVE  Custody(d)'
    OBVIOUS
  <2>a. proc'[d].life = proc[d].life
    BY <1>34 DEF StepFinish
  <2>b. \A q \in Procs : InList(q, d)' => InList(q, d)
    BY <1>34 DEF StepFinish, InList
  <2>c. /\ Moving(t, d)' => Moving(t, d)
        /\ Reaps(t, d)' => Reaps(t, d)
        /\ Forking(t, d)' => Forking(t, d)
    BY <1>0, <1>34
    DEF StepFinish, Moving, Reaps, Forking, Ctl, ForkLabels, WaitLabels, ExitLabels,
        ReapCtl
  <2>d. ASSUME NEW u \in Tasks, u # t
       PROVE  /\ Moving(u, d)' => Moving(u, d)
              /\ Reaps(u, d)' => Reaps(u, d)
              /\ Forking(u, d)' => Forking(u, d)
    BY <1>34, <2>d, HandsFrame DEF StepFinish
  <2> QED
    BY <1>0, <2>a, <2>b, <2>c, <2>d, CustodyFrame
<1>35. ASSUME StepEvent(t)
      PROVE  \A d \in Procs : Custody(d)'
  <2> SUFFICES ASSUME NEW d \in Procs
               PROVE  Custody(d)'
    OBVIOUS
  <2>a. proc'[d].life = proc[d].life
    BY <1>35 DEF StepEvent
  <2>b. \A q \in Procs : InList(q, d)' => InList(q, d)
    BY <1>35 DEF StepEvent, InList
  <2>c. /\ Moving(t, d)' => Moving(t, d)
        /\ Reaps(t, d)' => Reaps(t, d)
        /\ Forking(t, d)' => Forking(t, d)
    BY <1>0, <1>35
    DEF StepEvent, Moving, Reaps, Forking, Ctl, ForkLabels, WaitLabels, ExitLabels,
        ReapCtl
  <2>d. ASSUME NEW u \in Tasks, u # t
       PROVE  /\ Moving(u, d)' => Moving(u, d)
              /\ Reaps(u, d)' => Reaps(u, d)
              /\ Forking(u, d)' => Forking(u, d)
    BY <1>35, <2>d, HandsFrame DEF StepEvent
  <2> QED
    BY <1>0, <2>a, <2>b, <2>c, <2>d, CustodyFrame
<1>36. ASSUME StepCollect(t)
      PROVE  \A d \in Procs : Custody(d)'
  <2> SUFFICES ASSUME NEW d \in Procs
               PROVE  Custody(d)'
    OBVIOUS
  <2>a. proc'[d].life = proc[d].life
    BY <1>36 DEF StepCollect
  <2>b. \A q \in Procs : InList(q, d)' => InList(q, d)
    BY <1>36 DEF StepCollect, InList
  <2>c. /\ Moving(t, d)' => Moving(t, d)
        /\ Reaps(t, d)' => Reaps(t, d)
        /\ Forking(t, d)' => Forking(t, d)
    BY <1>0, <1>36
    DEF StepCollect, Moving, Reaps, Forking, Ctl, ForkLabels, WaitLabels, ExitLabels,
        ReapCtl
  <2>d. ASSUME NEW u \in Tasks, u # t
       PROVE  /\ Moving(u, d)' => Moving(u, d)
              /\ Reaps(u, d)' => Reaps(u, d)
              /\ Forking(u, d)' => Forking(u, d)
    BY <1>36, <2>d, HandsFrame DEF StepCollect
  <2> QED
    BY <1>0, <2>a, <2>b, <2>c, <2>d, CustodyFrame
<1>37. ASSUME NEW w \in Tasks, StepWakeOne(t, w)
      PROVE  \A d \in Procs : Custody(d)'
  <2> SUFFICES ASSUME NEW d \in Procs
               PROVE  Custody(d)'
    OBVIOUS
  <2>a. proc'[d].life = proc[d].life
    BY <1>37 DEF StepWakeOne
  <2>b. \A q \in Procs : InList(q, d)' => InList(q, d)
    BY <1>37 DEF StepWakeOne, InList
  <2>c. /\ Moving(t, d)' => Moving(t, d)
        /\ Reaps(t, d)' => Reaps(t, d)
        /\ Forking(t, d)' => Forking(t, d)
    BY <1>0, <1>37
    DEF StepWakeOne, Moving, Reaps, Forking, Ctl, ForkLabels, WaitLabels, ExitLabels,
        ReapCtl
  <2>d. ASSUME NEW u \in Tasks, u # t
       PROVE  /\ Moving(u, d)' => Moving(u, d)
              /\ Reaps(u, d)' => Reaps(u, d)
              /\ Forking(u, d)' => Forking(u, d)
    BY <1>37, <2>d, HandsFrame DEF StepWakeOne
  <2> QED
    BY <1>0, <2>a, <2>b, <2>c, <2>d, CustodyFrame
<1>38. ASSUME StepWakesDone(t)
      PROVE  \A d \in Procs : Custody(d)'
  <2> SUFFICES ASSUME NEW d \in Procs
               PROVE  Custody(d)'
    OBVIOUS
  <2>a. proc'[d].life = proc[d].life
    BY <1>38 DEF StepWakesDone
  <2>b. \A q \in Procs : InList(q, d)' => InList(q, d)
    BY <1>38 DEF StepWakesDone, InList
  <2>c. /\ Moving(t, d)' => Moving(t, d)
        /\ Reaps(t, d)' => Reaps(t, d)
        /\ Forking(t, d)' => Forking(t, d)
    BY <1>0, <1>38
    DEF StepWakesDone, Moving, Reaps, Forking, Ctl, ForkLabels, WaitLabels, ExitLabels,
        ReapCtl
  <2>d. ASSUME NEW u \in Tasks, u # t
       PROVE  /\ Moving(u, d)' => Moving(u, d)
              /\ Reaps(u, d)' => Reaps(u, d)
              /\ Forking(u, d)' => Forking(u, d)
    BY <1>38, <2>d, HandsFrame DEF StepWakesDone
  <2> QED
    BY <1>0, <2>a, <2>b, <2>c, <2>d, CustodyFrame
<1> QED
  BY <1>1, <1>2, <1>3, <1>4, <1>5, <1>6, <1>7, <1>8, <1>9, <1>10, <1>11, <1>12, <1>13,
     <1>14, <1>15, <1>16, <1>17, <1>18, <1>19, <1>20, <1>21, <1>22, <1>23, <1>24, <1>25,
     <1>26, <1>27, <1>28, <1>29, <1>30, <1>31, <1>32, <1>33, <1>34, <1>35, <1>36, <1>37,
     <1>38
  DEF Step, CustodyInv

\* The state at first: init and its children are there, each thread in user code.
LEMMA InitFacts ==
  ASSUME Init
  PROVE  /\ \A t \in Tasks :
              /\ loc[t] = NoLocals /\ deferred[t] = NoEntry /\ vforkChild[t] = Nobody
              /\ pc[t] \in {"user", "unborn"}
              /\ pc[t] = "user" => proc[ProcOf[t]].life = "live" /\ t \in proc[ProcOf[t]].tasks
         /\ \A p \in Procs :
              /\ proc[p].life \in {"unborn", "live"} /\ ~proc[p].zombie /\ ~proc[p].pending
              /\ proc[p].vforkParent = Nobody /\ proc[p].seq = 0
              /\ proc[p].parent \in {Nobody, InitProc}
              /\ \A c \in proc[p].children :
                   p = InitProc /\ c # InitProc /\ proc[c].life = "live" /\ proc[c].parent = InitProc
              /\ proc[p].life = "live" => \E t \in ThreadsOf(p) : pc[t] = "user"
         /\ proc[InitProc].life = "live" /\ adopted = {}
<1> DEFINE live(s) == {ProcOf[x] : x \in s.start}
<1>1. PICK s \in Scenarios :
        /\ proc = [p \in Procs |->
                     IF p \notin live(s) THEN Absent
                     ELSE [NewProc(IF p = InitProc THEN Nobody ELSE InitProc,
                                   ThreadsOf(p) \cap s.start, Nobody, "live")
                           EXCEPT !.children = IF p = InitProc THEN live(s) \ {p} ELSE {}]]
        /\ pc = [t \in Tasks |-> IF t \in s.start THEN "user" ELSE "unborn"]
        /\ loc = [t \in Tasks |-> NoLocals] /\ vforkChild = [t \in Tasks |-> Nobody]
        /\ deferred = [t \in Tasks |-> NoEntry] /\ adopted = {}
  BY DEF Init
<1>2. /\ s.start \subseteq Tasks /\ live(s) \subseteq Procs /\ InitProc \in live(s)
      /\ \A t \in s.start : ProcOf[t] \in live(s)
      /\ \A p \in live(s) : \E t \in ThreadsOf(p) : t \in s.start
  BY <1>1 DEF ThreadsOf
<1> HIDE DEF live
<1>3. ASSUME NEW p \in Procs, p \notin live(s)
      PROVE  /\ proc[p].life = "unborn" /\ ~proc[p].zombie /\ ~proc[p].pending
             /\ proc[p].vforkParent = Nobody /\ proc[p].seq = 0 /\ proc[p].parent = Nobody
             /\ proc[p].children = {}
  <2>1. proc[p] = Absent
    BY <1>1, <1>3
  <2> QED
    BY <2>1 DEF Absent, NewProc
<1>4. ASSUME NEW p \in Procs, p \in live(s)
      PROVE  /\ proc[p].life = "live" /\ ~proc[p].zombie /\ ~proc[p].pending
             /\ proc[p].vforkParent = Nobody /\ proc[p].seq = 0
             /\ proc[p].parent = (IF p = InitProc THEN Nobody ELSE InitProc)
             /\ proc[p].children = (IF p = InitProc THEN live(s) \ {p} ELSE {})
             /\ proc[p].tasks = ThreadsOf(p) \cap s.start
  <2> DEFINE k == IF p = InitProc THEN live(s) \ {p} ELSE {}
  <2> DEFINE m == IF p = InitProc THEN Nobody ELSE InitProc
  <2> DEFINE n == Cardinality(ThreadsOf(p) \cap s.start)
  <2>1. proc[p] = [NewProc(m, ThreadsOf(p) \cap s.start, Nobody, "live") EXCEPT !.children = k]
    BY <1>1, <1>4
  <2> HIDE DEF k, m
  <2>2. proc[p] = [life |-> "live", zombie |-> FALSE, alive |-> n,
                   pending |-> FALSE, parent |-> m, children |-> k, seq |-> 0,
                   vforkParent |-> Nobody, tasks |-> ThreadsOf(p) \cap s.start]
    BY <2>1 DEF NewProc
  <2> QED
    BY <2>2 DEF k, m
<1>5. \A t \in Tasks :
        /\ loc[t] = NoLocals /\ deferred[t] = NoEntry /\ vforkChild[t] = Nobody
        /\ pc[t] = (IF t \in s.start THEN "user" ELSE "unborn")
  BY <1>1
<1>6. ASSUME NEW t \in Tasks, pc[t] = "user"
      PROVE  proc[ProcOf[t]].life = "live" /\ t \in proc[ProcOf[t]].tasks
  <2>1. t \in s.start /\ ProcOf[t] \in live(s) /\ ProcOf[t] \in Procs
    BY <1>2, <1>5, <1>6
  <2>2. /\ proc[ProcOf[t]].life = "live"
        /\ proc[ProcOf[t]].tasks = ThreadsOf(ProcOf[t]) \cap s.start
    BY <1>4, <2>1
  <2> QED
    BY <2>1, <2>2 DEF ThreadsOf
<1>7. ASSUME NEW p \in Procs, NEW c \in proc[p].children
      PROVE  p = InitProc /\ c # InitProc /\ proc[c].life = "live" /\ proc[c].parent = InitProc
  <2>1. p = InitProc /\ c \in live(s) \ {p}
    BY <1>3, <1>4, <1>7
  <2>2. c \in Procs /\ c \in live(s)
    BY <1>2, <2>1
  <2> QED
    BY <1>4, <2>1, <2>2
<1>8. ASSUME NEW p \in Procs, proc[p].life = "live"
      PROVE  \E t \in ThreadsOf(p) : pc[t] = "user"
  <2>1. p \in live(s)
    BY <1>3, <1>8
  <2> QED
    BY <1>2, <1>5, <2>1 DEF ThreadsOf
<1>9. ASSUME NEW p \in Procs
      PROVE  /\ proc[p].life \in {"unborn", "live"} /\ ~proc[p].zombie /\ ~proc[p].pending
             /\ proc[p].vforkParent = Nobody /\ proc[p].seq = 0
             /\ proc[p].parent \in {Nobody, InitProc}
  BY <1>3, <1>4
<1>10. proc[InitProc].life = "live" /\ adopted = {}
  BY <1>1, <1>2, <1>4
<1> QED
  BY <1>5, <1>6, <1>7, <1>8, <1>9, <1>10

\* Initially nobody exits and every process is in one hand.
LEMMA ReapInit ==
  ASSUME Init
  PROVE  ExitInv /\ CustodyInv
<1>1. ASSUME NEW t \in Tasks
      PROVE  /\ loc[t].why = "call" /\ loc[t].last = FALSE /\ deferred[t].st = "none"
             /\ deferred[t].final = FALSE
             /\ pc[t] \in {"user", "unborn"} /\ (pc[t] = "user" => t \in proc[ProcOf[t]].tasks)
  BY InitFacts DEF NoLocals, NoEntry
<1>2. \A t \in Tasks : ExitOk(t) /\ ReapCtl(t)
  BY <1>1 DEF ExitOk, IsLast, Finished, PastParent, ReapCtl
<1>3. LastUnique
  BY <1>1 DEF LastUnique, IsLast
<1>4. \A c \in Procs : Born(c) /\ ReapOk(c)
  BY <1>1, InitFacts DEF Born, ReapOk, Claims
<1>5. ASSUME NEW c \in Procs
      PROVE  Custody(c)
  <2>1. \A t \in Tasks : ~Moving(t, c) /\ ~Reaps(t, c) /\ ~Forking(t, c)
    BY <1>1 DEF Moving, Reaps, Forking
  <2>2. \A p \in Procs : InList(p, c) => p = InitProc /\ c # InitProc /\ proc[c].life = "live"
    BY InitFacts DEF InList
  <2>3. c = InitProc => proc[c].life = "live"
    BY InitFacts
  <2> QED
    BY <2>1, <2>2, <2>3 DEF Custody
<1> QED
  BY <1>2, <1>3, <1>4, <1>5 DEF ExitInv, CustodyInv

\* A step that changes nothing.
LEMMA ReapStutter ==
  ASSUME ExitInv, CustodyInv, UNCHANGED vars
  PROVE  ExitInv' /\ CustodyInv'
<1>1. proc' = proc /\ pc' = pc /\ loc' = loc /\ deferred' = deferred
  BY DEF vars
<1>2. ASSUME NEW t \in Tasks
      PROVE  ExitOk(t)' /\ ReapCtl(t)'
  BY <1>1 DEF ExitInv, ExitOk, IsLast, Finished, PastParent, ReapCtl, Dead
<1>3. LastUnique'
  BY <1>1 DEF ExitInv, LastUnique, IsLast
<1>4. ASSUME NEW c \in Procs
      PROVE  Born(c)' /\ ReapOk(c)'
  BY <1>1 DEF ExitInv, Born, ReapOk, Claims, Settled, ThreadsOf
<1>5. ASSUME NEW c \in Procs
      PROVE  Custody(c)'
  BY <1>1 DEF CustodyInv, Custody, InList, Moving, Reaps, Forking
<1> QED
  BY <1>2, <1>3, <1>4, <1>5 DEF ExitInv, CustodyInv

\* The three parts together are inductive.
LEMMA ReapInvariant == Spec => [](ControlInv /\ ExitInv /\ CustodyInv)
<1>1. Init => ControlInv /\ ExitInv /\ CustodyInv
  BY ControlInit, ReapInit
<1>2. ASSUME ControlInv, ExitInv, CustodyInv, [Next]_vars
      PROVE  ControlInv' /\ ExitInv' /\ CustodyInv'
  <2>1. ControlInv'
    BY <1>2, ControlNext
  <2>2. CASE UNCHANGED vars
    BY <1>2, <2>1, <2>2, ReapStutter
  <2>3. ASSUME NEW t \in Tasks, Step(t)
        PROVE  ExitInv' /\ CustodyInv'
    <3>1. \A u \in Tasks : ExitOk(u)'
      BY <1>2, <2>3, ExitStep
    <3>2. \A u \in Tasks : ReapCtl(u)'
      BY <1>2, <2>3, ReapCtlStep
    <3>3. LastUnique'
      BY <1>2, <2>3, LastStep
    <3>4. \A c \in Procs : Born(c)' /\ ReapOk(c)'
      BY <1>2, <2>3, ReapStep
    <3>5. CustodyInv'
      BY <1>2, <2>3, CustodyStep
    <3> QED
      BY <3>1, <3>2, <3>3, <3>4, <3>5 DEF ExitInv
  <2> QED
    BY <1>2, <2>1, <2>2, <2>3, NextIsStep
<1> QED
  BY <1>1, <1>2, PTL DEF Spec

\* What is in one hand is reaped once, and what is claimed has left its stack.
LEMMA CustodyImpliesReapAfterSwitch ==
  ASSUME ExitInv, CustodyInv
  PROVE  ReapAfterSwitch
<1> SUFFICES ASSUME NEW c \in Procs
             PROVE  /\ proc[c].life = "reaped" \/ (\E t \in Tasks : Reaps(t, c)) =>
                         \A u \in ThreadsOf(c) :
                           \/ pc[u] \in {"gone", "unborn", "rerun"}
                           \/ (pc[u] \in {"exitDefer", "exitSwitch"} /\ ~loc[u].last)
                    /\ \A t1, t2 \in Tasks : Reaps(t1, c) /\ Reaps(t2, c) => t1 = t2
                    /\ proc[c].life = "reaped" => ~\E t \in Tasks : Reaps(t, c)
  BY DEF ReapAfterSwitch
<1>1. ReapOk(c) /\ Custody(c)
  BY DEF ExitInv, CustodyInv
<1>2. \A t \in Tasks : Reaps(t, c) => Claims(t, c)
  BY DEF Reaps, Claims
<1>3. proc[c].life = "reaped" \/ (\E t \in Tasks : Reaps(t, c)) => Settled(c)
  BY <1>1, <1>2 DEF ReapOk
<1> QED
  BY <1>1, <1>3 DEF Settled, Custody

(* A process is taken apart once, by one thread, and not before its last      *)
(* thread has switched away from its kernel stack: wait4 sees final cleanup   *)
(* pending until the scheduler loop has finished with that thread, every      *)
(* other thread has a slot of the PCB until it is out of the way, and a       *)
(* process is in one list of children or in one hand.                         *)
THEOREM ReapedOnceAfterSwitch == Spec => []ReapAfterSwitch
<1>1. ExitInv /\ CustodyInv => ReapAfterSwitch
  BY CustodyImpliesReapAfterSwitch
<1> QED
  BY <1>1, ReapInvariant, PTL

=============================================================================
