-------------------------- MODULE ProcessWaitProofs --------------------------
(***************************************************************************)
(* Proofs that no parent sleeps in wait4 over a child of its own that has  *)
(* ended, that vfork suspends its caller, and that the vfork handshake is  *)
(* completed as long as the child is published before it runs.             *)
(***************************************************************************)
EXTENDS ProcessProofs

USE ProcessAssumption
USE DEF PcTo, PcOthers, PcWakes, WokenTo, LocOthers, KeepJob, KeepScan, KeepMoved,
        KeepExit, KeepVfork, KeepKill, Reset, ProcOthers, KeepLife, KeepCount, KeepPending,
        KeepFamily, KeepSeq, KeepVparent, KeepSlots, SetChildren, SetParent, NextSeq,
        Fresh, ClearVparent, SetZombie, SetSlots, SetPending, EntryOthers, SetStage, ProgOthers
-----------------------------------------------------------------------------
(* What a parent sees of its children *)

\* A process that has been in the pid tables.  A thread that can run, and every
\* process and thread that another one may work on, is of such a process: the
\* child that fork is making is not.
Known(p) == proc[p].life \in {"live", "reaped"}

KnownOk(t) ==
  /\ pc[t] \notin {"unborn", "nascent"} => Known(ProcOf[t])
  /\ \A u \in Tasks :
       (u \in loc[t].threads \/ u = loc[t].who \/ u = loc[t].vforkParent
          \/ u \in deferred[t].waiters) => Known(ProcOf[u])
  /\ \A p \in Procs :
       (p = loc[t].parent \/ p = deferred[t].parent
          \/ (p = loc[t].of /\ pc[t] \in {"forkPublish", "forkStart"})) => Known(p)

KnownProc(p) ==
  /\ \A q \in Procs : proc[p].parent = q => Known(q)
  /\ \A u \in Tasks : proc[p].vforkParent = u => Known(ProcOf[u])

KnownInv == (\A t \in Tasks : KnownOk(t)) /\ \A p \in Procs : KnownProc(p)

\* A child's parent pointer is the process whose list it is in, and the exit of
\* its last thread goes by that pointer unless init adopts the child.
ToMove(t, c) == pc[t] = "rpEach" /\ c \in loc[t].todo
Moved(t, c)  == pc[t] = "rpEach" /\ c \in loc[t].moved

ListOk(c) == \A p \in Procs : InList(p, c) => proc[c].parent = p

ParentOk(t, c) ==
  /\ Forking(t, c) => proc[c].parent = ProcOf[t]
  /\ ToMove(t, c) => proc[c].parent = loc[t].of
  /\ Moved(t, c) => proc[c].parent = InitProc /\ c \in adopted
  /\ ProcOf[t] = c /\ PastParent(t) /\ loc[t].last /\ c \notin adopted =>
       loc[t].parent = proc[c].parent
  /\ ProcOf[t] = c /\ deferred[t].final /\ c \notin adopted =>
       deferred[t].parent = proc[c].parent

\* A process without threads had a last one.
LastExists(c) ==
  proc[c].life # "unborn" /\ proc[c].alive = 0 => \E u \in ThreadsOf(c) : IsLast(u)

FamilyInv ==
  \A c \in Procs : ListOk(c) /\ LastExists(c) /\ \A t \in Tasks : ParentOk(t, c)

\* The end of c has been published to its parent; the wakeups of the thread t
\* of the parent are still to come.
Published(c) ==
  \E u \in ThreadsOf(c) : deferred[u].final /\ deferred[u].st \in {"collect", "wake", "done"}

Hope(c, t) ==
  \E u \in ThreadsOf(c) :
    /\ deferred[u].final
    /\ deferred[u].st = "collect" \/ (deferred[u].st = "wake" /\ t \in deferred[u].waiters)

\* wait4 has the end of c before it.
Due(t, c) == c \in proc[ProcOf[t]].children \ adopted /\ Wanted(t, c) /\ Published(c)

SeqOk(t) == loc[t].why = "wait" => loc[t].seq <= proc[ProcOf[t]].seq

\* A thread in wait4 that has not seen it finds the event number changed before
\* it sleeps, or is woken.
ScanOk(t, c) ==
  Due(t, c) =>
    /\ pc[t] = "waitScan" => \/ c \in loc[t].todo \/ loc[t].switching
                             \/ loc[t].seq # proc[ProcOf[t]].seq
    /\ pc[t] = "waitBlock" => loc[t].seq # proc[ProcOf[t]].seq
    /\ pc[t] = "waitAsleep" => Hope(c, t)

WaitInv == \A t \in Tasks : SeqOk(t) /\ \A c \in Procs : ScanOk(t, c)

ReapInv == ControlInv /\ ExitInv /\ CustodyInv

\* A thread a step does not move, or only wakes, knows whom it knew.
LEMMA KnownFrame ==
  ASSUME NEW u \in Tasks, KnownOk(u), \A p \in Procs : Known(p) => Known(p)',
         loc'[u] = loc[u], deferred'[u] = deferred[u],
         pc'[u] = pc[u] \/ (WokenTo(u) /\ (pc[u] = "nascent" => Known(ProcOf[u])))
  PROVE  KnownOk(u)'
BY DEF KnownOk

\* A process that has been in the pid table is never unknown again.
LEMMA KnownStays ==
  ASSUME ReapInv, NEW t \in Tasks, Step(t), NEW p \in Procs, Known(p)
  PROVE  Known(p)'
<1>0. ProcOf[t] \in Procs /\ Ctl(t)
  BY DEF ReapInv, ControlInv
<1>1. ASSUME StepReturn(t)
      PROVE  Known(p)'
  BY <1>0, <1>1 DEF StepReturn, Known
<1>2. ASSUME NEW c \in Procs, NEW v \in BOOLEAN, StepFork(t, c, v)
      PROVE  Known(p)'
  BY <1>0, <1>2 DEF StepFork, Known
<1>3. ASSUME StepPush(t)
      PROVE  Known(p)'
  BY <1>0, <1>3 DEF StepPush, Known
<1>4. ASSUME StepPublish(t)
      PROVE  Known(p)'
  BY <1>0, <1>4 DEF StepPublish, Known
<1>5. ASSUME StepStart(t)
      PROVE  Known(p)'
  BY <1>0, <1>5 DEF StepStart, Known
<1>6. ASSUME StepVforkBlock(t)
      PROVE  Known(p)'
  BY <1>0, <1>6 DEF StepVforkBlock, Known
<1>7. ASSUME StepExec(t)
      PROVE  Known(p)'
  BY <1>0, <1>7 DEF StepExec, Known
<1>8. ASSUME StepVforkClear(t)
      PROVE  Known(p)'
  BY <1>0, <1>8 DEF StepVforkClear, Known
<1>9. ASSUME StepVforkWake(t)
      PROVE  Known(p)'
  BY <1>0, <1>9 DEF StepVforkWake, Known
<1>10. ASSUME StepTake(t)
      PROVE  Known(p)'
  BY <1>0, <1>10 DEF StepTake, Known
<1>11. ASSUME NEW c \in Procs, StepEach(t, c)
      PROVE  Known(p)'
  BY <1>0, <1>11 DEF StepEach, Known
<1>12. ASSUME StepGive(t)
      PROVE  Known(p)'
  BY <1>0, <1>12 DEF StepGive, Known
<1>13. ASSUME StepInitPublish(t)
      PROVE  Known(p)'
  BY <1>0, <1>13 DEF StepInitPublish, Known
<1>14. ASSUME NEW w \in SomeTask, StepInitWake(t, w)
      PROVE  Known(p)'
  BY <1>0, <1>14 DEF StepInitWake, Known
<1>15. ASSUME StepWaitSeq(t)
      PROVE  Known(p)'
  BY <1>0, <1>15 DEF StepWaitSeq, Known
<1>16. ASSUME StepWaitList(t)
      PROVE  Known(p)'
  BY <1>0, <1>16 DEF StepWaitList, Known
<1>17. ASSUME NEW c \in Procs, StepFound(t, c)
      PROVE  Known(p)'
  BY <1>0, <1>17 DEF StepFound, Known
<1>18. ASSUME NEW c \in Procs, StepPass(t, c)
      PROVE  Known(p)'
  BY <1>0, <1>18 DEF StepPass, Known
<1>19. ASSUME StepAgain(t)
      PROVE  Known(p)'
  BY <1>0, <1>19 DEF StepAgain, Known
<1>20. ASSUME StepWaitBlock(t)
      PROVE  Known(p)'
  BY <1>0, <1>20 DEF StepWaitBlock, Known
<1>21. ASSUME StepWin(t)
      PROVE  Known(p)'
  BY <1>0, <1>21 DEF StepWin, Known
<1>22. ASSUME StepLose(t)
      PROVE  Known(p)'
  BY <1>0, <1>22 DEF StepLose, Known
<1>23. ASSUME StepFree(t)
      PROVE  Known(p)'
  BY <1>0, <1>23 DEF StepFree, Known
<1>24. ASSUME StepCount(t)
      PROVE  Known(p)'
  BY <1>0, <1>24 DEF StepCount, Known
<1>25. ASSUME StepDetach(t)
      PROVE  Known(p)'
  BY <1>0, <1>25 DEF StepDetach, Known
<1>26. ASSUME StepParent(t)
      PROVE  Known(p)'
  BY <1>0, <1>26 DEF StepParent, Known
<1>27. ASSUME StepDefer(t)
      PROVE  Known(p)'
  BY <1>0, <1>27 DEF StepDefer, Known
<1>28. ASSUME StepSwitch(t)
      PROVE  Known(p)'
  BY <1>0, <1>28 DEF StepSwitch, Known
<1>29. ASSUME StepGroup(t)
      PROVE  Known(p)'
  BY <1>0, <1>29 DEF StepGroup, Known
<1>30. ASSUME NEW k \in Procs, StepKill(t, k)
      PROVE  Known(p)'
  BY <1>0, <1>30 DEF StepKill, Known
<1>31. ASSUME NEW w \in Tasks, StepFlag(t, w)
      PROVE  Known(p)'
  BY <1>0, <1>31 DEF StepFlag, Known
<1>32. ASSUME NEW w \in Tasks, StepFlagOnly(t, w)
      PROVE  Known(p)'
  BY <1>0, <1>32 DEF StepFlagOnly, Known
<1>33. ASSUME StepNotify(t)
      PROVE  Known(p)'
  BY <1>0, <1>33 DEF StepNotify, Known
<1>34. ASSUME StepFinish(t)
      PROVE  Known(p)'
  BY <1>0, <1>34 DEF StepFinish, Known
<1>35. ASSUME StepEvent(t)
      PROVE  Known(p)'
  BY <1>0, <1>35 DEF StepEvent, Known
<1>36. ASSUME StepCollect(t)
      PROVE  Known(p)'
  BY <1>0, <1>36 DEF StepCollect, Known
<1>37. ASSUME NEW w \in Tasks, StepWakeOne(t, w)
      PROVE  Known(p)'
  BY <1>0, <1>37 DEF StepWakeOne, Known
<1>38. ASSUME StepWakesDone(t)
      PROVE  Known(p)'
  BY <1>0, <1>38 DEF StepWakesDone, Known
<1> QED
  BY <1>1, <1>2, <1>3, <1>4, <1>5, <1>6, <1>7, <1>8, <1>9, <1>10, <1>11, <1>12, <1>13,
     <1>14, <1>15, <1>16, <1>17, <1>18, <1>19, <1>20, <1>21, <1>22, <1>23, <1>24, <1>25,
     <1>26, <1>27, <1>28, <1>29, <1>30, <1>31, <1>32, <1>33, <1>34, <1>35, <1>36, <1>37,
     <1>38
  DEF Step

\* Every step works on known processes and threads only,
LEMMA KnownTaskStep ==
  ASSUME ReapInv, KnownInv, NEW t \in Tasks, Step(t)
  PROVE  \A u \in Tasks : KnownOk(u)'
<1>0. /\ ProcOf[t] \in Procs /\ Ctl(t) /\ KnownOk(t) /\ \A u \in Tasks : KnownOk(u)
      /\ \A p \in Procs : KnownProc(p)
  BY DEF ReapInv, ControlInv, KnownInv
<1>a. \A p \in Procs : Known(p) => Known(p)'
  BY KnownStays
<1>1. ASSUME StepReturn(t)
      PROVE  \A u \in Tasks : KnownOk(u)'
  <2>1. KnownOk(t)'
    BY <1>0, <1>a, <1>1
    DEF StepReturn, KnownOk, KnownProc, Known, Ctl, ForkLabels, WaitLabels, ExitLabels,
        AfterReturn
  <2>2. ASSUME NEW u \in Tasks, u # t
        PROVE  KnownOk(u)'
    BY <1>0, <1>a, <1>1, <2>2, KnownFrame DEF StepReturn
  <2> QED
    BY <2>1, <2>2
<1>2. ASSUME NEW c \in Procs, NEW v \in BOOLEAN, StepFork(t, c, v)
      PROVE  \A u \in Tasks : KnownOk(u)'
  <2>1. KnownOk(t)'
    BY <1>0, <1>a, <1>2
    DEF StepFork, KnownOk, KnownProc, Known, Ctl, ForkLabels, WaitLabels, ExitLabels
  <2>2. ASSUME NEW u \in Tasks, u # t
        PROVE  KnownOk(u)'
    <3>1. CASE u = Leader[c]
      <4>1. pc'[u] = "nascent" /\ loc'[u] = loc[u] /\ deferred' = deferred /\ KnownOk(u)
        BY <1>0, <1>2, <2>2, <3>1 DEF StepFork
      <4>2. loc[u].of = loc'[u].of
        BY <4>1
      <4> QED
        BY <1>a, <4>1 DEF KnownOk
    <3>2. CASE u # Leader[c]
      BY <1>0, <1>a, <1>2, <2>2, <3>2, KnownFrame DEF StepFork
    <3> QED
      BY <3>1, <3>2
  <2> QED
    BY <2>1, <2>2
<1>3. ASSUME StepPush(t)
      PROVE  \A u \in Tasks : KnownOk(u)'
  <2>1. KnownOk(t)'
    BY <1>0, <1>a, <1>3
    DEF StepPush, KnownOk, KnownProc, Known, Ctl, ForkLabels, WaitLabels, ExitLabels
  <2>2. ASSUME NEW u \in Tasks, u # t
        PROVE  KnownOk(u)'
    BY <1>0, <1>a, <1>3, <2>2, KnownFrame DEF StepPush
  <2> QED
    BY <2>1, <2>2
<1>4. ASSUME StepPublish(t)
      PROVE  \A u \in Tasks : KnownOk(u)'
  <2>1. KnownOk(t)'
    BY <1>0, <1>a, <1>4
    DEF StepPublish, KnownOk, KnownProc, Known, Ctl, ForkLabels, WaitLabels, ExitLabels
  <2>2. ASSUME NEW u \in Tasks, u # t
        PROVE  KnownOk(u)'
    BY <1>0, <1>a, <1>4, <2>2, KnownFrame DEF StepPublish
  <2> QED
    BY <2>1, <2>2
<1>5. ASSUME StepStart(t)
      PROVE  \A u \in Tasks : KnownOk(u)'
  <2>1. KnownOk(t)'
    BY <1>0, <1>a, <1>5
    DEF StepStart, KnownOk, KnownProc, Known, Ctl, ForkLabels, WaitLabels, ExitLabels,
        AfterReturn
  <2>2. ASSUME NEW u \in Tasks, u # t
        PROVE  KnownOk(u)'
    <3>1. u = Leader[loc[t].of] => Known(ProcOf[u])
      BY <1>0, <1>5 DEF StepStart, KnownOk, Ctl, ForkLabels
    <3>2. pc'[u] = pc[u] \/ (WokenTo(u) /\ (pc[u] = "nascent" => Known(ProcOf[u])))
      BY <1>5, <2>2, <3>1 DEF StepStart
    <3> QED
      BY <1>0, <1>a, <1>5, <2>2, <3>2, KnownFrame DEF StepStart
  <2> QED
    BY <2>1, <2>2
<1>6. ASSUME StepVforkBlock(t)
      PROVE  \A u \in Tasks : KnownOk(u)'
  <2>1. KnownOk(t)'
    BY <1>0, <1>a, <1>6
    DEF StepVforkBlock, KnownOk, KnownProc, Known, Ctl, ForkLabels, WaitLabels,
        ExitLabels
  <2>2. ASSUME NEW u \in Tasks, u # t
        PROVE  KnownOk(u)'
    BY <1>0, <1>a, <1>6, <2>2, KnownFrame DEF StepVforkBlock
  <2> QED
    BY <2>1, <2>2
<1>7. ASSUME StepExec(t)
      PROVE  \A u \in Tasks : KnownOk(u)'
  <2>1. KnownOk(t)'
    BY <1>0, <1>a, <1>7
    DEF StepExec, KnownOk, KnownProc, Known, Ctl, ForkLabels, WaitLabels, ExitLabels,
        AfterReturn
  <2>2. ASSUME NEW u \in Tasks, u # t
        PROVE  KnownOk(u)'
    BY <1>0, <1>a, <1>7, <2>2, KnownFrame DEF StepExec
  <2> QED
    BY <2>1, <2>2
<1>8. ASSUME StepVforkClear(t)
      PROVE  \A u \in Tasks : KnownOk(u)'
  <2>1. KnownOk(t)'
    BY <1>0, <1>a, <1>8
    DEF StepVforkClear, KnownOk, KnownProc, Known, Ctl, ForkLabels, WaitLabels,
        ExitLabels, AfterVfork, AfterReturn
  <2>2. ASSUME NEW u \in Tasks, u # t
        PROVE  KnownOk(u)'
    BY <1>0, <1>a, <1>8, <2>2, KnownFrame DEF StepVforkClear
  <2> QED
    BY <2>1, <2>2
<1>9. ASSUME StepVforkWake(t)
      PROVE  \A u \in Tasks : KnownOk(u)'
  <2>1. KnownOk(t)'
    BY <1>0, <1>a, <1>9
    DEF StepVforkWake, KnownOk, KnownProc, Known, Ctl, ForkLabels, WaitLabels,
        ExitLabels, AfterVfork, AfterReturn
  <2>2. ASSUME NEW u \in Tasks, u # t
        PROVE  KnownOk(u)'
    <3>1. u = loc[t].vforkParent => Known(ProcOf[u])
      BY <1>0, <1>9 DEF StepVforkWake, KnownOk, Ctl, ForkLabels
    <3>2. pc'[u] = pc[u] \/ (WokenTo(u) /\ (pc[u] = "nascent" => Known(ProcOf[u])))
      BY <1>9, <2>2, <3>1 DEF StepVforkWake
    <3> QED
      BY <1>0, <1>a, <1>9, <2>2, <3>2, KnownFrame DEF StepVforkWake
  <2> QED
    BY <2>1, <2>2
<1>10. ASSUME StepTake(t)
      PROVE  \A u \in Tasks : KnownOk(u)'
  <2>1. KnownOk(t)'
    BY <1>0, <1>a, <1>10
    DEF StepTake, KnownOk, KnownProc, Known, Ctl, ForkLabels, WaitLabels, ExitLabels
  <2>2. ASSUME NEW u \in Tasks, u # t
        PROVE  KnownOk(u)'
    BY <1>0, <1>a, <1>10, <2>2, KnownFrame DEF StepTake
  <2> QED
    BY <2>1, <2>2
<1>11. ASSUME NEW c \in Procs, StepEach(t, c)
      PROVE  \A u \in Tasks : KnownOk(u)'
  <2>1. KnownOk(t)'
    BY <1>0, <1>a, <1>11
    DEF StepEach, KnownOk, KnownProc, Known, Ctl, ForkLabels, WaitLabels, ExitLabels
  <2>2. ASSUME NEW u \in Tasks, u # t
        PROVE  KnownOk(u)'
    BY <1>0, <1>a, <1>11, <2>2, KnownFrame DEF StepEach
  <2> QED
    BY <2>1, <2>2
<1>12. ASSUME StepGive(t)
      PROVE  \A u \in Tasks : KnownOk(u)'
  <2>1. KnownOk(t)'
    BY <1>0, <1>a, <1>12
    DEF StepGive, KnownOk, KnownProc, Known, Ctl, ForkLabels, WaitLabels, ExitLabels,
        AfterReparent, AfterAdoption
  <2>2. ASSUME NEW u \in Tasks, u # t
        PROVE  KnownOk(u)'
    BY <1>0, <1>a, <1>12, <2>2, KnownFrame DEF StepGive
  <2> QED
    BY <2>1, <2>2
<1>13. ASSUME StepInitPublish(t)
      PROVE  \A u \in Tasks : KnownOk(u)'
  <2>1. KnownOk(t)'
    BY <1>0, <1>a, <1>13
    DEF StepInitPublish, KnownOk, KnownProc, Known, Ctl, ForkLabels, WaitLabels,
        ExitLabels
  <2>2. ASSUME NEW u \in Tasks, u # t
        PROVE  KnownOk(u)'
    BY <1>0, <1>a, <1>13, <2>2, KnownFrame DEF StepInitPublish
  <2> QED
    BY <2>1, <2>2
<1>14. ASSUME NEW w \in SomeTask, StepInitWake(t, w)
      PROVE  \A u \in Tasks : KnownOk(u)'
  <2>1. KnownOk(t)'
    BY <1>0, <1>a, <1>14
    DEF StepInitWake, KnownOk, KnownProc, Known, Ctl, ForkLabels, WaitLabels,
        ExitLabels, AfterAdoption, Asleep, SomeTask
  <2>2. ASSUME NEW u \in Tasks, u # t
        PROVE  KnownOk(u)'
    BY <1>0, <1>a, <1>14, <2>2, KnownFrame DEF StepInitWake, SomeTask, Asleep
  <2> QED
    BY <2>1, <2>2
<1>15. ASSUME StepWaitSeq(t)
      PROVE  \A u \in Tasks : KnownOk(u)'
  <2>1. KnownOk(t)'
    BY <1>0, <1>a, <1>15
    DEF StepWaitSeq, KnownOk, KnownProc, Known, Ctl, ForkLabels, WaitLabels, ExitLabels
  <2>2. ASSUME NEW u \in Tasks, u # t
        PROVE  KnownOk(u)'
    BY <1>0, <1>a, <1>15, <2>2, KnownFrame DEF StepWaitSeq
  <2> QED
    BY <2>1, <2>2
<1>16. ASSUME StepWaitList(t)
      PROVE  \A u \in Tasks : KnownOk(u)'
  <2>1. KnownOk(t)'
    BY <1>0, <1>a, <1>16
    DEF StepWaitList, KnownOk, KnownProc, Known, Ctl, ForkLabels, WaitLabels, ExitLabels
  <2>2. ASSUME NEW u \in Tasks, u # t
        PROVE  KnownOk(u)'
    BY <1>0, <1>a, <1>16, <2>2, KnownFrame DEF StepWaitList
  <2> QED
    BY <2>1, <2>2
<1>17. ASSUME NEW c \in Procs, StepFound(t, c)
      PROVE  \A u \in Tasks : KnownOk(u)'
  <2>1. KnownOk(t)'
    BY <1>0, <1>a, <1>17
    DEF StepFound, KnownOk, KnownProc, Known, Ctl, ForkLabels, WaitLabels, ExitLabels
  <2>2. ASSUME NEW u \in Tasks, u # t
        PROVE  KnownOk(u)'
    BY <1>0, <1>a, <1>17, <2>2, KnownFrame DEF StepFound
  <2> QED
    BY <2>1, <2>2
<1>18. ASSUME NEW c \in Procs, StepPass(t, c)
      PROVE  \A u \in Tasks : KnownOk(u)'
  <2>1. KnownOk(t)'
    BY <1>0, <1>a, <1>18
    DEF StepPass, KnownOk, KnownProc, Known, Ctl, ForkLabels, WaitLabels, ExitLabels
  <2>2. ASSUME NEW u \in Tasks, u # t
        PROVE  KnownOk(u)'
    BY <1>0, <1>a, <1>18, <2>2, KnownFrame DEF StepPass
  <2> QED
    BY <2>1, <2>2
<1>19. ASSUME StepAgain(t)
      PROVE  \A u \in Tasks : KnownOk(u)'
  <2>1. KnownOk(t)'
    BY <1>0, <1>a, <1>19
    DEF StepAgain, KnownOk, KnownProc, Known, Ctl, ForkLabels, WaitLabels, ExitLabels
  <2>2. ASSUME NEW u \in Tasks, u # t
        PROVE  KnownOk(u)'
    BY <1>0, <1>a, <1>19, <2>2, KnownFrame DEF StepAgain
  <2> QED
    BY <2>1, <2>2
<1>20. ASSUME StepWaitBlock(t)
      PROVE  \A u \in Tasks : KnownOk(u)'
  <2>1. KnownOk(t)'
    BY <1>0, <1>a, <1>20
    DEF StepWaitBlock, KnownOk, KnownProc, Known, Ctl, ForkLabels, WaitLabels,
        ExitLabels
  <2>2. ASSUME NEW u \in Tasks, u # t
        PROVE  KnownOk(u)'
    BY <1>0, <1>a, <1>20, <2>2, KnownFrame DEF StepWaitBlock
  <2> QED
    BY <2>1, <2>2
<1>21. ASSUME StepWin(t)
      PROVE  \A u \in Tasks : KnownOk(u)'
  <2>1. KnownOk(t)'
    BY <1>0, <1>a, <1>21
    DEF StepWin, KnownOk, KnownProc, Known, Ctl, ForkLabels, WaitLabels, ExitLabels
  <2>2. ASSUME NEW u \in Tasks, u # t
        PROVE  KnownOk(u)'
    BY <1>0, <1>a, <1>21, <2>2, KnownFrame DEF StepWin
  <2> QED
    BY <2>1, <2>2
<1>22. ASSUME StepLose(t)
      PROVE  \A u \in Tasks : KnownOk(u)'
  <2>1. KnownOk(t)'
    BY <1>0, <1>a, <1>22
    DEF StepLose, KnownOk, KnownProc, Known, Ctl, ForkLabels, WaitLabels, ExitLabels
  <2>2. ASSUME NEW u \in Tasks, u # t
        PROVE  KnownOk(u)'
    BY <1>0, <1>a, <1>22, <2>2, KnownFrame DEF StepLose
  <2> QED
    BY <2>1, <2>2
<1>23. ASSUME StepFree(t)
      PROVE  \A u \in Tasks : KnownOk(u)'
  <2>1. KnownOk(t)'
    BY <1>0, <1>a, <1>23
    DEF StepFree, KnownOk, KnownProc, Known, Ctl, ForkLabels, WaitLabels, ExitLabels,
        AfterReturn
  <2>2. ASSUME NEW u \in Tasks, u # t
        PROVE  KnownOk(u)'
    BY <1>0, <1>a, <1>23, <2>2, KnownFrame DEF StepFree
  <2> QED
    BY <2>1, <2>2
<1>24. ASSUME StepCount(t)
      PROVE  \A u \in Tasks : KnownOk(u)'
  <2>1. KnownOk(t)'
    BY <1>0, <1>a, <1>24
    DEF StepCount, KnownOk, KnownProc, Known, Ctl, ForkLabels, WaitLabels, ExitLabels
  <2>2. ASSUME NEW u \in Tasks, u # t
        PROVE  KnownOk(u)'
    BY <1>0, <1>a, <1>24, <2>2, KnownFrame DEF StepCount
  <2> QED
    BY <2>1, <2>2
<1>25. ASSUME StepDetach(t)
      PROVE  \A u \in Tasks : KnownOk(u)'
  <2>1. KnownOk(t)'
    BY <1>0, <1>a, <1>25
    DEF StepDetach, KnownOk, KnownProc, Known, Ctl, ForkLabels, WaitLabels, ExitLabels
  <2>2. ASSUME NEW u \in Tasks, u # t
        PROVE  KnownOk(u)'
    BY <1>0, <1>a, <1>25, <2>2, KnownFrame DEF StepDetach
  <2> QED
    BY <2>1, <2>2
<1>26. ASSUME StepParent(t)
      PROVE  \A u \in Tasks : KnownOk(u)'
  <2>1. KnownOk(t)'
    BY <1>0, <1>a, <1>26
    DEF StepParent, KnownOk, KnownProc, Known, Ctl, ForkLabels, WaitLabels, ExitLabels
  <2>2. ASSUME NEW u \in Tasks, u # t
        PROVE  KnownOk(u)'
    BY <1>0, <1>a, <1>26, <2>2, KnownFrame DEF StepParent
  <2> QED
    BY <2>1, <2>2
<1>27. ASSUME StepDefer(t)
      PROVE  \A u \in Tasks : KnownOk(u)'
  <2>1. KnownOk(t)'
    BY <1>0, <1>a, <1>27
    DEF StepDefer, KnownOk, KnownProc, Known, Ctl, ForkLabels, WaitLabels, ExitLabels
  <2>2. ASSUME NEW u \in Tasks, u # t
        PROVE  KnownOk(u)'
    BY <1>0, <1>a, <1>27, <2>2, KnownFrame DEF StepDefer
  <2> QED
    BY <2>1, <2>2
<1>28. ASSUME StepSwitch(t)
      PROVE  \A u \in Tasks : KnownOk(u)'
  <2>1. KnownOk(t)'
    BY <1>0, <1>a, <1>28
    DEF StepSwitch, KnownOk, KnownProc, Known, Ctl, ForkLabels, WaitLabels, ExitLabels
  <2>2. ASSUME NEW u \in Tasks, u # t
        PROVE  KnownOk(u)'
    BY <1>0, <1>a, <1>28, <2>2, KnownFrame DEF StepSwitch
  <2> QED
    BY <2>1, <2>2
<1>29. ASSUME StepGroup(t)
      PROVE  \A u \in Tasks : KnownOk(u)'
  <2>0. \A u \in proc[ProcOf[t]].tasks : ProcOf[u] = ProcOf[t]
    BY <1>0, <1>29 DEF StepGroup, ReapInv, ControlInv, CountOk, ThreadsOf
  <2>1. KnownOk(t)'
    BY <1>0, <1>a, <1>29, <2>0
    DEF StepGroup, KnownOk, KnownProc, Known, Ctl, ForkLabels, WaitLabels, ExitLabels
  <2>2. ASSUME NEW u \in Tasks, u # t
        PROVE  KnownOk(u)'
    BY <1>0, <1>a, <1>29, <2>2, KnownFrame DEF StepGroup
  <2> QED
    BY <2>1, <2>2
<1>30. ASSUME NEW k \in Procs, StepKill(t, k)
      PROVE  \A u \in Tasks : KnownOk(u)'
  <2>0. \A u \in proc[k].tasks : ProcOf[u] = k
    BY <1>0, <1>30 DEF StepKill, ReapInv, ControlInv, CountOk, ThreadsOf
  <2>1. KnownOk(t)'
    BY <1>0, <1>a, <1>30, <2>0
    DEF StepKill, KnownOk, KnownProc, Known, Ctl, ForkLabels, WaitLabels, ExitLabels
  <2>2. ASSUME NEW u \in Tasks, u # t
        PROVE  KnownOk(u)'
    BY <1>0, <1>a, <1>30, <2>2, KnownFrame DEF StepKill
  <2> QED
    BY <2>1, <2>2
<1>31. ASSUME NEW w \in Tasks, StepFlag(t, w)
      PROVE  \A u \in Tasks : KnownOk(u)'
  <2>1. KnownOk(t)'
    BY <1>0, <1>a, <1>31
    DEF StepFlag, KnownOk, KnownProc, Known, Ctl, ForkLabels, WaitLabels, ExitLabels
  <2>2. ASSUME NEW u \in Tasks, u # t
        PROVE  KnownOk(u)'
    BY <1>0, <1>a, <1>31, <2>2, KnownFrame DEF StepFlag
  <2> QED
    BY <2>1, <2>2
<1>32. ASSUME NEW w \in Tasks, StepFlagOnly(t, w)
      PROVE  \A u \in Tasks : KnownOk(u)'
  <2>1. KnownOk(t)'
    BY <1>0, <1>a, <1>32
    DEF StepFlagOnly, KnownOk, KnownProc, Known, Ctl, ForkLabels, WaitLabels, ExitLabels
  <2>2. ASSUME NEW u \in Tasks, u # t
        PROVE  KnownOk(u)'
    BY <1>0, <1>a, <1>32, <2>2, KnownFrame DEF StepFlagOnly
  <2> QED
    BY <2>1, <2>2
<1>33. ASSUME StepNotify(t)
      PROVE  \A u \in Tasks : KnownOk(u)'
  <2>1. KnownOk(t)'
    BY <1>0, <1>a, <1>33
    DEF StepNotify, KnownOk, KnownProc, Known, Ctl, ForkLabels, WaitLabels, ExitLabels
  <2>2. ASSUME NEW u \in Tasks, u # t
        PROVE  KnownOk(u)'
    <3>1. u = loc[t].who => Known(ProcOf[u])
      BY <1>0, <1>33 DEF StepNotify, KnownOk, Ctl, ForkLabels
    <3>2. pc'[u] = pc[u] \/ (WokenTo(u) /\ (pc[u] = "nascent" => Known(ProcOf[u])))
      BY <1>33, <2>2, <3>1 DEF StepNotify
    <3> QED
      BY <1>0, <1>a, <1>33, <2>2, <3>2, KnownFrame DEF StepNotify
  <2> QED
    BY <2>1, <2>2
<1>34. ASSUME StepFinish(t)
      PROVE  \A u \in Tasks : KnownOk(u)'
  <2>1. KnownOk(t)'
    BY <1>0, <1>a, <1>34
    DEF StepFinish, KnownOk, KnownProc, Known, Ctl, ForkLabels, WaitLabels, ExitLabels
  <2>2. ASSUME NEW u \in Tasks, u # t
        PROVE  KnownOk(u)'
    BY <1>0, <1>a, <1>34, <2>2, KnownFrame DEF StepFinish
  <2> QED
    BY <2>1, <2>2
<1>35. ASSUME StepEvent(t)
      PROVE  \A u \in Tasks : KnownOk(u)'
  <2>1. KnownOk(t)'
    BY <1>0, <1>a, <1>35
    DEF StepEvent, KnownOk, KnownProc, Known, Ctl, ForkLabels, WaitLabels, ExitLabels
  <2>2. ASSUME NEW u \in Tasks, u # t
        PROVE  KnownOk(u)'
    BY <1>0, <1>a, <1>35, <2>2, KnownFrame DEF StepEvent
  <2> QED
    BY <2>1, <2>2
<1>36. ASSUME StepCollect(t)
      PROVE  \A u \in Tasks : KnownOk(u)'
  <2>0. deferred[t].parent \in Procs /\ \A u \in proc[deferred[t].parent].tasks : ProcOf[u] = deferred[t].parent
    BY <1>0, <1>36 DEF StepCollect, ReapInv, ControlInv, Ctl, CountOk, ThreadsOf
  <2>1. KnownOk(t)'
    BY <1>0, <1>a, <1>36, <2>0
    DEF StepCollect, KnownOk, KnownProc, Known, Ctl, ForkLabels, WaitLabels, ExitLabels
  <2>2. ASSUME NEW u \in Tasks, u # t
        PROVE  KnownOk(u)'
    BY <1>0, <1>a, <1>36, <2>2, KnownFrame DEF StepCollect
  <2> QED
    BY <2>1, <2>2
<1>37. ASSUME NEW w \in Tasks, StepWakeOne(t, w)
      PROVE  \A u \in Tasks : KnownOk(u)'
  <2>1. KnownOk(t)'
    BY <1>0, <1>a, <1>37
    DEF StepWakeOne, KnownOk, KnownProc, Known, Ctl, ForkLabels, WaitLabels, ExitLabels
  <2>2. ASSUME NEW u \in Tasks, u # t
        PROVE  KnownOk(u)'
    <3>1. u = w => Known(ProcOf[u])
      BY <1>0, <1>37 DEF StepWakeOne, KnownOk, Ctl, ForkLabels
    <3>2. pc'[u] = pc[u] \/ (WokenTo(u) /\ (pc[u] = "nascent" => Known(ProcOf[u])))
      BY <1>37, <2>2, <3>1 DEF StepWakeOne
    <3> QED
      BY <1>0, <1>a, <1>37, <2>2, <3>2, KnownFrame DEF StepWakeOne
  <2> QED
    BY <2>1, <2>2
<1>38. ASSUME StepWakesDone(t)
      PROVE  \A u \in Tasks : KnownOk(u)'
  <2>1. KnownOk(t)'
    BY <1>0, <1>a, <1>38
    DEF StepWakesDone, KnownOk, KnownProc, Known, Ctl, ForkLabels, WaitLabels,
        ExitLabels
  <2>2. ASSUME NEW u \in Tasks, u # t
        PROVE  KnownOk(u)'
    BY <1>0, <1>a, <1>38, <2>2, KnownFrame DEF StepWakesDone
  <2> QED
    BY <2>1, <2>2
<1> QED
  BY <1>1, <1>2, <1>3, <1>4, <1>5, <1>6, <1>7, <1>8, <1>9, <1>10, <1>11, <1>12, <1>13,
     <1>14, <1>15, <1>16, <1>17, <1>18, <1>19, <1>20, <1>21, <1>22, <1>23, <1>24, <1>25,
     <1>26, <1>27, <1>28, <1>29, <1>30, <1>31, <1>32, <1>33, <1>34, <1>35, <1>36, <1>37,
     <1>38
  DEF Step

\* and stores only those in a PCB.
LEMMA KnownProcStep ==
  ASSUME ReapInv, KnownInv, NEW t \in Tasks, Step(t)
  PROVE  \A p \in Procs : KnownProc(p)'
<1>0. /\ ProcOf[t] \in Procs /\ Ctl(t) /\ KnownOk(t) /\ \A p \in Procs : KnownProc(p)
      /\ Custody(InitProc)
  BY DEF ReapInv, ControlInv, KnownInv, CustodyInv
<1>a. \A p \in Procs : Known(p) => Known(p)'
  BY KnownStays
<1>b. ASSUME NEW p \in Procs, proc'[p].parent = proc[p].parent \/ proc'[p].parent = InitProc,
             proc'[p].vforkParent = proc[p].vforkParent \/ proc'[p].vforkParent = Nobody
      PROVE  KnownProc(p)'
  BY <1>0, <1>a, <1>b DEF KnownProc, Known, Custody
<1>1. ASSUME StepReturn(t)
      PROVE  \A p \in Procs : KnownProc(p)'
  <2> SUFFICES ASSUME NEW p \in Procs
               PROVE  KnownProc(p)'
    OBVIOUS
  <2>1. /\ proc'[p].parent = proc[p].parent \/ proc'[p].parent = InitProc
        /\ proc'[p].vforkParent = proc[p].vforkParent \/ proc'[p].vforkParent = Nobody
    BY <1>0, <1>1 DEF StepReturn
  <2> QED
    BY <1>b, <2>1
<1>2. ASSUME NEW c \in Procs, NEW v \in BOOLEAN, StepFork(t, c, v)
      PROVE  \A p \in Procs : KnownProc(p)'
  <2> SUFFICES ASSUME NEW p \in Procs
               PROVE  KnownProc(p)'
    OBVIOUS
  <2>1. CASE p = c
    <3>1. Known(ProcOf[t])
      BY <1>0, <1>2 DEF StepFork, KnownOk
    <3> QED
      BY <1>a, <1>2, <2>1, <3>1 DEF StepFork, KnownProc
  <2>2. CASE p # c
    BY <1>b, <1>2, <2>2, SMTT(60) DEF StepFork
  <2> QED
    BY <2>1, <2>2
<1>3. ASSUME StepPush(t)
      PROVE  \A p \in Procs : KnownProc(p)'
  <2> SUFFICES ASSUME NEW p \in Procs
               PROVE  KnownProc(p)'
    OBVIOUS
  <2>1. /\ proc'[p].parent = proc[p].parent \/ proc'[p].parent = InitProc
        /\ proc'[p].vforkParent = proc[p].vforkParent \/ proc'[p].vforkParent = Nobody
    BY <1>0, <1>3 DEF StepPush
  <2> QED
    BY <1>b, <2>1
<1>4. ASSUME StepPublish(t)
      PROVE  \A p \in Procs : KnownProc(p)'
  <2> SUFFICES ASSUME NEW p \in Procs
               PROVE  KnownProc(p)'
    OBVIOUS
  <2>1. /\ proc'[p].parent = proc[p].parent \/ proc'[p].parent = InitProc
        /\ proc'[p].vforkParent = proc[p].vforkParent \/ proc'[p].vforkParent = Nobody
    BY <1>0, <1>4 DEF StepPublish
  <2> QED
    BY <1>b, <2>1
<1>5. ASSUME StepStart(t)
      PROVE  \A p \in Procs : KnownProc(p)'
  <2> SUFFICES ASSUME NEW p \in Procs
               PROVE  KnownProc(p)'
    OBVIOUS
  <2>1. /\ proc'[p].parent = proc[p].parent \/ proc'[p].parent = InitProc
        /\ proc'[p].vforkParent = proc[p].vforkParent \/ proc'[p].vforkParent = Nobody
    BY <1>0, <1>5 DEF StepStart
  <2> QED
    BY <1>b, <2>1
<1>6. ASSUME StepVforkBlock(t)
      PROVE  \A p \in Procs : KnownProc(p)'
  <2> SUFFICES ASSUME NEW p \in Procs
               PROVE  KnownProc(p)'
    OBVIOUS
  <2>1. /\ proc'[p].parent = proc[p].parent \/ proc'[p].parent = InitProc
        /\ proc'[p].vforkParent = proc[p].vforkParent \/ proc'[p].vforkParent = Nobody
    BY <1>0, <1>6 DEF StepVforkBlock
  <2> QED
    BY <1>b, <2>1
<1>7. ASSUME StepExec(t)
      PROVE  \A p \in Procs : KnownProc(p)'
  <2> SUFFICES ASSUME NEW p \in Procs
               PROVE  KnownProc(p)'
    OBVIOUS
  <2>1. /\ proc'[p].parent = proc[p].parent \/ proc'[p].parent = InitProc
        /\ proc'[p].vforkParent = proc[p].vforkParent \/ proc'[p].vforkParent = Nobody
    BY <1>0, <1>7 DEF StepExec
  <2> QED
    BY <1>b, <2>1
<1>8. ASSUME StepVforkClear(t)
      PROVE  \A p \in Procs : KnownProc(p)'
  <2> SUFFICES ASSUME NEW p \in Procs
               PROVE  KnownProc(p)'
    OBVIOUS
  <2>1. /\ proc'[p].parent = proc[p].parent \/ proc'[p].parent = InitProc
        /\ proc'[p].vforkParent = proc[p].vforkParent \/ proc'[p].vforkParent = Nobody
    BY <1>0, <1>8 DEF StepVforkClear
  <2> QED
    BY <1>b, <2>1
<1>9. ASSUME StepVforkWake(t)
      PROVE  \A p \in Procs : KnownProc(p)'
  <2> SUFFICES ASSUME NEW p \in Procs
               PROVE  KnownProc(p)'
    OBVIOUS
  <2>1. /\ proc'[p].parent = proc[p].parent \/ proc'[p].parent = InitProc
        /\ proc'[p].vforkParent = proc[p].vforkParent \/ proc'[p].vforkParent = Nobody
    BY <1>0, <1>9 DEF StepVforkWake
  <2> QED
    BY <1>b, <2>1
<1>10. ASSUME StepTake(t)
      PROVE  \A p \in Procs : KnownProc(p)'
  <2> SUFFICES ASSUME NEW p \in Procs
               PROVE  KnownProc(p)'
    OBVIOUS
  <2>1. /\ proc'[p].parent = proc[p].parent \/ proc'[p].parent = InitProc
        /\ proc'[p].vforkParent = proc[p].vforkParent \/ proc'[p].vforkParent = Nobody
    BY <1>0, <1>10 DEF StepTake
  <2> QED
    BY <1>b, <2>1
<1>11. ASSUME NEW c \in Procs, StepEach(t, c)
      PROVE  \A p \in Procs : KnownProc(p)'
  <2> SUFFICES ASSUME NEW p \in Procs
               PROVE  KnownProc(p)'
    OBVIOUS
  <2>1. /\ proc'[p].parent = proc[p].parent \/ proc'[p].parent = InitProc
        /\ proc'[p].vforkParent = proc[p].vforkParent \/ proc'[p].vforkParent = Nobody
    BY <1>0, <1>11 DEF StepEach
  <2> QED
    BY <1>b, <2>1
<1>12. ASSUME StepGive(t)
      PROVE  \A p \in Procs : KnownProc(p)'
  <2> SUFFICES ASSUME NEW p \in Procs
               PROVE  KnownProc(p)'
    OBVIOUS
  <2>1. /\ proc'[p].parent = proc[p].parent \/ proc'[p].parent = InitProc
        /\ proc'[p].vforkParent = proc[p].vforkParent \/ proc'[p].vforkParent = Nobody
    BY <1>0, <1>12 DEF StepGive
  <2> QED
    BY <1>b, <2>1
<1>13. ASSUME StepInitPublish(t)
      PROVE  \A p \in Procs : KnownProc(p)'
  <2> SUFFICES ASSUME NEW p \in Procs
               PROVE  KnownProc(p)'
    OBVIOUS
  <2>1. /\ proc'[p].parent = proc[p].parent \/ proc'[p].parent = InitProc
        /\ proc'[p].vforkParent = proc[p].vforkParent \/ proc'[p].vforkParent = Nobody
    BY <1>0, <1>13 DEF StepInitPublish
  <2> QED
    BY <1>b, <2>1
<1>14. ASSUME NEW w \in SomeTask, StepInitWake(t, w)
      PROVE  \A p \in Procs : KnownProc(p)'
  <2> SUFFICES ASSUME NEW p \in Procs
               PROVE  KnownProc(p)'
    OBVIOUS
  <2>1. /\ proc'[p].parent = proc[p].parent \/ proc'[p].parent = InitProc
        /\ proc'[p].vforkParent = proc[p].vforkParent \/ proc'[p].vforkParent = Nobody
    BY <1>0, <1>14 DEF StepInitWake
  <2> QED
    BY <1>b, <2>1
<1>15. ASSUME StepWaitSeq(t)
      PROVE  \A p \in Procs : KnownProc(p)'
  <2> SUFFICES ASSUME NEW p \in Procs
               PROVE  KnownProc(p)'
    OBVIOUS
  <2>1. /\ proc'[p].parent = proc[p].parent \/ proc'[p].parent = InitProc
        /\ proc'[p].vforkParent = proc[p].vforkParent \/ proc'[p].vforkParent = Nobody
    BY <1>0, <1>15 DEF StepWaitSeq
  <2> QED
    BY <1>b, <2>1
<1>16. ASSUME StepWaitList(t)
      PROVE  \A p \in Procs : KnownProc(p)'
  <2> SUFFICES ASSUME NEW p \in Procs
               PROVE  KnownProc(p)'
    OBVIOUS
  <2>1. /\ proc'[p].parent = proc[p].parent \/ proc'[p].parent = InitProc
        /\ proc'[p].vforkParent = proc[p].vforkParent \/ proc'[p].vforkParent = Nobody
    BY <1>0, <1>16 DEF StepWaitList
  <2> QED
    BY <1>b, <2>1
<1>17. ASSUME NEW c \in Procs, StepFound(t, c)
      PROVE  \A p \in Procs : KnownProc(p)'
  <2> SUFFICES ASSUME NEW p \in Procs
               PROVE  KnownProc(p)'
    OBVIOUS
  <2>1. /\ proc'[p].parent = proc[p].parent \/ proc'[p].parent = InitProc
        /\ proc'[p].vforkParent = proc[p].vforkParent \/ proc'[p].vforkParent = Nobody
    BY <1>0, <1>17 DEF StepFound
  <2> QED
    BY <1>b, <2>1
<1>18. ASSUME NEW c \in Procs, StepPass(t, c)
      PROVE  \A p \in Procs : KnownProc(p)'
  <2> SUFFICES ASSUME NEW p \in Procs
               PROVE  KnownProc(p)'
    OBVIOUS
  <2>1. /\ proc'[p].parent = proc[p].parent \/ proc'[p].parent = InitProc
        /\ proc'[p].vforkParent = proc[p].vforkParent \/ proc'[p].vforkParent = Nobody
    BY <1>0, <1>18 DEF StepPass
  <2> QED
    BY <1>b, <2>1
<1>19. ASSUME StepAgain(t)
      PROVE  \A p \in Procs : KnownProc(p)'
  <2> SUFFICES ASSUME NEW p \in Procs
               PROVE  KnownProc(p)'
    OBVIOUS
  <2>1. /\ proc'[p].parent = proc[p].parent \/ proc'[p].parent = InitProc
        /\ proc'[p].vforkParent = proc[p].vforkParent \/ proc'[p].vforkParent = Nobody
    BY <1>0, <1>19 DEF StepAgain
  <2> QED
    BY <1>b, <2>1
<1>20. ASSUME StepWaitBlock(t)
      PROVE  \A p \in Procs : KnownProc(p)'
  <2> SUFFICES ASSUME NEW p \in Procs
               PROVE  KnownProc(p)'
    OBVIOUS
  <2>1. /\ proc'[p].parent = proc[p].parent \/ proc'[p].parent = InitProc
        /\ proc'[p].vforkParent = proc[p].vforkParent \/ proc'[p].vforkParent = Nobody
    BY <1>0, <1>20 DEF StepWaitBlock
  <2> QED
    BY <1>b, <2>1
<1>21. ASSUME StepWin(t)
      PROVE  \A p \in Procs : KnownProc(p)'
  <2> SUFFICES ASSUME NEW p \in Procs
               PROVE  KnownProc(p)'
    OBVIOUS
  <2>1. /\ proc'[p].parent = proc[p].parent \/ proc'[p].parent = InitProc
        /\ proc'[p].vforkParent = proc[p].vforkParent \/ proc'[p].vforkParent = Nobody
    BY <1>0, <1>21 DEF StepWin
  <2> QED
    BY <1>b, <2>1
<1>22. ASSUME StepLose(t)
      PROVE  \A p \in Procs : KnownProc(p)'
  <2> SUFFICES ASSUME NEW p \in Procs
               PROVE  KnownProc(p)'
    OBVIOUS
  <2>1. /\ proc'[p].parent = proc[p].parent \/ proc'[p].parent = InitProc
        /\ proc'[p].vforkParent = proc[p].vforkParent \/ proc'[p].vforkParent = Nobody
    BY <1>0, <1>22 DEF StepLose
  <2> QED
    BY <1>b, <2>1
<1>23. ASSUME StepFree(t)
      PROVE  \A p \in Procs : KnownProc(p)'
  <2> SUFFICES ASSUME NEW p \in Procs
               PROVE  KnownProc(p)'
    OBVIOUS
  <2>1. /\ proc'[p].parent = proc[p].parent \/ proc'[p].parent = InitProc
        /\ proc'[p].vforkParent = proc[p].vforkParent \/ proc'[p].vforkParent = Nobody
    BY <1>0, <1>23 DEF StepFree
  <2> QED
    BY <1>b, <2>1
<1>24. ASSUME StepCount(t)
      PROVE  \A p \in Procs : KnownProc(p)'
  <2> SUFFICES ASSUME NEW p \in Procs
               PROVE  KnownProc(p)'
    OBVIOUS
  <2>1. /\ proc'[p].parent = proc[p].parent \/ proc'[p].parent = InitProc
        /\ proc'[p].vforkParent = proc[p].vforkParent \/ proc'[p].vforkParent = Nobody
    BY <1>0, <1>24 DEF StepCount
  <2> QED
    BY <1>b, <2>1
<1>25. ASSUME StepDetach(t)
      PROVE  \A p \in Procs : KnownProc(p)'
  <2> SUFFICES ASSUME NEW p \in Procs
               PROVE  KnownProc(p)'
    OBVIOUS
  <2>1. /\ proc'[p].parent = proc[p].parent \/ proc'[p].parent = InitProc
        /\ proc'[p].vforkParent = proc[p].vforkParent \/ proc'[p].vforkParent = Nobody
    BY <1>0, <1>25 DEF StepDetach
  <2> QED
    BY <1>b, <2>1
<1>26. ASSUME StepParent(t)
      PROVE  \A p \in Procs : KnownProc(p)'
  <2> SUFFICES ASSUME NEW p \in Procs
               PROVE  KnownProc(p)'
    OBVIOUS
  <2>1. /\ proc'[p].parent = proc[p].parent \/ proc'[p].parent = InitProc
        /\ proc'[p].vforkParent = proc[p].vforkParent \/ proc'[p].vforkParent = Nobody
    BY <1>0, <1>26 DEF StepParent
  <2> QED
    BY <1>b, <2>1
<1>27. ASSUME StepDefer(t)
      PROVE  \A p \in Procs : KnownProc(p)'
  <2> SUFFICES ASSUME NEW p \in Procs
               PROVE  KnownProc(p)'
    OBVIOUS
  <2>1. /\ proc'[p].parent = proc[p].parent \/ proc'[p].parent = InitProc
        /\ proc'[p].vforkParent = proc[p].vforkParent \/ proc'[p].vforkParent = Nobody
    BY <1>0, <1>27 DEF StepDefer
  <2> QED
    BY <1>b, <2>1
<1>28. ASSUME StepSwitch(t)
      PROVE  \A p \in Procs : KnownProc(p)'
  <2> SUFFICES ASSUME NEW p \in Procs
               PROVE  KnownProc(p)'
    OBVIOUS
  <2>1. /\ proc'[p].parent = proc[p].parent \/ proc'[p].parent = InitProc
        /\ proc'[p].vforkParent = proc[p].vforkParent \/ proc'[p].vforkParent = Nobody
    BY <1>0, <1>28 DEF StepSwitch
  <2> QED
    BY <1>b, <2>1
<1>29. ASSUME StepGroup(t)
      PROVE  \A p \in Procs : KnownProc(p)'
  <2> SUFFICES ASSUME NEW p \in Procs
               PROVE  KnownProc(p)'
    OBVIOUS
  <2>1. /\ proc'[p].parent = proc[p].parent \/ proc'[p].parent = InitProc
        /\ proc'[p].vforkParent = proc[p].vforkParent \/ proc'[p].vforkParent = Nobody
    BY <1>0, <1>29 DEF StepGroup
  <2> QED
    BY <1>b, <2>1
<1>30. ASSUME NEW k \in Procs, StepKill(t, k)
      PROVE  \A p \in Procs : KnownProc(p)'
  <2> SUFFICES ASSUME NEW p \in Procs
               PROVE  KnownProc(p)'
    OBVIOUS
  <2>1. /\ proc'[p].parent = proc[p].parent \/ proc'[p].parent = InitProc
        /\ proc'[p].vforkParent = proc[p].vforkParent \/ proc'[p].vforkParent = Nobody
    BY <1>0, <1>30 DEF StepKill
  <2> QED
    BY <1>b, <2>1
<1>31. ASSUME NEW w \in Tasks, StepFlag(t, w)
      PROVE  \A p \in Procs : KnownProc(p)'
  <2> SUFFICES ASSUME NEW p \in Procs
               PROVE  KnownProc(p)'
    OBVIOUS
  <2>1. /\ proc'[p].parent = proc[p].parent \/ proc'[p].parent = InitProc
        /\ proc'[p].vforkParent = proc[p].vforkParent \/ proc'[p].vforkParent = Nobody
    BY <1>0, <1>31 DEF StepFlag
  <2> QED
    BY <1>b, <2>1
<1>32. ASSUME NEW w \in Tasks, StepFlagOnly(t, w)
      PROVE  \A p \in Procs : KnownProc(p)'
  <2> SUFFICES ASSUME NEW p \in Procs
               PROVE  KnownProc(p)'
    OBVIOUS
  <2>1. /\ proc'[p].parent = proc[p].parent \/ proc'[p].parent = InitProc
        /\ proc'[p].vforkParent = proc[p].vforkParent \/ proc'[p].vforkParent = Nobody
    BY <1>0, <1>32 DEF StepFlagOnly
  <2> QED
    BY <1>b, <2>1
<1>33. ASSUME StepNotify(t)
      PROVE  \A p \in Procs : KnownProc(p)'
  <2> SUFFICES ASSUME NEW p \in Procs
               PROVE  KnownProc(p)'
    OBVIOUS
  <2>1. /\ proc'[p].parent = proc[p].parent \/ proc'[p].parent = InitProc
        /\ proc'[p].vforkParent = proc[p].vforkParent \/ proc'[p].vforkParent = Nobody
    BY <1>0, <1>33 DEF StepNotify
  <2> QED
    BY <1>b, <2>1
<1>34. ASSUME StepFinish(t)
      PROVE  \A p \in Procs : KnownProc(p)'
  <2> SUFFICES ASSUME NEW p \in Procs
               PROVE  KnownProc(p)'
    OBVIOUS
  <2>1. /\ proc'[p].parent = proc[p].parent \/ proc'[p].parent = InitProc
        /\ proc'[p].vforkParent = proc[p].vforkParent \/ proc'[p].vforkParent = Nobody
    BY <1>0, <1>34 DEF StepFinish
  <2> QED
    BY <1>b, <2>1
<1>35. ASSUME StepEvent(t)
      PROVE  \A p \in Procs : KnownProc(p)'
  <2> SUFFICES ASSUME NEW p \in Procs
               PROVE  KnownProc(p)'
    OBVIOUS
  <2>1. /\ proc'[p].parent = proc[p].parent \/ proc'[p].parent = InitProc
        /\ proc'[p].vforkParent = proc[p].vforkParent \/ proc'[p].vforkParent = Nobody
    BY <1>0, <1>35 DEF StepEvent
  <2> QED
    BY <1>b, <2>1
<1>36. ASSUME StepCollect(t)
      PROVE  \A p \in Procs : KnownProc(p)'
  <2> SUFFICES ASSUME NEW p \in Procs
               PROVE  KnownProc(p)'
    OBVIOUS
  <2>1. /\ proc'[p].parent = proc[p].parent \/ proc'[p].parent = InitProc
        /\ proc'[p].vforkParent = proc[p].vforkParent \/ proc'[p].vforkParent = Nobody
    BY <1>0, <1>36 DEF StepCollect
  <2> QED
    BY <1>b, <2>1
<1>37. ASSUME NEW w \in Tasks, StepWakeOne(t, w)
      PROVE  \A p \in Procs : KnownProc(p)'
  <2> SUFFICES ASSUME NEW p \in Procs
               PROVE  KnownProc(p)'
    OBVIOUS
  <2>1. /\ proc'[p].parent = proc[p].parent \/ proc'[p].parent = InitProc
        /\ proc'[p].vforkParent = proc[p].vforkParent \/ proc'[p].vforkParent = Nobody
    BY <1>0, <1>37 DEF StepWakeOne
  <2> QED
    BY <1>b, <2>1
<1>38. ASSUME StepWakesDone(t)
      PROVE  \A p \in Procs : KnownProc(p)'
  <2> SUFFICES ASSUME NEW p \in Procs
               PROVE  KnownProc(p)'
    OBVIOUS
  <2>1. /\ proc'[p].parent = proc[p].parent \/ proc'[p].parent = InitProc
        /\ proc'[p].vforkParent = proc[p].vforkParent \/ proc'[p].vforkParent = Nobody
    BY <1>0, <1>38 DEF StepWakesDone
  <2> QED
    BY <1>b, <2>1
<1> QED
  BY <1>1, <1>2, <1>3, <1>4, <1>5, <1>6, <1>7, <1>8, <1>9, <1>10, <1>11, <1>12, <1>13,
     <1>14, <1>15, <1>16, <1>17, <1>18, <1>19, <1>20, <1>21, <1>22, <1>23, <1>24, <1>25,
     <1>26, <1>27, <1>28, <1>29, <1>30, <1>31, <1>32, <1>33, <1>34, <1>35, <1>36, <1>37,
     <1>38
  DEF Step

\* A thread a step does not move, or only wakes, keeps the parent it has read.
LEMMA ParentFrame ==
  ASSUME NEW u \in Tasks, NEW c \in Procs, ParentOk(u, c), loc'[u] = loc[u],
         deferred'[u] = deferred[u], pc'[u] = pc[u] \/ WokenTo(u),
         proc'[c].parent = proc[c].parent, c \in adopted => c \in adopted'
  PROVE  ParentOk(u, c)'
BY DEF ParentOk, Forking, ToMove, Moved, PastParent

\* Every step keeps the parent pointer and the copies of it in agreement.
LEMMA ParentStep ==
  ASSUME ReapInv, FamilyInv, NEW t \in Tasks, Step(t)
  PROVE  \A d \in Procs, u \in Tasks : ParentOk(u, d)'
<1>0. /\ ProcOf[t] \in Procs /\ Ctl(t) /\ ReapCtl(t) /\ ExitOk(t)
      /\ \A d \in Procs : Custody(d) /\ ListOk(d) /\ \A u \in Tasks : ParentOk(u, d)
  BY DEF ReapInv, ControlInv, ExitInv, CustodyInv, FamilyInv
<1>1. ASSUME StepReturn(t)
      PROVE  \A d \in Procs, u \in Tasks : ParentOk(u, d)'
  <2> SUFFICES ASSUME NEW d \in Procs, NEW u \in Tasks
               PROVE  ParentOk(u, d)'
    OBVIOUS
  <2>0. proc'[d].parent = proc[d].parent /\ adopted' = adopted
    BY <1>0, <1>1 DEF StepReturn
  <2>1. CASE u # t
    BY <1>0, <1>1, <2>0, <2>1, ParentFrame DEF StepReturn
  <2>2. CASE u = t
    BY <1>0, <1>1, <2>0, <2>2
    DEF StepReturn, ParentOk, Forking, ToMove, Moved, PastParent, Ctl, ForkLabels,
        WaitLabels, ExitLabels, AfterReturn
  <2> QED
    BY <2>1, <2>2
<1>2. ASSUME NEW c \in Procs, NEW v \in BOOLEAN, StepFork(t, c, v)
      PROVE  \A d \in Procs, u \in Tasks : ParentOk(u, d)'
  <2> SUFFICES ASSUME NEW d \in Procs, NEW u \in Tasks
               PROVE  ParentOk(u, d)'
    OBVIOUS
  <2>1. CASE d # c /\ u # t
    <3>1. CASE u = Leader[c]
      <4>1. ProcOf[u] # d /\ pc'[u] = "nascent"
        BY <1>2, <2>1, <3>1 DEF StepFork
      <4> QED
        BY <4>1 DEF ParentOk, Forking, ToMove, Moved, PastParent
    <3>2. CASE u # Leader[c]
      <4>1. /\ proc'[d].parent = proc[d].parent /\ loc'[u] = loc[u]
            /\ pc'[u] = pc[u] /\ deferred'[u] = deferred[u] /\ adopted' = adopted
        BY <1>2, <2>1, <3>2 DEF StepFork
      <4> QED
        BY <1>0, <4>1, ParentFrame
    <3> QED
      BY <3>1, <3>2
  <2>2. CASE d # c /\ u = t
    <3>1. pc'[u] = "forkPush" /\ loc'[u].of = c /\ deferred' = deferred /\ adopted' = adopted
          /\ proc'[d] = proc[d]
      BY <1>2, <2>2 DEF StepFork
    <3> QED
      BY <1>0, <2>2, <3>1 DEF ParentOk, Forking, ToMove, Moved, PastParent
  <2>3. CASE d = c /\ u = t
    <3>1. pc'[u] = "forkPush" /\ proc'[d].parent = ProcOf[t] /\ ProcOf[t] # d
      BY <1>2, <2>3 DEF StepFork
    <3> QED
      BY <2>3, <3>1 DEF ParentOk, Forking, ToMove, Moved, PastParent
  <2>4. CASE d = c /\ u # t
    <3>1. ~Forking(u, d) /\ ~ToMove(u, d) /\ ~Moved(u, d)
      BY <1>0, <1>2, <2>4 DEF StepFork, Custody, Moving, ToMove, Moved
    <3>2. /\ pc'[u] # "nascent" => pc'[u] = pc[u]
          /\ loc'[u] = loc[u] /\ deferred' = deferred
      BY <1>2, <2>4 DEF StepFork
    <3>3. ~Forking(u, d)' /\ ~ToMove(u, d)' /\ ~Moved(u, d)'
      BY <3>1, <3>2 DEF Forking, ToMove, Moved
    <3>4. ASSUME ProcOf[u] = d
          PROVE  pc[u] = "unborn" /\ ~deferred[u].final
      <4>1. pc[u] = "unborn"
        BY <1>2, <2>4, <3>4 DEF StepFork, ReapInv, ControlInv, CountOk, ThreadsOf
      <4> QED
        BY <4>1 DEF ReapInv, ControlInv, Ctl, ExitInv, ExitOk
    <3> QED
      BY <3>2, <3>3, <3>4 DEF ParentOk, PastParent
  <2> QED
    BY <2>1, <2>2, <2>3, <2>4
<1>3. ASSUME StepPush(t)
      PROVE  \A d \in Procs, u \in Tasks : ParentOk(u, d)'
  <2> SUFFICES ASSUME NEW d \in Procs, NEW u \in Tasks
               PROVE  ParentOk(u, d)'
    OBVIOUS
  <2>0. proc'[d].parent = proc[d].parent /\ adopted' = adopted
    BY <1>0, <1>3 DEF StepPush
  <2>1. CASE u # t
    BY <1>0, <1>3, <2>0, <2>1, ParentFrame DEF StepPush
  <2>2. CASE u = t
    BY <1>0, <1>3, <2>0, <2>2
    DEF StepPush, ParentOk, Forking, ToMove, Moved, PastParent, Ctl, ForkLabels,
        WaitLabels, ExitLabels
  <2> QED
    BY <2>1, <2>2
<1>4. ASSUME StepPublish(t)
      PROVE  \A d \in Procs, u \in Tasks : ParentOk(u, d)'
  <2> SUFFICES ASSUME NEW d \in Procs, NEW u \in Tasks
               PROVE  ParentOk(u, d)'
    OBVIOUS
  <2>0. proc'[d].parent = proc[d].parent /\ adopted' = adopted
    BY <1>0, <1>4 DEF StepPublish
  <2>1. CASE u # t
    BY <1>0, <1>4, <2>0, <2>1, ParentFrame DEF StepPublish
  <2>2. CASE u = t
    BY <1>0, <1>4, <2>0, <2>2
    DEF StepPublish, ParentOk, Forking, ToMove, Moved, PastParent, Ctl, ForkLabels,
        WaitLabels, ExitLabels
  <2> QED
    BY <2>1, <2>2
<1>5. ASSUME StepStart(t)
      PROVE  \A d \in Procs, u \in Tasks : ParentOk(u, d)'
  <2> SUFFICES ASSUME NEW d \in Procs, NEW u \in Tasks
               PROVE  ParentOk(u, d)'
    OBVIOUS
  <2>0. proc'[d].parent = proc[d].parent /\ adopted' = adopted
    BY <1>0, <1>5 DEF StepStart
  <2>1. CASE u # t
    BY <1>0, <1>5, <2>0, <2>1, ParentFrame, SMTT(60) DEF StepStart
  <2>2. CASE u = t
    BY <1>0, <1>5, <2>0, <2>2
    DEF StepStart, ParentOk, Forking, ToMove, Moved, PastParent, Ctl, ForkLabels,
        WaitLabels, ExitLabels, AfterReturn
  <2> QED
    BY <2>1, <2>2
<1>6. ASSUME StepVforkBlock(t)
      PROVE  \A d \in Procs, u \in Tasks : ParentOk(u, d)'
  <2> SUFFICES ASSUME NEW d \in Procs, NEW u \in Tasks
               PROVE  ParentOk(u, d)'
    OBVIOUS
  <2>0. proc'[d].parent = proc[d].parent /\ adopted' = adopted
    BY <1>0, <1>6 DEF StepVforkBlock
  <2>1. CASE u # t
    BY <1>0, <1>6, <2>0, <2>1, ParentFrame DEF StepVforkBlock
  <2>2. CASE u = t
    BY <1>0, <1>6, <2>0, <2>2
    DEF StepVforkBlock, ParentOk, Forking, ToMove, Moved, PastParent, Ctl, ForkLabels,
        WaitLabels, ExitLabels
  <2> QED
    BY <2>1, <2>2
<1>7. ASSUME StepExec(t)
      PROVE  \A d \in Procs, u \in Tasks : ParentOk(u, d)'
  <2> SUFFICES ASSUME NEW d \in Procs, NEW u \in Tasks
               PROVE  ParentOk(u, d)'
    OBVIOUS
  <2>0. proc'[d].parent = proc[d].parent /\ adopted' = adopted
    BY <1>0, <1>7 DEF StepExec
  <2>1. CASE u # t
    BY <1>0, <1>7, <2>0, <2>1, ParentFrame DEF StepExec
  <2>2. CASE u = t
    BY <1>0, <1>7, <2>0, <2>2
    DEF StepExec, ParentOk, Forking, ToMove, Moved, PastParent, Ctl, ForkLabels,
        WaitLabels, ExitLabels, AfterReturn
  <2> QED
    BY <2>1, <2>2
<1>8. ASSUME StepVforkClear(t)
      PROVE  \A d \in Procs, u \in Tasks : ParentOk(u, d)'
  <2> SUFFICES ASSUME NEW d \in Procs, NEW u \in Tasks
               PROVE  ParentOk(u, d)'
    OBVIOUS
  <2>0. proc'[d].parent = proc[d].parent /\ adopted' = adopted
    BY <1>0, <1>8 DEF StepVforkClear
  <2>1. CASE u # t
    BY <1>0, <1>8, <2>0, <2>1, ParentFrame DEF StepVforkClear
  <2>2. CASE u = t
    BY <1>0, <1>8, <2>0, <2>2
    DEF StepVforkClear, ParentOk, Forking, ToMove, Moved, PastParent, Ctl, ForkLabels,
        WaitLabels, ExitLabels, AfterVfork, AfterReturn
  <2> QED
    BY <2>1, <2>2
<1>9. ASSUME StepVforkWake(t)
      PROVE  \A d \in Procs, u \in Tasks : ParentOk(u, d)'
  <2> SUFFICES ASSUME NEW d \in Procs, NEW u \in Tasks
               PROVE  ParentOk(u, d)'
    OBVIOUS
  <2>0. proc'[d].parent = proc[d].parent /\ adopted' = adopted
    BY <1>0, <1>9 DEF StepVforkWake
  <2>1. CASE u # t
    BY <1>0, <1>9, <2>0, <2>1, ParentFrame DEF StepVforkWake
  <2>2. CASE u = t
    BY <1>0, <1>9, <2>0, <2>2
    DEF StepVforkWake, ParentOk, Forking, ToMove, Moved, PastParent, Ctl, ForkLabels,
        WaitLabels, ExitLabels, AfterVfork, AfterReturn
  <2> QED
    BY <2>1, <2>2
<1>10. ASSUME StepTake(t)
      PROVE  \A d \in Procs, u \in Tasks : ParentOk(u, d)'
  <2> SUFFICES ASSUME NEW d \in Procs, NEW u \in Tasks
               PROVE  ParentOk(u, d)'
    OBVIOUS
  <2>0. proc'[d].parent = proc[d].parent /\ adopted' = adopted
    BY <1>0, <1>10 DEF StepTake
  <2>1. CASE u # t
    BY <1>0, <1>10, <2>0, <2>1, ParentFrame DEF StepTake
  <2>2. CASE u = t
    BY <1>0, <1>10, <2>0, <2>2
    DEF StepTake, ParentOk, Forking, ToMove, Moved, PastParent, ListOk, InList, Ctl,
        ForkLabels, WaitLabels, ExitLabels
  <2> QED
    BY <2>1, <2>2
<1>11. ASSUME NEW c \in Procs, StepEach(t, c)
      PROVE  \A d \in Procs, u \in Tasks : ParentOk(u, d)'
  <2> SUFFICES ASSUME NEW d \in Procs, NEW u \in Tasks
               PROVE  ParentOk(u, d)'
    OBVIOUS
  <2>0. Moving(t, c) /\ proc[c].life = "live"
    BY <1>0, <1>11 DEF StepEach, Moving, Custody
  <2>1. CASE d # c /\ u # t
    BY <1>0, <1>11, <2>1, ParentFrame DEF StepEach
  <2>2. CASE d # c /\ u = t
    <3>1. /\ proc'[d] = proc[d] /\ deferred' = deferred /\ adopted \subseteq adopted'
          /\ d \in loc'[t].todo => d \in loc[t].todo
          /\ d \in loc'[t].moved => d \in loc[t].moved
      BY <1>11, <2>2 DEF StepEach
    <3>2. loc'[t].of = loc[t].of /\ pc' = pc /\ pc[t] = "rpEach"
      BY <1>11 DEF StepEach
    <3> QED
      BY <1>0, <2>2, <3>1, <3>2 DEF ParentOk, Forking, ToMove, Moved, PastParent
  <2>3. CASE d = c
    <3>1. ~Forking(u, d)
      BY <1>0, <2>0, <2>3 DEF Custody
    <3>2. u # t => ~ToMove(u, d) /\ ~Moved(u, d)
      BY <1>0, <2>0, <2>3 DEF Custody, Moving, ToMove, Moved
    <3>3. /\ pc' = pc /\ (u # t => loc'[u] = loc[u]) /\ proc'[d].parent = InitProc
          /\ d \notin loc'[t].todo /\ d \in adopted' /\ loc'[t].of = loc[t].of
      BY <1>11, <2>3 DEF StepEach
    <3> QED
      BY <3>1, <3>2, <3>3 DEF ParentOk, Forking, ToMove, Moved, PastParent
  <2> QED
    BY <2>1, <2>2, <2>3
<1>12. ASSUME StepGive(t)
      PROVE  \A d \in Procs, u \in Tasks : ParentOk(u, d)'
  <2> SUFFICES ASSUME NEW d \in Procs, NEW u \in Tasks
               PROVE  ParentOk(u, d)'
    OBVIOUS
  <2>0. proc'[d].parent = proc[d].parent /\ adopted' = adopted
    BY <1>0, <1>12 DEF StepGive
  <2>1. CASE u # t
    BY <1>0, <1>12, <2>0, <2>1, ParentFrame DEF StepGive
  <2>2. CASE u = t
    BY <1>0, <1>12, <2>0, <2>2
    DEF StepGive, ParentOk, Forking, ToMove, Moved, PastParent, Ctl, ForkLabels,
        WaitLabels, ExitLabels, AfterReparent, AfterAdoption
  <2> QED
    BY <2>1, <2>2
<1>13. ASSUME StepInitPublish(t)
      PROVE  \A d \in Procs, u \in Tasks : ParentOk(u, d)'
  <2> SUFFICES ASSUME NEW d \in Procs, NEW u \in Tasks
               PROVE  ParentOk(u, d)'
    OBVIOUS
  <2>0. proc'[d].parent = proc[d].parent /\ adopted' = adopted
    BY <1>0, <1>13 DEF StepInitPublish
  <2>1. CASE u # t
    BY <1>0, <1>13, <2>0, <2>1, ParentFrame DEF StepInitPublish
  <2>2. CASE u = t
    BY <1>0, <1>13, <2>0, <2>2
    DEF StepInitPublish, ParentOk, Forking, ToMove, Moved, PastParent, Ctl, ForkLabels,
        WaitLabels, ExitLabels
  <2> QED
    BY <2>1, <2>2
<1>14. ASSUME NEW w \in SomeTask, StepInitWake(t, w)
      PROVE  \A d \in Procs, u \in Tasks : ParentOk(u, d)'
  <2> SUFFICES ASSUME NEW d \in Procs, NEW u \in Tasks
               PROVE  ParentOk(u, d)'
    OBVIOUS
  <2>0. proc'[d].parent = proc[d].parent /\ adopted' = adopted
    BY <1>0, <1>14 DEF StepInitWake
  <2>1. CASE u # t
    BY <1>0, <1>14, <2>0, <2>1, ParentFrame DEF StepInitWake, SomeTask
  <2>2. CASE u = t
    BY <1>0, <1>14, <2>0, <2>2
    DEF StepInitWake, ParentOk, Forking, ToMove, Moved, PastParent, Ctl, ForkLabels,
        WaitLabels, ExitLabels, AfterAdoption, Asleep, SomeTask
  <2> QED
    BY <2>1, <2>2
<1>15. ASSUME StepWaitSeq(t)
      PROVE  \A d \in Procs, u \in Tasks : ParentOk(u, d)'
  <2> SUFFICES ASSUME NEW d \in Procs, NEW u \in Tasks
               PROVE  ParentOk(u, d)'
    OBVIOUS
  <2>0. proc'[d].parent = proc[d].parent /\ adopted' = adopted
    BY <1>0, <1>15 DEF StepWaitSeq
  <2>1. CASE u # t
    BY <1>0, <1>15, <2>0, <2>1, ParentFrame DEF StepWaitSeq
  <2>2. CASE u = t
    BY <1>0, <1>15, <2>0, <2>2
    DEF StepWaitSeq, ParentOk, Forking, ToMove, Moved, PastParent, Ctl, ForkLabels,
        WaitLabels, ExitLabels
  <2> QED
    BY <2>1, <2>2
<1>16. ASSUME StepWaitList(t)
      PROVE  \A d \in Procs, u \in Tasks : ParentOk(u, d)'
  <2> SUFFICES ASSUME NEW d \in Procs, NEW u \in Tasks
               PROVE  ParentOk(u, d)'
    OBVIOUS
  <2>0. proc'[d].parent = proc[d].parent /\ adopted' = adopted
    BY <1>0, <1>16 DEF StepWaitList
  <2>1. CASE u # t
    BY <1>0, <1>16, <2>0, <2>1, ParentFrame DEF StepWaitList
  <2>2. CASE u = t
    BY <1>0, <1>16, <2>0, <2>2
    DEF StepWaitList, ParentOk, Forking, ToMove, Moved, PastParent, Ctl, ForkLabels,
        WaitLabels, ExitLabels
  <2> QED
    BY <2>1, <2>2
<1>17. ASSUME NEW c \in Procs, StepFound(t, c)
      PROVE  \A d \in Procs, u \in Tasks : ParentOk(u, d)'
  <2> SUFFICES ASSUME NEW d \in Procs, NEW u \in Tasks
               PROVE  ParentOk(u, d)'
    OBVIOUS
  <2>0. proc'[d].parent = proc[d].parent /\ adopted' = adopted
    BY <1>0, <1>17 DEF StepFound
  <2>1. CASE u # t
    BY <1>0, <1>17, <2>0, <2>1, ParentFrame DEF StepFound
  <2>2. CASE u = t
    BY <1>0, <1>17, <2>0, <2>2
    DEF StepFound, ParentOk, Forking, ToMove, Moved, PastParent, Ctl, ForkLabels,
        WaitLabels, ExitLabels
  <2> QED
    BY <2>1, <2>2
<1>18. ASSUME NEW c \in Procs, StepPass(t, c)
      PROVE  \A d \in Procs, u \in Tasks : ParentOk(u, d)'
  <2> SUFFICES ASSUME NEW d \in Procs, NEW u \in Tasks
               PROVE  ParentOk(u, d)'
    OBVIOUS
  <2>0. proc'[d].parent = proc[d].parent /\ adopted' = adopted
    BY <1>0, <1>18 DEF StepPass
  <2>1. CASE u # t
    BY <1>0, <1>18, <2>0, <2>1, ParentFrame DEF StepPass
  <2>2. CASE u = t
    BY <1>0, <1>18, <2>0, <2>2
    DEF StepPass, ParentOk, Forking, ToMove, Moved, PastParent, Ctl, ForkLabels,
        WaitLabels, ExitLabels
  <2> QED
    BY <2>1, <2>2
<1>19. ASSUME StepAgain(t)
      PROVE  \A d \in Procs, u \in Tasks : ParentOk(u, d)'
  <2> SUFFICES ASSUME NEW d \in Procs, NEW u \in Tasks
               PROVE  ParentOk(u, d)'
    OBVIOUS
  <2>0. proc'[d].parent = proc[d].parent /\ adopted' = adopted
    BY <1>0, <1>19 DEF StepAgain
  <2>1. CASE u # t
    BY <1>0, <1>19, <2>0, <2>1, ParentFrame DEF StepAgain
  <2>2. CASE u = t
    BY <1>0, <1>19, <2>0, <2>2
    DEF StepAgain, ParentOk, Forking, ToMove, Moved, PastParent, Ctl, ForkLabels,
        WaitLabels, ExitLabels
  <2> QED
    BY <2>1, <2>2
<1>20. ASSUME StepWaitBlock(t)
      PROVE  \A d \in Procs, u \in Tasks : ParentOk(u, d)'
  <2> SUFFICES ASSUME NEW d \in Procs, NEW u \in Tasks
               PROVE  ParentOk(u, d)'
    OBVIOUS
  <2>0. proc'[d].parent = proc[d].parent /\ adopted' = adopted
    BY <1>0, <1>20 DEF StepWaitBlock
  <2>1. CASE u # t
    BY <1>0, <1>20, <2>0, <2>1, ParentFrame DEF StepWaitBlock
  <2>2. CASE u = t
    BY <1>0, <1>20, <2>0, <2>2
    DEF StepWaitBlock, ParentOk, Forking, ToMove, Moved, PastParent, Ctl, ForkLabels,
        WaitLabels, ExitLabels
  <2> QED
    BY <2>1, <2>2
<1>21. ASSUME StepWin(t)
      PROVE  \A d \in Procs, u \in Tasks : ParentOk(u, d)'
  <2> SUFFICES ASSUME NEW d \in Procs, NEW u \in Tasks
               PROVE  ParentOk(u, d)'
    OBVIOUS
  <2>0. proc'[d].parent = proc[d].parent /\ adopted' = adopted
    BY <1>0, <1>21 DEF StepWin
  <2>1. CASE u # t
    BY <1>0, <1>21, <2>0, <2>1, ParentFrame DEF StepWin
  <2>2. CASE u = t
    BY <1>0, <1>21, <2>0, <2>2
    DEF StepWin, ParentOk, Forking, ToMove, Moved, PastParent, Ctl, ForkLabels,
        WaitLabels, ExitLabels
  <2> QED
    BY <2>1, <2>2
<1>22. ASSUME StepLose(t)
      PROVE  \A d \in Procs, u \in Tasks : ParentOk(u, d)'
  <2> SUFFICES ASSUME NEW d \in Procs, NEW u \in Tasks
               PROVE  ParentOk(u, d)'
    OBVIOUS
  <2>0. proc'[d].parent = proc[d].parent /\ adopted' = adopted
    BY <1>0, <1>22 DEF StepLose
  <2>1. CASE u # t
    BY <1>0, <1>22, <2>0, <2>1, ParentFrame DEF StepLose
  <2>2. CASE u = t
    BY <1>0, <1>22, <2>0, <2>2
    DEF StepLose, ParentOk, Forking, ToMove, Moved, PastParent, Ctl, ForkLabels,
        WaitLabels, ExitLabels
  <2> QED
    BY <2>1, <2>2
<1>23. ASSUME StepFree(t)
      PROVE  \A d \in Procs, u \in Tasks : ParentOk(u, d)'
  <2> SUFFICES ASSUME NEW d \in Procs, NEW u \in Tasks
               PROVE  ParentOk(u, d)'
    OBVIOUS
  <2>0. proc'[d].parent = proc[d].parent /\ adopted' = adopted
    BY <1>0, <1>23 DEF StepFree
  <2>1. CASE u # t
    BY <1>0, <1>23, <2>0, <2>1, ParentFrame DEF StepFree
  <2>2. CASE u = t
    BY <1>0, <1>23, <2>0, <2>2
    DEF StepFree, ParentOk, Forking, ToMove, Moved, PastParent, Ctl, ForkLabels,
        WaitLabels, ExitLabels, AfterReturn
  <2> QED
    BY <2>1, <2>2
<1>24. ASSUME StepCount(t)
      PROVE  \A d \in Procs, u \in Tasks : ParentOk(u, d)'
  <2> SUFFICES ASSUME NEW d \in Procs, NEW u \in Tasks
               PROVE  ParentOk(u, d)'
    OBVIOUS
  <2>0. proc'[d].parent = proc[d].parent /\ adopted' = adopted
    BY <1>0, <1>24 DEF StepCount
  <2>1. CASE u # t
    BY <1>0, <1>24, <2>0, <2>1, ParentFrame DEF StepCount
  <2>2. CASE u = t
    BY <1>0, <1>24, <2>0, <2>2
    DEF StepCount, ParentOk, Forking, ToMove, Moved, PastParent, Ctl, ForkLabels,
        WaitLabels, ExitLabels
  <2> QED
    BY <2>1, <2>2
<1>25. ASSUME StepDetach(t)
      PROVE  \A d \in Procs, u \in Tasks : ParentOk(u, d)'
  <2> SUFFICES ASSUME NEW d \in Procs, NEW u \in Tasks
               PROVE  ParentOk(u, d)'
    OBVIOUS
  <2>0. proc'[d].parent = proc[d].parent /\ adopted' = adopted
    BY <1>0, <1>25 DEF StepDetach
  <2>1. CASE u # t
    BY <1>0, <1>25, <2>0, <2>1, ParentFrame DEF StepDetach
  <2>2. CASE u = t
    BY <1>0, <1>25, <2>0, <2>2
    DEF StepDetach, ParentOk, Forking, ToMove, Moved, PastParent, ExitOk, IsLast, Ctl,
        ForkLabels, WaitLabels, ExitLabels
  <2> QED
    BY <2>1, <2>2
<1>26. ASSUME StepParent(t)
      PROVE  \A d \in Procs, u \in Tasks : ParentOk(u, d)'
  <2> SUFFICES ASSUME NEW d \in Procs, NEW u \in Tasks
               PROVE  ParentOk(u, d)'
    OBVIOUS
  <2>0. proc'[d].parent = proc[d].parent /\ adopted' = adopted
    BY <1>0, <1>26 DEF StepParent
  <2>1. CASE u # t
    BY <1>0, <1>26, <2>0, <2>1, ParentFrame DEF StepParent
  <2>2. CASE u = t
    BY <1>0, <1>26, <2>0, <2>2
    DEF StepParent, ParentOk, Forking, ToMove, Moved, PastParent, Ctl, ForkLabels,
        WaitLabels, ExitLabels
  <2> QED
    BY <2>1, <2>2
<1>27. ASSUME StepDefer(t)
      PROVE  \A d \in Procs, u \in Tasks : ParentOk(u, d)'
  <2> SUFFICES ASSUME NEW d \in Procs, NEW u \in Tasks
               PROVE  ParentOk(u, d)'
    OBVIOUS
  <2>0. proc'[d].parent = proc[d].parent /\ adopted' = adopted
    BY <1>0, <1>27 DEF StepDefer
  <2>1. CASE u # t
    BY <1>0, <1>27, <2>0, <2>1, ParentFrame DEF StepDefer
  <2>2. CASE u = t
    BY <1>0, <1>27, <2>0, <2>2
    DEF StepDefer, ParentOk, Forking, ToMove, Moved, PastParent, ExitOk, Ctl,
        ForkLabels, WaitLabels, ExitLabels
  <2> QED
    BY <2>1, <2>2
<1>28. ASSUME StepSwitch(t)
      PROVE  \A d \in Procs, u \in Tasks : ParentOk(u, d)'
  <2> SUFFICES ASSUME NEW d \in Procs, NEW u \in Tasks
               PROVE  ParentOk(u, d)'
    OBVIOUS
  <2>0. proc'[d].parent = proc[d].parent /\ adopted' = adopted
    BY <1>0, <1>28 DEF StepSwitch
  <2>1. CASE u # t
    BY <1>0, <1>28, <2>0, <2>1, ParentFrame DEF StepSwitch
  <2>2. CASE u = t
    BY <1>0, <1>28, <2>0, <2>2
    DEF StepSwitch, ParentOk, Forking, ToMove, Moved, PastParent, Ctl, ForkLabels,
        WaitLabels, ExitLabels
  <2> QED
    BY <2>1, <2>2
<1>29. ASSUME StepGroup(t)
      PROVE  \A d \in Procs, u \in Tasks : ParentOk(u, d)'
  <2> SUFFICES ASSUME NEW d \in Procs, NEW u \in Tasks
               PROVE  ParentOk(u, d)'
    OBVIOUS
  <2>0. proc'[d].parent = proc[d].parent /\ adopted' = adopted
    BY <1>0, <1>29 DEF StepGroup
  <2>1. CASE u # t
    BY <1>0, <1>29, <2>0, <2>1, ParentFrame DEF StepGroup
  <2>2. CASE u = t
    BY <1>0, <1>29, <2>0, <2>2
    DEF StepGroup, ParentOk, Forking, ToMove, Moved, PastParent, Ctl, ForkLabels,
        WaitLabels, ExitLabels
  <2> QED
    BY <2>1, <2>2
<1>30. ASSUME NEW k \in Procs, StepKill(t, k)
      PROVE  \A d \in Procs, u \in Tasks : ParentOk(u, d)'
  <2> SUFFICES ASSUME NEW d \in Procs, NEW u \in Tasks
               PROVE  ParentOk(u, d)'
    OBVIOUS
  <2>0. proc'[d].parent = proc[d].parent /\ adopted' = adopted
    BY <1>0, <1>30 DEF StepKill
  <2>1. CASE u # t
    BY <1>0, <1>30, <2>0, <2>1, ParentFrame DEF StepKill
  <2>2. CASE u = t
    BY <1>0, <1>30, <2>0, <2>2
    DEF StepKill, ParentOk, Forking, ToMove, Moved, PastParent, Ctl, ForkLabels,
        WaitLabels, ExitLabels
  <2> QED
    BY <2>1, <2>2
<1>31. ASSUME NEW w \in Tasks, StepFlag(t, w)
      PROVE  \A d \in Procs, u \in Tasks : ParentOk(u, d)'
  <2> SUFFICES ASSUME NEW d \in Procs, NEW u \in Tasks
               PROVE  ParentOk(u, d)'
    OBVIOUS
  <2>0. proc'[d].parent = proc[d].parent /\ adopted' = adopted
    BY <1>0, <1>31 DEF StepFlag
  <2>1. CASE u # t
    BY <1>0, <1>31, <2>0, <2>1, ParentFrame DEF StepFlag
  <2>2. CASE u = t
    BY <1>0, <1>31, <2>0, <2>2
    DEF StepFlag, ParentOk, Forking, ToMove, Moved, PastParent, Ctl, ForkLabels,
        WaitLabels, ExitLabels
  <2> QED
    BY <2>1, <2>2
<1>32. ASSUME NEW w \in Tasks, StepFlagOnly(t, w)
      PROVE  \A d \in Procs, u \in Tasks : ParentOk(u, d)'
  <2> SUFFICES ASSUME NEW d \in Procs, NEW u \in Tasks
               PROVE  ParentOk(u, d)'
    OBVIOUS
  <2>0. proc'[d].parent = proc[d].parent /\ adopted' = adopted
    BY <1>0, <1>32 DEF StepFlagOnly
  <2>1. CASE u # t
    BY <1>0, <1>32, <2>0, <2>1, ParentFrame DEF StepFlagOnly
  <2>2. CASE u = t
    BY <1>0, <1>32, <2>0, <2>2
    DEF StepFlagOnly, ParentOk, Forking, ToMove, Moved, PastParent, Ctl, ForkLabels,
        WaitLabels, ExitLabels
  <2> QED
    BY <2>1, <2>2
<1>33. ASSUME StepNotify(t)
      PROVE  \A d \in Procs, u \in Tasks : ParentOk(u, d)'
  <2> SUFFICES ASSUME NEW d \in Procs, NEW u \in Tasks
               PROVE  ParentOk(u, d)'
    OBVIOUS
  <2>0. proc'[d].parent = proc[d].parent /\ adopted' = adopted
    BY <1>0, <1>33 DEF StepNotify
  <2>1. CASE u # t
    BY <1>0, <1>33, <2>0, <2>1, ParentFrame DEF StepNotify
  <2>2. CASE u = t
    BY <1>0, <1>33, <2>0, <2>2
    DEF StepNotify, ParentOk, Forking, ToMove, Moved, PastParent, Ctl, ForkLabels,
        WaitLabels, ExitLabels
  <2> QED
    BY <2>1, <2>2
<1>34. ASSUME StepFinish(t)
      PROVE  \A d \in Procs, u \in Tasks : ParentOk(u, d)'
  <2> SUFFICES ASSUME NEW d \in Procs, NEW u \in Tasks
               PROVE  ParentOk(u, d)'
    OBVIOUS
  <2>0. proc'[d].parent = proc[d].parent /\ adopted' = adopted
    BY <1>0, <1>34 DEF StepFinish
  <2>1. CASE u # t
    BY <1>0, <1>34, <2>0, <2>1, ParentFrame DEF StepFinish
  <2>2. CASE u = t
    BY <1>0, <1>34, <2>0, <2>2
    DEF StepFinish, ParentOk, Forking, ToMove, Moved, PastParent, Ctl, ForkLabels,
        WaitLabels, ExitLabels
  <2> QED
    BY <2>1, <2>2
<1>35. ASSUME StepEvent(t)
      PROVE  \A d \in Procs, u \in Tasks : ParentOk(u, d)'
  <2> SUFFICES ASSUME NEW d \in Procs, NEW u \in Tasks
               PROVE  ParentOk(u, d)'
    OBVIOUS
  <2>0. proc'[d].parent = proc[d].parent /\ adopted' = adopted
    BY <1>0, <1>35 DEF StepEvent
  <2>1. CASE u # t
    BY <1>0, <1>35, <2>0, <2>1, ParentFrame DEF StepEvent
  <2>2. CASE u = t
    BY <1>0, <1>35, <2>0, <2>2
    DEF StepEvent, ParentOk, Forking, ToMove, Moved, PastParent, Ctl, ForkLabels,
        WaitLabels, ExitLabels
  <2> QED
    BY <2>1, <2>2
<1>36. ASSUME StepCollect(t)
      PROVE  \A d \in Procs, u \in Tasks : ParentOk(u, d)'
  <2> SUFFICES ASSUME NEW d \in Procs, NEW u \in Tasks
               PROVE  ParentOk(u, d)'
    OBVIOUS
  <2>0. proc'[d].parent = proc[d].parent /\ adopted' = adopted
    BY <1>0, <1>36 DEF StepCollect
  <2>1. CASE u # t
    BY <1>0, <1>36, <2>0, <2>1, ParentFrame DEF StepCollect
  <2>2. CASE u = t
    BY <1>0, <1>36, <2>0, <2>2
    DEF StepCollect, ParentOk, Forking, ToMove, Moved, PastParent, Ctl, ForkLabels,
        WaitLabels, ExitLabels
  <2> QED
    BY <2>1, <2>2
<1>37. ASSUME NEW w \in Tasks, StepWakeOne(t, w)
      PROVE  \A d \in Procs, u \in Tasks : ParentOk(u, d)'
  <2> SUFFICES ASSUME NEW d \in Procs, NEW u \in Tasks
               PROVE  ParentOk(u, d)'
    OBVIOUS
  <2>0. proc'[d].parent = proc[d].parent /\ adopted' = adopted
    BY <1>0, <1>37 DEF StepWakeOne
  <2>1. CASE u # t
    BY <1>0, <1>37, <2>0, <2>1, ParentFrame DEF StepWakeOne
  <2>2. CASE u = t
    BY <1>0, <1>37, <2>0, <2>2
    DEF StepWakeOne, ParentOk, Forking, ToMove, Moved, PastParent, Ctl, ForkLabels,
        WaitLabels, ExitLabels
  <2> QED
    BY <2>1, <2>2
<1>38. ASSUME StepWakesDone(t)
      PROVE  \A d \in Procs, u \in Tasks : ParentOk(u, d)'
  <2> SUFFICES ASSUME NEW d \in Procs, NEW u \in Tasks
               PROVE  ParentOk(u, d)'
    OBVIOUS
  <2>0. proc'[d].parent = proc[d].parent /\ adopted' = adopted
    BY <1>0, <1>38 DEF StepWakesDone
  <2>1. CASE u # t
    BY <1>0, <1>38, <2>0, <2>1, ParentFrame DEF StepWakesDone
  <2>2. CASE u = t
    BY <1>0, <1>38, <2>0, <2>2
    DEF StepWakesDone, ParentOk, Forking, ToMove, Moved, PastParent, Ctl, ForkLabels,
        WaitLabels, ExitLabels
  <2> QED
    BY <2>1, <2>2
<1> QED
  BY <1>1, <1>2, <1>3, <1>4, <1>5, <1>6, <1>7, <1>8, <1>9, <1>10, <1>11, <1>12, <1>13,
     <1>14, <1>15, <1>16, <1>17, <1>18, <1>19, <1>20, <1>21, <1>22, <1>23, <1>24, <1>25,
     <1>26, <1>27, <1>28, <1>29, <1>30, <1>31, <1>32, <1>33, <1>34, <1>35, <1>36, <1>37,
     <1>38
  DEF Step

\* Every step leaves a listed child with its parent pointer on the list's owner.
LEMMA ListStep ==
  ASSUME ReapInv, FamilyInv, NEW t \in Tasks, Step(t)
  PROVE  \A d \in Procs : ListOk(d)'
<1>0. /\ ProcOf[t] \in Procs /\ Ctl(t) /\ \A d \in Procs : Custody(d) /\ ListOk(d) /\ ParentOk(t, d)
  BY DEF ReapInv, ControlInv, CustodyInv, FamilyInv
<1>a. ASSUME NEW d \in Procs, proc'[d].parent = proc[d].parent,
             \A q \in Procs : InList(q, d)' => InList(q, d)
      PROVE  ListOk(d)'
  BY <1>0, <1>a DEF ListOk
<1>1. ASSUME StepReturn(t)
      PROVE  \A d \in Procs : ListOk(d)'
  <2> SUFFICES ASSUME NEW d \in Procs
               PROVE  ListOk(d)'
    OBVIOUS
  <2>1. \A q \in Procs : InList(q, d)' => InList(q, d)
    BY <1>0, <1>1 DEF StepReturn, InList
  <2>2. proc'[d].parent = proc[d].parent
    BY <1>0, <1>1 DEF StepReturn
  <2> QED
    BY <1>a, <2>1, <2>2
<1>2. ASSUME NEW c \in Procs, NEW v \in BOOLEAN, StepFork(t, c, v)
      PROVE  \A d \in Procs : ListOk(d)'
  <2> SUFFICES ASSUME NEW d \in Procs
               PROVE  ListOk(d)'
    OBVIOUS
  <2>1. \A q \in Procs : InList(q, d)' => InList(q, d)
    BY <1>2 DEF StepFork, InList
  <2>2. d = c => \A q \in Procs : ~InList(q, d)
    BY <1>0, <1>2 DEF StepFork, Custody
  <2>3. d # c => proc'[d].parent = proc[d].parent
    BY <1>2 DEF StepFork
  <2> QED
    BY <1>0, <2>1, <2>2, <2>3 DEF ListOk
<1>3. ASSUME StepPush(t)
      PROVE  \A d \in Procs : ListOk(d)'
  <2> SUFFICES ASSUME NEW d \in Procs
               PROVE  ListOk(d)'
    OBVIOUS
  <2>1. ASSUME NEW q \in Procs
        PROVE  InList(q, d)' => InList(q, d) \/ (q = ProcOf[t] /\ Forking(t, d))
    <3>1. CASE q = ProcOf[t]
      <4>1. proc'[q].children = proc[q].children \cup {loc[t].of}
        BY <1>3, <3>1 DEF StepPush
      <4> QED
        BY <1>3, <3>1, <4>1 DEF StepPush, InList, Forking
    <3>2. CASE q # ProcOf[t]
      BY <1>3, <3>2 DEF StepPush, InList
    <3> QED
      BY <3>1, <3>2
  <2>2. proc'[d].parent = proc[d].parent
    BY <1>3 DEF StepPush
  <2> QED
    BY <1>0, <2>1, <2>2 DEF ListOk, ParentOk
<1>4. ASSUME StepPublish(t)
      PROVE  \A d \in Procs : ListOk(d)'
  <2> SUFFICES ASSUME NEW d \in Procs
               PROVE  ListOk(d)'
    OBVIOUS
  <2>1. \A q \in Procs : InList(q, d)' => InList(q, d)
    BY <1>0, <1>4 DEF StepPublish, InList
  <2>2. proc'[d].parent = proc[d].parent
    BY <1>0, <1>4 DEF StepPublish
  <2> QED
    BY <1>a, <2>1, <2>2
<1>5. ASSUME StepStart(t)
      PROVE  \A d \in Procs : ListOk(d)'
  <2> SUFFICES ASSUME NEW d \in Procs
               PROVE  ListOk(d)'
    OBVIOUS
  <2>1. \A q \in Procs : InList(q, d)' => InList(q, d)
    BY <1>0, <1>5 DEF StepStart, InList
  <2>2. proc'[d].parent = proc[d].parent
    BY <1>0, <1>5 DEF StepStart
  <2> QED
    BY <1>a, <2>1, <2>2
<1>6. ASSUME StepVforkBlock(t)
      PROVE  \A d \in Procs : ListOk(d)'
  <2> SUFFICES ASSUME NEW d \in Procs
               PROVE  ListOk(d)'
    OBVIOUS
  <2>1. \A q \in Procs : InList(q, d)' => InList(q, d)
    BY <1>0, <1>6 DEF StepVforkBlock, InList
  <2>2. proc'[d].parent = proc[d].parent
    BY <1>0, <1>6 DEF StepVforkBlock
  <2> QED
    BY <1>a, <2>1, <2>2
<1>7. ASSUME StepExec(t)
      PROVE  \A d \in Procs : ListOk(d)'
  <2> SUFFICES ASSUME NEW d \in Procs
               PROVE  ListOk(d)'
    OBVIOUS
  <2>1. \A q \in Procs : InList(q, d)' => InList(q, d)
    BY <1>0, <1>7 DEF StepExec, InList
  <2>2. proc'[d].parent = proc[d].parent
    BY <1>0, <1>7 DEF StepExec
  <2> QED
    BY <1>a, <2>1, <2>2
<1>8. ASSUME StepVforkClear(t)
      PROVE  \A d \in Procs : ListOk(d)'
  <2> SUFFICES ASSUME NEW d \in Procs
               PROVE  ListOk(d)'
    OBVIOUS
  <2>1. \A q \in Procs : InList(q, d)' => InList(q, d)
    BY <1>0, <1>8 DEF StepVforkClear, InList
  <2>2. proc'[d].parent = proc[d].parent
    BY <1>0, <1>8 DEF StepVforkClear
  <2> QED
    BY <1>a, <2>1, <2>2
<1>9. ASSUME StepVforkWake(t)
      PROVE  \A d \in Procs : ListOk(d)'
  <2> SUFFICES ASSUME NEW d \in Procs
               PROVE  ListOk(d)'
    OBVIOUS
  <2>1. \A q \in Procs : InList(q, d)' => InList(q, d)
    BY <1>0, <1>9 DEF StepVforkWake, InList
  <2>2. proc'[d].parent = proc[d].parent
    BY <1>0, <1>9 DEF StepVforkWake
  <2> QED
    BY <1>a, <2>1, <2>2
<1>10. ASSUME StepTake(t)
      PROVE  \A d \in Procs : ListOk(d)'
  <2> SUFFICES ASSUME NEW d \in Procs
               PROVE  ListOk(d)'
    OBVIOUS
  <2>1. \A q \in Procs : InList(q, d)' => InList(q, d)
    BY <1>0, <1>10 DEF StepTake, InList
  <2>2. proc'[d].parent = proc[d].parent
    BY <1>0, <1>10 DEF StepTake
  <2> QED
    BY <1>a, <2>1, <2>2
<1>11. ASSUME NEW c \in Procs, StepEach(t, c)
      PROVE  \A d \in Procs : ListOk(d)'
  <2> SUFFICES ASSUME NEW d \in Procs
               PROVE  ListOk(d)'
    OBVIOUS
  <2>1. \A q \in Procs : InList(q, d)' => InList(q, d)
    BY <1>11 DEF StepEach, InList
  <2>2. d = c => \A q \in Procs : ~InList(q, d)
    BY <1>0, <1>11 DEF StepEach, Custody, Moving
  <2>3. d # c => proc'[d].parent = proc[d].parent
    BY <1>11 DEF StepEach
  <2> QED
    BY <1>0, <2>1, <2>2, <2>3 DEF ListOk
<1>12. ASSUME StepGive(t)
      PROVE  \A d \in Procs : ListOk(d)'
  <2> SUFFICES ASSUME NEW d \in Procs
               PROVE  ListOk(d)'
    OBVIOUS
  <2>1. ASSUME NEW q \in Procs
        PROVE  InList(q, d)' => InList(q, d) \/ (q = InitProc /\ Moved(t, d))
    BY <1>12 DEF StepGive, InList, Moved
  <2>2. proc'[d].parent = proc[d].parent
    BY <1>12 DEF StepGive
  <2> QED
    BY <1>0, <2>1, <2>2 DEF ListOk, ParentOk
<1>13. ASSUME StepInitPublish(t)
      PROVE  \A d \in Procs : ListOk(d)'
  <2> SUFFICES ASSUME NEW d \in Procs
               PROVE  ListOk(d)'
    OBVIOUS
  <2>1. \A q \in Procs : InList(q, d)' => InList(q, d)
    BY <1>0, <1>13 DEF StepInitPublish, InList
  <2>2. proc'[d].parent = proc[d].parent
    BY <1>0, <1>13 DEF StepInitPublish
  <2> QED
    BY <1>a, <2>1, <2>2
<1>14. ASSUME NEW w \in SomeTask, StepInitWake(t, w)
      PROVE  \A d \in Procs : ListOk(d)'
  <2> SUFFICES ASSUME NEW d \in Procs
               PROVE  ListOk(d)'
    OBVIOUS
  <2>1. \A q \in Procs : InList(q, d)' => InList(q, d)
    BY <1>0, <1>14 DEF StepInitWake, InList
  <2>2. proc'[d].parent = proc[d].parent
    BY <1>0, <1>14 DEF StepInitWake
  <2> QED
    BY <1>a, <2>1, <2>2
<1>15. ASSUME StepWaitSeq(t)
      PROVE  \A d \in Procs : ListOk(d)'
  <2> SUFFICES ASSUME NEW d \in Procs
               PROVE  ListOk(d)'
    OBVIOUS
  <2>1. \A q \in Procs : InList(q, d)' => InList(q, d)
    BY <1>0, <1>15 DEF StepWaitSeq, InList
  <2>2. proc'[d].parent = proc[d].parent
    BY <1>0, <1>15 DEF StepWaitSeq
  <2> QED
    BY <1>a, <2>1, <2>2
<1>16. ASSUME StepWaitList(t)
      PROVE  \A d \in Procs : ListOk(d)'
  <2> SUFFICES ASSUME NEW d \in Procs
               PROVE  ListOk(d)'
    OBVIOUS
  <2>1. \A q \in Procs : InList(q, d)' => InList(q, d)
    BY <1>0, <1>16 DEF StepWaitList, InList
  <2>2. proc'[d].parent = proc[d].parent
    BY <1>0, <1>16 DEF StepWaitList
  <2> QED
    BY <1>a, <2>1, <2>2
<1>17. ASSUME NEW c \in Procs, StepFound(t, c)
      PROVE  \A d \in Procs : ListOk(d)'
  <2> SUFFICES ASSUME NEW d \in Procs
               PROVE  ListOk(d)'
    OBVIOUS
  <2>1. \A q \in Procs : InList(q, d)' => InList(q, d)
    BY <1>0, <1>17 DEF StepFound, InList
  <2>2. proc'[d].parent = proc[d].parent
    BY <1>0, <1>17 DEF StepFound
  <2> QED
    BY <1>a, <2>1, <2>2
<1>18. ASSUME NEW c \in Procs, StepPass(t, c)
      PROVE  \A d \in Procs : ListOk(d)'
  <2> SUFFICES ASSUME NEW d \in Procs
               PROVE  ListOk(d)'
    OBVIOUS
  <2>1. \A q \in Procs : InList(q, d)' => InList(q, d)
    BY <1>0, <1>18 DEF StepPass, InList
  <2>2. proc'[d].parent = proc[d].parent
    BY <1>0, <1>18 DEF StepPass
  <2> QED
    BY <1>a, <2>1, <2>2
<1>19. ASSUME StepAgain(t)
      PROVE  \A d \in Procs : ListOk(d)'
  <2> SUFFICES ASSUME NEW d \in Procs
               PROVE  ListOk(d)'
    OBVIOUS
  <2>1. \A q \in Procs : InList(q, d)' => InList(q, d)
    BY <1>0, <1>19 DEF StepAgain, InList
  <2>2. proc'[d].parent = proc[d].parent
    BY <1>0, <1>19 DEF StepAgain
  <2> QED
    BY <1>a, <2>1, <2>2
<1>20. ASSUME StepWaitBlock(t)
      PROVE  \A d \in Procs : ListOk(d)'
  <2> SUFFICES ASSUME NEW d \in Procs
               PROVE  ListOk(d)'
    OBVIOUS
  <2>1. \A q \in Procs : InList(q, d)' => InList(q, d)
    BY <1>0, <1>20 DEF StepWaitBlock, InList
  <2>2. proc'[d].parent = proc[d].parent
    BY <1>0, <1>20 DEF StepWaitBlock
  <2> QED
    BY <1>a, <2>1, <2>2
<1>21. ASSUME StepWin(t)
      PROVE  \A d \in Procs : ListOk(d)'
  <2> SUFFICES ASSUME NEW d \in Procs
               PROVE  ListOk(d)'
    OBVIOUS
  <2>1. \A q \in Procs : InList(q, d)' => InList(q, d)
    BY <1>0, <1>21 DEF StepWin, InList
  <2>2. proc'[d].parent = proc[d].parent
    BY <1>0, <1>21 DEF StepWin
  <2> QED
    BY <1>a, <2>1, <2>2
<1>22. ASSUME StepLose(t)
      PROVE  \A d \in Procs : ListOk(d)'
  <2> SUFFICES ASSUME NEW d \in Procs
               PROVE  ListOk(d)'
    OBVIOUS
  <2>1. \A q \in Procs : InList(q, d)' => InList(q, d)
    BY <1>0, <1>22 DEF StepLose, InList
  <2>2. proc'[d].parent = proc[d].parent
    BY <1>0, <1>22 DEF StepLose
  <2> QED
    BY <1>a, <2>1, <2>2
<1>23. ASSUME StepFree(t)
      PROVE  \A d \in Procs : ListOk(d)'
  <2> SUFFICES ASSUME NEW d \in Procs
               PROVE  ListOk(d)'
    OBVIOUS
  <2>1. \A q \in Procs : InList(q, d)' => InList(q, d)
    BY <1>0, <1>23 DEF StepFree, InList
  <2>2. proc'[d].parent = proc[d].parent
    BY <1>0, <1>23 DEF StepFree
  <2> QED
    BY <1>a, <2>1, <2>2
<1>24. ASSUME StepCount(t)
      PROVE  \A d \in Procs : ListOk(d)'
  <2> SUFFICES ASSUME NEW d \in Procs
               PROVE  ListOk(d)'
    OBVIOUS
  <2>1. \A q \in Procs : InList(q, d)' => InList(q, d)
    BY <1>0, <1>24 DEF StepCount, InList
  <2>2. proc'[d].parent = proc[d].parent
    BY <1>0, <1>24 DEF StepCount
  <2> QED
    BY <1>a, <2>1, <2>2
<1>25. ASSUME StepDetach(t)
      PROVE  \A d \in Procs : ListOk(d)'
  <2> SUFFICES ASSUME NEW d \in Procs
               PROVE  ListOk(d)'
    OBVIOUS
  <2>1. \A q \in Procs : InList(q, d)' => InList(q, d)
    BY <1>0, <1>25 DEF StepDetach, InList
  <2>2. proc'[d].parent = proc[d].parent
    BY <1>0, <1>25 DEF StepDetach
  <2> QED
    BY <1>a, <2>1, <2>2
<1>26. ASSUME StepParent(t)
      PROVE  \A d \in Procs : ListOk(d)'
  <2> SUFFICES ASSUME NEW d \in Procs
               PROVE  ListOk(d)'
    OBVIOUS
  <2>1. \A q \in Procs : InList(q, d)' => InList(q, d)
    BY <1>0, <1>26 DEF StepParent, InList
  <2>2. proc'[d].parent = proc[d].parent
    BY <1>0, <1>26 DEF StepParent
  <2> QED
    BY <1>a, <2>1, <2>2
<1>27. ASSUME StepDefer(t)
      PROVE  \A d \in Procs : ListOk(d)'
  <2> SUFFICES ASSUME NEW d \in Procs
               PROVE  ListOk(d)'
    OBVIOUS
  <2>1. \A q \in Procs : InList(q, d)' => InList(q, d)
    BY <1>0, <1>27 DEF StepDefer, InList
  <2>2. proc'[d].parent = proc[d].parent
    BY <1>0, <1>27 DEF StepDefer
  <2> QED
    BY <1>a, <2>1, <2>2
<1>28. ASSUME StepSwitch(t)
      PROVE  \A d \in Procs : ListOk(d)'
  <2> SUFFICES ASSUME NEW d \in Procs
               PROVE  ListOk(d)'
    OBVIOUS
  <2>1. \A q \in Procs : InList(q, d)' => InList(q, d)
    BY <1>0, <1>28 DEF StepSwitch, InList
  <2>2. proc'[d].parent = proc[d].parent
    BY <1>0, <1>28 DEF StepSwitch
  <2> QED
    BY <1>a, <2>1, <2>2
<1>29. ASSUME StepGroup(t)
      PROVE  \A d \in Procs : ListOk(d)'
  <2> SUFFICES ASSUME NEW d \in Procs
               PROVE  ListOk(d)'
    OBVIOUS
  <2>1. \A q \in Procs : InList(q, d)' => InList(q, d)
    BY <1>0, <1>29 DEF StepGroup, InList
  <2>2. proc'[d].parent = proc[d].parent
    BY <1>0, <1>29 DEF StepGroup
  <2> QED
    BY <1>a, <2>1, <2>2
<1>30. ASSUME NEW k \in Procs, StepKill(t, k)
      PROVE  \A d \in Procs : ListOk(d)'
  <2> SUFFICES ASSUME NEW d \in Procs
               PROVE  ListOk(d)'
    OBVIOUS
  <2>1. \A q \in Procs : InList(q, d)' => InList(q, d)
    BY <1>0, <1>30 DEF StepKill, InList
  <2>2. proc'[d].parent = proc[d].parent
    BY <1>0, <1>30 DEF StepKill
  <2> QED
    BY <1>a, <2>1, <2>2
<1>31. ASSUME NEW w \in Tasks, StepFlag(t, w)
      PROVE  \A d \in Procs : ListOk(d)'
  <2> SUFFICES ASSUME NEW d \in Procs
               PROVE  ListOk(d)'
    OBVIOUS
  <2>1. \A q \in Procs : InList(q, d)' => InList(q, d)
    BY <1>0, <1>31 DEF StepFlag, InList
  <2>2. proc'[d].parent = proc[d].parent
    BY <1>0, <1>31 DEF StepFlag
  <2> QED
    BY <1>a, <2>1, <2>2
<1>32. ASSUME NEW w \in Tasks, StepFlagOnly(t, w)
      PROVE  \A d \in Procs : ListOk(d)'
  <2> SUFFICES ASSUME NEW d \in Procs
               PROVE  ListOk(d)'
    OBVIOUS
  <2>1. \A q \in Procs : InList(q, d)' => InList(q, d)
    BY <1>0, <1>32 DEF StepFlagOnly, InList
  <2>2. proc'[d].parent = proc[d].parent
    BY <1>0, <1>32 DEF StepFlagOnly
  <2> QED
    BY <1>a, <2>1, <2>2
<1>33. ASSUME StepNotify(t)
      PROVE  \A d \in Procs : ListOk(d)'
  <2> SUFFICES ASSUME NEW d \in Procs
               PROVE  ListOk(d)'
    OBVIOUS
  <2>1. \A q \in Procs : InList(q, d)' => InList(q, d)
    BY <1>0, <1>33 DEF StepNotify, InList
  <2>2. proc'[d].parent = proc[d].parent
    BY <1>0, <1>33 DEF StepNotify
  <2> QED
    BY <1>a, <2>1, <2>2
<1>34. ASSUME StepFinish(t)
      PROVE  \A d \in Procs : ListOk(d)'
  <2> SUFFICES ASSUME NEW d \in Procs
               PROVE  ListOk(d)'
    OBVIOUS
  <2>1. \A q \in Procs : InList(q, d)' => InList(q, d)
    BY <1>0, <1>34 DEF StepFinish, InList
  <2>2. proc'[d].parent = proc[d].parent
    BY <1>0, <1>34 DEF StepFinish
  <2> QED
    BY <1>a, <2>1, <2>2
<1>35. ASSUME StepEvent(t)
      PROVE  \A d \in Procs : ListOk(d)'
  <2> SUFFICES ASSUME NEW d \in Procs
               PROVE  ListOk(d)'
    OBVIOUS
  <2>1. \A q \in Procs : InList(q, d)' => InList(q, d)
    BY <1>0, <1>35 DEF StepEvent, InList
  <2>2. proc'[d].parent = proc[d].parent
    BY <1>0, <1>35 DEF StepEvent
  <2> QED
    BY <1>a, <2>1, <2>2
<1>36. ASSUME StepCollect(t)
      PROVE  \A d \in Procs : ListOk(d)'
  <2> SUFFICES ASSUME NEW d \in Procs
               PROVE  ListOk(d)'
    OBVIOUS
  <2>1. \A q \in Procs : InList(q, d)' => InList(q, d)
    BY <1>0, <1>36 DEF StepCollect, InList
  <2>2. proc'[d].parent = proc[d].parent
    BY <1>0, <1>36 DEF StepCollect
  <2> QED
    BY <1>a, <2>1, <2>2
<1>37. ASSUME NEW w \in Tasks, StepWakeOne(t, w)
      PROVE  \A d \in Procs : ListOk(d)'
  <2> SUFFICES ASSUME NEW d \in Procs
               PROVE  ListOk(d)'
    OBVIOUS
  <2>1. \A q \in Procs : InList(q, d)' => InList(q, d)
    BY <1>0, <1>37 DEF StepWakeOne, InList
  <2>2. proc'[d].parent = proc[d].parent
    BY <1>0, <1>37 DEF StepWakeOne
  <2> QED
    BY <1>a, <2>1, <2>2
<1>38. ASSUME StepWakesDone(t)
      PROVE  \A d \in Procs : ListOk(d)'
  <2> SUFFICES ASSUME NEW d \in Procs
               PROVE  ListOk(d)'
    OBVIOUS
  <2>1. \A q \in Procs : InList(q, d)' => InList(q, d)
    BY <1>0, <1>38 DEF StepWakesDone, InList
  <2>2. proc'[d].parent = proc[d].parent
    BY <1>0, <1>38 DEF StepWakesDone
  <2> QED
    BY <1>a, <2>1, <2>2
<1> QED
  BY <1>1, <1>2, <1>3, <1>4, <1>5, <1>6, <1>7, <1>8, <1>9, <1>10, <1>11, <1>12, <1>13,
     <1>14, <1>15, <1>16, <1>17, <1>18, <1>19, <1>20, <1>21, <1>22, <1>23, <1>24, <1>25,
     <1>26, <1>27, <1>28, <1>29, <1>30, <1>31, <1>32, <1>33, <1>34, <1>35, <1>36, <1>37,
     <1>38
  DEF Step

\* A process runs out of threads only by the exit of a last one.
LEMMA LastExistsStep ==
  ASSUME ReapInv, FamilyInv, NEW t \in Tasks, Step(t)
  PROVE  \A d \in Procs : LastExists(d)'
<1>0. /\ ProcOf[t] \in Procs /\ Ctl(t) /\ \A d \in Procs : LastExists(d)
  BY DEF ReapInv, ControlInv, FamilyInv
<1>a. ASSUME NEW d \in Procs, proc'[d].alive = proc[d].alive,
             proc[d].life = "unborn" => proc'[d].life = "unborn",
             \A u \in Tasks : IsLast(u) => IsLast(u)'
      PROVE  LastExists(d)'
  BY <1>0, <1>a DEF LastExists, ThreadsOf
<1>1. ASSUME StepReturn(t)
      PROVE  \A d \in Procs : LastExists(d)'
  <2> SUFFICES ASSUME NEW d \in Procs
               PROVE  LastExists(d)'
    OBVIOUS
  <2>1. IsLast(t) => IsLast(t)'
    BY <1>0, <1>1 DEF StepReturn, IsLast, Ctl, ForkLabels, WaitLabels, ExitLabels
  <2>2. \A u \in Tasks \ {t} : IsLast(u) => IsLast(u)'
    BY <1>1 DEF StepReturn, IsLast
  <2>3. proc'[d].alive = proc[d].alive /\ proc'[d].life = proc[d].life
    BY <1>0, <1>1 DEF StepReturn
  <2> QED
    BY <1>a, <2>1, <2>2, <2>3
<1>2. ASSUME NEW c \in Procs, NEW v \in BOOLEAN, StepFork(t, c, v)
      PROVE  \A d \in Procs : LastExists(d)'
  <2> SUFFICES ASSUME NEW d \in Procs
               PROVE  LastExists(d)'
    OBVIOUS
  <2>1. IsLast(t) => IsLast(t)'
    BY <1>0, <1>2 DEF StepFork, IsLast, Ctl, ForkLabels, WaitLabels, ExitLabels
  <2>2. \A u \in Tasks \ {t} : IsLast(u) => IsLast(u)'
    BY <1>2 DEF StepFork, IsLast
  <2>3. d = c => proc'[d].alive = 1
    BY <1>2 DEF StepFork
  <2>4. d # c => proc'[d] = proc[d]
    BY <1>2 DEF StepFork
  <2> QED
    BY <1>a, <2>1, <2>2, <2>3, <2>4 DEF LastExists
<1>3. ASSUME StepPush(t)
      PROVE  \A d \in Procs : LastExists(d)'
  <2> SUFFICES ASSUME NEW d \in Procs
               PROVE  LastExists(d)'
    OBVIOUS
  <2>1. IsLast(t) => IsLast(t)'
    BY <1>0, <1>3 DEF StepPush, IsLast, Ctl, ForkLabels, WaitLabels, ExitLabels
  <2>2. \A u \in Tasks \ {t} : IsLast(u) => IsLast(u)'
    BY <1>3 DEF StepPush, IsLast
  <2>3. proc'[d].alive = proc[d].alive /\ (d # loc[t].of => proc'[d].life = proc[d].life)
    BY <1>3 DEF StepPush
  <2>4. Custody(d) /\ (d = loc[t].of => Forking(t, d))
    BY <1>3 DEF StepPush, ReapInv, CustodyInv, Forking
  <2>5. d = loc[t].of => proc[d].life # "unborn"
    BY <2>4 DEF Custody
  <2> QED
    BY <1>a, <2>1, <2>2, <2>3, <2>5
<1>4. ASSUME StepPublish(t)
      PROVE  \A d \in Procs : LastExists(d)'
  <2> SUFFICES ASSUME NEW d \in Procs
               PROVE  LastExists(d)'
    OBVIOUS
  <2>1. IsLast(t) => IsLast(t)'
    BY <1>0, <1>4 DEF StepPublish, IsLast, Ctl, ForkLabels, WaitLabels, ExitLabels
  <2>2. \A u \in Tasks \ {t} : IsLast(u) => IsLast(u)'
    BY <1>4 DEF StepPublish, IsLast
  <2>3. proc'[d].alive = proc[d].alive /\ proc'[d].life = proc[d].life
    BY <1>0, <1>4 DEF StepPublish
  <2> QED
    BY <1>a, <2>1, <2>2, <2>3
<1>5. ASSUME StepStart(t)
      PROVE  \A d \in Procs : LastExists(d)'
  <2> SUFFICES ASSUME NEW d \in Procs
               PROVE  LastExists(d)'
    OBVIOUS
  <2>1. IsLast(t) => IsLast(t)'
    BY <1>0, <1>5 DEF StepStart, IsLast, Ctl, ForkLabels, WaitLabels, ExitLabels
  <2>2. \A u \in Tasks \ {t} : IsLast(u) => IsLast(u)'
    BY <1>5 DEF StepStart, IsLast
  <2>3. proc'[d].alive = proc[d].alive /\ proc'[d].life = proc[d].life
    BY <1>0, <1>5 DEF StepStart
  <2> QED
    BY <1>a, <2>1, <2>2, <2>3
<1>6. ASSUME StepVforkBlock(t)
      PROVE  \A d \in Procs : LastExists(d)'
  <2> SUFFICES ASSUME NEW d \in Procs
               PROVE  LastExists(d)'
    OBVIOUS
  <2>1. IsLast(t) => IsLast(t)'
    BY <1>0, <1>6 DEF StepVforkBlock, IsLast, Ctl, ForkLabels, WaitLabels, ExitLabels
  <2>2. \A u \in Tasks \ {t} : IsLast(u) => IsLast(u)'
    BY <1>6 DEF StepVforkBlock, IsLast
  <2>3. proc'[d].alive = proc[d].alive /\ proc'[d].life = proc[d].life
    BY <1>0, <1>6 DEF StepVforkBlock
  <2> QED
    BY <1>a, <2>1, <2>2, <2>3
<1>7. ASSUME StepExec(t)
      PROVE  \A d \in Procs : LastExists(d)'
  <2> SUFFICES ASSUME NEW d \in Procs
               PROVE  LastExists(d)'
    OBVIOUS
  <2>1. IsLast(t) => IsLast(t)'
    BY <1>0, <1>7 DEF StepExec, IsLast, Ctl, ForkLabels, WaitLabels, ExitLabels
  <2>2. \A u \in Tasks \ {t} : IsLast(u) => IsLast(u)'
    BY <1>7 DEF StepExec, IsLast
  <2>3. proc'[d].alive = proc[d].alive /\ proc'[d].life = proc[d].life
    BY <1>0, <1>7 DEF StepExec
  <2> QED
    BY <1>a, <2>1, <2>2, <2>3
<1>8. ASSUME StepVforkClear(t)
      PROVE  \A d \in Procs : LastExists(d)'
  <2> SUFFICES ASSUME NEW d \in Procs
               PROVE  LastExists(d)'
    OBVIOUS
  <2>1. IsLast(t) => IsLast(t)'
    BY <1>0, <1>8 DEF StepVforkClear, IsLast, Ctl, ForkLabels, WaitLabels, ExitLabels
  <2>2. \A u \in Tasks \ {t} : IsLast(u) => IsLast(u)'
    BY <1>8 DEF StepVforkClear, IsLast
  <2>3. proc'[d].alive = proc[d].alive /\ proc'[d].life = proc[d].life
    BY <1>0, <1>8 DEF StepVforkClear
  <2> QED
    BY <1>a, <2>1, <2>2, <2>3
<1>9. ASSUME StepVforkWake(t)
      PROVE  \A d \in Procs : LastExists(d)'
  <2> SUFFICES ASSUME NEW d \in Procs
               PROVE  LastExists(d)'
    OBVIOUS
  <2>1. IsLast(t) => IsLast(t)'
    BY <1>0, <1>9 DEF StepVforkWake, IsLast, Ctl, ForkLabels, WaitLabels, ExitLabels
  <2>2. \A u \in Tasks \ {t} : IsLast(u) => IsLast(u)'
    BY <1>9 DEF StepVforkWake, IsLast
  <2>3. proc'[d].alive = proc[d].alive /\ proc'[d].life = proc[d].life
    BY <1>0, <1>9 DEF StepVforkWake
  <2> QED
    BY <1>a, <2>1, <2>2, <2>3
<1>10. ASSUME StepTake(t)
      PROVE  \A d \in Procs : LastExists(d)'
  <2> SUFFICES ASSUME NEW d \in Procs
               PROVE  LastExists(d)'
    OBVIOUS
  <2>1. IsLast(t) => IsLast(t)'
    BY <1>0, <1>10 DEF StepTake, IsLast, Ctl, ForkLabels, WaitLabels, ExitLabels
  <2>2. \A u \in Tasks \ {t} : IsLast(u) => IsLast(u)'
    BY <1>10 DEF StepTake, IsLast
  <2>3. proc'[d].alive = proc[d].alive /\ proc'[d].life = proc[d].life
    BY <1>0, <1>10 DEF StepTake
  <2> QED
    BY <1>a, <2>1, <2>2, <2>3
<1>11. ASSUME NEW c \in Procs, StepEach(t, c)
      PROVE  \A d \in Procs : LastExists(d)'
  <2> SUFFICES ASSUME NEW d \in Procs
               PROVE  LastExists(d)'
    OBVIOUS
  <2>1. IsLast(t) => IsLast(t)'
    BY <1>0, <1>11 DEF StepEach, IsLast, Ctl, ForkLabels, WaitLabels, ExitLabels
  <2>2. \A u \in Tasks \ {t} : IsLast(u) => IsLast(u)'
    BY <1>11 DEF StepEach, IsLast
  <2>3. proc'[d].alive = proc[d].alive /\ proc'[d].life = proc[d].life
    BY <1>0, <1>11 DEF StepEach
  <2> QED
    BY <1>a, <2>1, <2>2, <2>3
<1>12. ASSUME StepGive(t)
      PROVE  \A d \in Procs : LastExists(d)'
  <2> SUFFICES ASSUME NEW d \in Procs
               PROVE  LastExists(d)'
    OBVIOUS
  <2>1. IsLast(t) => IsLast(t)'
    BY <1>0, <1>12 DEF StepGive, IsLast, Ctl, ForkLabels, WaitLabels, ExitLabels
  <2>2. \A u \in Tasks \ {t} : IsLast(u) => IsLast(u)'
    BY <1>12 DEF StepGive, IsLast
  <2>3. proc'[d].alive = proc[d].alive /\ proc'[d].life = proc[d].life
    BY <1>0, <1>12 DEF StepGive
  <2> QED
    BY <1>a, <2>1, <2>2, <2>3
<1>13. ASSUME StepInitPublish(t)
      PROVE  \A d \in Procs : LastExists(d)'
  <2> SUFFICES ASSUME NEW d \in Procs
               PROVE  LastExists(d)'
    OBVIOUS
  <2>1. IsLast(t) => IsLast(t)'
    BY <1>0, <1>13 DEF StepInitPublish, IsLast, Ctl, ForkLabels, WaitLabels, ExitLabels
  <2>2. \A u \in Tasks \ {t} : IsLast(u) => IsLast(u)'
    BY <1>13 DEF StepInitPublish, IsLast
  <2>3. proc'[d].alive = proc[d].alive /\ proc'[d].life = proc[d].life
    BY <1>0, <1>13 DEF StepInitPublish
  <2> QED
    BY <1>a, <2>1, <2>2, <2>3
<1>14. ASSUME NEW w \in SomeTask, StepInitWake(t, w)
      PROVE  \A d \in Procs : LastExists(d)'
  <2> SUFFICES ASSUME NEW d \in Procs
               PROVE  LastExists(d)'
    OBVIOUS
  <2>1. IsLast(t) => IsLast(t)'
    BY <1>0, <1>14 DEF StepInitWake, IsLast, Ctl, ForkLabels, WaitLabels, ExitLabels
  <2>2. \A u \in Tasks \ {t} : IsLast(u) => IsLast(u)'
    BY <1>14 DEF StepInitWake, IsLast
  <2>3. proc'[d].alive = proc[d].alive /\ proc'[d].life = proc[d].life
    BY <1>0, <1>14 DEF StepInitWake
  <2> QED
    BY <1>a, <2>1, <2>2, <2>3
<1>15. ASSUME StepWaitSeq(t)
      PROVE  \A d \in Procs : LastExists(d)'
  <2> SUFFICES ASSUME NEW d \in Procs
               PROVE  LastExists(d)'
    OBVIOUS
  <2>1. IsLast(t) => IsLast(t)'
    BY <1>0, <1>15 DEF StepWaitSeq, IsLast, Ctl, ForkLabels, WaitLabels, ExitLabels
  <2>2. \A u \in Tasks \ {t} : IsLast(u) => IsLast(u)'
    BY <1>15 DEF StepWaitSeq, IsLast
  <2>3. proc'[d].alive = proc[d].alive /\ proc'[d].life = proc[d].life
    BY <1>0, <1>15 DEF StepWaitSeq
  <2> QED
    BY <1>a, <2>1, <2>2, <2>3
<1>16. ASSUME StepWaitList(t)
      PROVE  \A d \in Procs : LastExists(d)'
  <2> SUFFICES ASSUME NEW d \in Procs
               PROVE  LastExists(d)'
    OBVIOUS
  <2>1. IsLast(t) => IsLast(t)'
    BY <1>0, <1>16 DEF StepWaitList, IsLast, Ctl, ForkLabels, WaitLabels, ExitLabels
  <2>2. \A u \in Tasks \ {t} : IsLast(u) => IsLast(u)'
    BY <1>16 DEF StepWaitList, IsLast
  <2>3. proc'[d].alive = proc[d].alive /\ proc'[d].life = proc[d].life
    BY <1>0, <1>16 DEF StepWaitList
  <2> QED
    BY <1>a, <2>1, <2>2, <2>3
<1>17. ASSUME NEW c \in Procs, StepFound(t, c)
      PROVE  \A d \in Procs : LastExists(d)'
  <2> SUFFICES ASSUME NEW d \in Procs
               PROVE  LastExists(d)'
    OBVIOUS
  <2>1. IsLast(t) => IsLast(t)'
    BY <1>0, <1>17 DEF StepFound, IsLast, Ctl, ForkLabels, WaitLabels, ExitLabels
  <2>2. \A u \in Tasks \ {t} : IsLast(u) => IsLast(u)'
    BY <1>17 DEF StepFound, IsLast
  <2>3. proc'[d].alive = proc[d].alive /\ proc'[d].life = proc[d].life
    BY <1>0, <1>17 DEF StepFound
  <2> QED
    BY <1>a, <2>1, <2>2, <2>3
<1>18. ASSUME NEW c \in Procs, StepPass(t, c)
      PROVE  \A d \in Procs : LastExists(d)'
  <2> SUFFICES ASSUME NEW d \in Procs
               PROVE  LastExists(d)'
    OBVIOUS
  <2>1. IsLast(t) => IsLast(t)'
    BY <1>0, <1>18 DEF StepPass, IsLast, Ctl, ForkLabels, WaitLabels, ExitLabels
  <2>2. \A u \in Tasks \ {t} : IsLast(u) => IsLast(u)'
    BY <1>18 DEF StepPass, IsLast
  <2>3. proc'[d].alive = proc[d].alive /\ proc'[d].life = proc[d].life
    BY <1>0, <1>18 DEF StepPass
  <2> QED
    BY <1>a, <2>1, <2>2, <2>3
<1>19. ASSUME StepAgain(t)
      PROVE  \A d \in Procs : LastExists(d)'
  <2> SUFFICES ASSUME NEW d \in Procs
               PROVE  LastExists(d)'
    OBVIOUS
  <2>1. IsLast(t) => IsLast(t)'
    BY <1>0, <1>19 DEF StepAgain, IsLast, Ctl, ForkLabels, WaitLabels, ExitLabels
  <2>2. \A u \in Tasks \ {t} : IsLast(u) => IsLast(u)'
    BY <1>19 DEF StepAgain, IsLast
  <2>3. proc'[d].alive = proc[d].alive /\ proc'[d].life = proc[d].life
    BY <1>0, <1>19 DEF StepAgain
  <2> QED
    BY <1>a, <2>1, <2>2, <2>3
<1>20. ASSUME StepWaitBlock(t)
      PROVE  \A d \in Procs : LastExists(d)'
  <2> SUFFICES ASSUME NEW d \in Procs
               PROVE  LastExists(d)'
    OBVIOUS
  <2>1. IsLast(t) => IsLast(t)'
    BY <1>0, <1>20 DEF StepWaitBlock, IsLast, Ctl, ForkLabels, WaitLabels, ExitLabels
  <2>2. \A u \in Tasks \ {t} : IsLast(u) => IsLast(u)'
    BY <1>20 DEF StepWaitBlock, IsLast
  <2>3. proc'[d].alive = proc[d].alive /\ proc'[d].life = proc[d].life
    BY <1>0, <1>20 DEF StepWaitBlock
  <2> QED
    BY <1>a, <2>1, <2>2, <2>3
<1>21. ASSUME StepWin(t)
      PROVE  \A d \in Procs : LastExists(d)'
  <2> SUFFICES ASSUME NEW d \in Procs
               PROVE  LastExists(d)'
    OBVIOUS
  <2>1. IsLast(t) => IsLast(t)'
    BY <1>0, <1>21 DEF StepWin, IsLast, Ctl, ForkLabels, WaitLabels, ExitLabels
  <2>2. \A u \in Tasks \ {t} : IsLast(u) => IsLast(u)'
    BY <1>21 DEF StepWin, IsLast
  <2>3. proc'[d].alive = proc[d].alive /\ proc'[d].life = proc[d].life
    BY <1>0, <1>21 DEF StepWin
  <2> QED
    BY <1>a, <2>1, <2>2, <2>3
<1>22. ASSUME StepLose(t)
      PROVE  \A d \in Procs : LastExists(d)'
  <2> SUFFICES ASSUME NEW d \in Procs
               PROVE  LastExists(d)'
    OBVIOUS
  <2>1. IsLast(t) => IsLast(t)'
    BY <1>0, <1>22 DEF StepLose, IsLast, Ctl, ForkLabels, WaitLabels, ExitLabels
  <2>2. \A u \in Tasks \ {t} : IsLast(u) => IsLast(u)'
    BY <1>22 DEF StepLose, IsLast
  <2>3. proc'[d].alive = proc[d].alive /\ proc'[d].life = proc[d].life
    BY <1>0, <1>22 DEF StepLose
  <2> QED
    BY <1>a, <2>1, <2>2, <2>3
<1>23. ASSUME StepFree(t)
      PROVE  \A d \in Procs : LastExists(d)'
  <2> SUFFICES ASSUME NEW d \in Procs
               PROVE  LastExists(d)'
    OBVIOUS
  <2>1. IsLast(t) => IsLast(t)'
    BY <1>0, <1>23 DEF StepFree, IsLast, Ctl, ForkLabels, WaitLabels, ExitLabels
  <2>2. \A u \in Tasks \ {t} : IsLast(u) => IsLast(u)'
    BY <1>23 DEF StepFree, IsLast
  <2>3. proc'[d].alive = proc[d].alive /\ (d # loc[t].of => proc'[d].life = proc[d].life)
    BY <1>23 DEF StepFree
  <2>4. Custody(d) /\ (d = loc[t].of => Reaps(t, d))
    BY <1>0, <1>23 DEF StepFree, ReapInv, CustodyInv, Reaps, Ctl
  <2>5. d = loc[t].of => proc[d].life # "unborn"
    BY <2>4 DEF Custody
  <2> QED
    BY <1>a, <2>1, <2>2, <2>3, <2>5
<1>24. ASSUME StepCount(t)
      PROVE  \A d \in Procs : LastExists(d)'
  <2> SUFFICES ASSUME NEW d \in Procs
               PROVE  LastExists(d)'
    OBVIOUS
  <2>1. proc[ProcOf[t]].alive \in Nat \ {0} /\ loc[t].why = "call"
    BY <1>0, <1>24, CountedAlive DEF StepCount, Ctl, ReapInv
  <2>2. \A u \in Tasks : IsLast(u) => IsLast(u)'
    BY <1>24, <2>1 DEF StepCount, IsLast
  <2>3. CASE d = ProcOf[t]
    <3>1. proc'[d].alive = 0 => IsLast(t)'
      BY <1>24, <2>1, <2>3 DEF StepCount, IsLast
    <3>2. t \in ThreadsOf(d)
      BY <2>3 DEF ThreadsOf
    <3> QED
      BY <3>1, <3>2 DEF LastExists, ThreadsOf
  <2>4. CASE d # ProcOf[t]
    BY <1>a, <1>24, <2>2, <2>4 DEF StepCount
  <2> QED
    BY <2>3, <2>4
<1>25. ASSUME StepDetach(t)
      PROVE  \A d \in Procs : LastExists(d)'
  <2> SUFFICES ASSUME NEW d \in Procs
               PROVE  LastExists(d)'
    OBVIOUS
  <2>1. IsLast(t) => IsLast(t)'
    BY <1>0, <1>25 DEF StepDetach, IsLast, Ctl, ForkLabels, WaitLabels, ExitLabels
  <2>2. \A u \in Tasks \ {t} : IsLast(u) => IsLast(u)'
    BY <1>25 DEF StepDetach, IsLast
  <2>3. proc'[d].alive = proc[d].alive /\ proc'[d].life = proc[d].life
    BY <1>0, <1>25 DEF StepDetach
  <2> QED
    BY <1>a, <2>1, <2>2, <2>3
<1>26. ASSUME StepParent(t)
      PROVE  \A d \in Procs : LastExists(d)'
  <2> SUFFICES ASSUME NEW d \in Procs
               PROVE  LastExists(d)'
    OBVIOUS
  <2>1. IsLast(t) => IsLast(t)'
    BY <1>0, <1>26 DEF StepParent, IsLast, Ctl, ForkLabels, WaitLabels, ExitLabels
  <2>2. \A u \in Tasks \ {t} : IsLast(u) => IsLast(u)'
    BY <1>26 DEF StepParent, IsLast
  <2>3. proc'[d].alive = proc[d].alive /\ proc'[d].life = proc[d].life
    BY <1>0, <1>26 DEF StepParent
  <2> QED
    BY <1>a, <2>1, <2>2, <2>3
<1>27. ASSUME StepDefer(t)
      PROVE  \A d \in Procs : LastExists(d)'
  <2> SUFFICES ASSUME NEW d \in Procs
               PROVE  LastExists(d)'
    OBVIOUS
  <2>1. IsLast(t) => IsLast(t)'
    BY <1>0, <1>27 DEF StepDefer, IsLast, Ctl, ForkLabels, WaitLabels, ExitLabels
  <2>2. \A u \in Tasks \ {t} : IsLast(u) => IsLast(u)'
    BY <1>27 DEF StepDefer, IsLast
  <2>3. proc'[d].alive = proc[d].alive /\ proc'[d].life = proc[d].life
    BY <1>0, <1>27 DEF StepDefer
  <2> QED
    BY <1>a, <2>1, <2>2, <2>3
<1>28. ASSUME StepSwitch(t)
      PROVE  \A d \in Procs : LastExists(d)'
  <2> SUFFICES ASSUME NEW d \in Procs
               PROVE  LastExists(d)'
    OBVIOUS
  <2>1. IsLast(t) => IsLast(t)'
    BY <1>0, <1>28 DEF StepSwitch, IsLast, Ctl, ForkLabels, WaitLabels, ExitLabels
  <2>2. \A u \in Tasks \ {t} : IsLast(u) => IsLast(u)'
    BY <1>28 DEF StepSwitch, IsLast
  <2>3. proc'[d].alive = proc[d].alive /\ proc'[d].life = proc[d].life
    BY <1>0, <1>28 DEF StepSwitch
  <2> QED
    BY <1>a, <2>1, <2>2, <2>3
<1>29. ASSUME StepGroup(t)
      PROVE  \A d \in Procs : LastExists(d)'
  <2> SUFFICES ASSUME NEW d \in Procs
               PROVE  LastExists(d)'
    OBVIOUS
  <2>1. IsLast(t) => IsLast(t)'
    BY <1>0, <1>29 DEF StepGroup, IsLast, Ctl, ForkLabels, WaitLabels, ExitLabels
  <2>2. \A u \in Tasks \ {t} : IsLast(u) => IsLast(u)'
    BY <1>29 DEF StepGroup, IsLast
  <2>3. proc'[d].alive = proc[d].alive /\ proc'[d].life = proc[d].life
    BY <1>0, <1>29 DEF StepGroup
  <2> QED
    BY <1>a, <2>1, <2>2, <2>3
<1>30. ASSUME NEW k \in Procs, StepKill(t, k)
      PROVE  \A d \in Procs : LastExists(d)'
  <2> SUFFICES ASSUME NEW d \in Procs
               PROVE  LastExists(d)'
    OBVIOUS
  <2>1. IsLast(t) => IsLast(t)'
    BY <1>0, <1>30 DEF StepKill, IsLast, Ctl, ForkLabels, WaitLabels, ExitLabels
  <2>2. \A u \in Tasks \ {t} : IsLast(u) => IsLast(u)'
    BY <1>30 DEF StepKill, IsLast
  <2>3. proc'[d].alive = proc[d].alive /\ proc'[d].life = proc[d].life
    BY <1>0, <1>30 DEF StepKill
  <2> QED
    BY <1>a, <2>1, <2>2, <2>3
<1>31. ASSUME NEW w \in Tasks, StepFlag(t, w)
      PROVE  \A d \in Procs : LastExists(d)'
  <2> SUFFICES ASSUME NEW d \in Procs
               PROVE  LastExists(d)'
    OBVIOUS
  <2>1. IsLast(t) => IsLast(t)'
    BY <1>0, <1>31 DEF StepFlag, IsLast, Ctl, ForkLabels, WaitLabels, ExitLabels
  <2>2. \A u \in Tasks \ {t} : IsLast(u) => IsLast(u)'
    BY <1>31 DEF StepFlag, IsLast
  <2>3. proc'[d].alive = proc[d].alive /\ proc'[d].life = proc[d].life
    BY <1>0, <1>31 DEF StepFlag
  <2> QED
    BY <1>a, <2>1, <2>2, <2>3
<1>32. ASSUME NEW w \in Tasks, StepFlagOnly(t, w)
      PROVE  \A d \in Procs : LastExists(d)'
  <2> SUFFICES ASSUME NEW d \in Procs
               PROVE  LastExists(d)'
    OBVIOUS
  <2>1. IsLast(t) => IsLast(t)'
    BY <1>0, <1>32 DEF StepFlagOnly, IsLast, Ctl, ForkLabels, WaitLabels, ExitLabels
  <2>2. \A u \in Tasks \ {t} : IsLast(u) => IsLast(u)'
    BY <1>32 DEF StepFlagOnly, IsLast
  <2>3. proc'[d].alive = proc[d].alive /\ proc'[d].life = proc[d].life
    BY <1>0, <1>32 DEF StepFlagOnly
  <2> QED
    BY <1>a, <2>1, <2>2, <2>3
<1>33. ASSUME StepNotify(t)
      PROVE  \A d \in Procs : LastExists(d)'
  <2> SUFFICES ASSUME NEW d \in Procs
               PROVE  LastExists(d)'
    OBVIOUS
  <2>1. IsLast(t) => IsLast(t)'
    BY <1>0, <1>33 DEF StepNotify, IsLast, Ctl, ForkLabels, WaitLabels, ExitLabels
  <2>2. \A u \in Tasks \ {t} : IsLast(u) => IsLast(u)'
    BY <1>33 DEF StepNotify, IsLast
  <2>3. proc'[d].alive = proc[d].alive /\ proc'[d].life = proc[d].life
    BY <1>0, <1>33 DEF StepNotify
  <2> QED
    BY <1>a, <2>1, <2>2, <2>3
<1>34. ASSUME StepFinish(t)
      PROVE  \A d \in Procs : LastExists(d)'
  <2> SUFFICES ASSUME NEW d \in Procs
               PROVE  LastExists(d)'
    OBVIOUS
  <2>1. IsLast(t) => IsLast(t)'
    BY <1>0, <1>34 DEF StepFinish, IsLast, Ctl, ForkLabels, WaitLabels, ExitLabels
  <2>2. \A u \in Tasks \ {t} : IsLast(u) => IsLast(u)'
    BY <1>34 DEF StepFinish, IsLast
  <2>3. proc'[d].alive = proc[d].alive /\ proc'[d].life = proc[d].life
    BY <1>0, <1>34 DEF StepFinish
  <2> QED
    BY <1>a, <2>1, <2>2, <2>3
<1>35. ASSUME StepEvent(t)
      PROVE  \A d \in Procs : LastExists(d)'
  <2> SUFFICES ASSUME NEW d \in Procs
               PROVE  LastExists(d)'
    OBVIOUS
  <2>1. IsLast(t) => IsLast(t)'
    BY <1>0, <1>35 DEF StepEvent, IsLast, Ctl, ForkLabels, WaitLabels, ExitLabels
  <2>2. \A u \in Tasks \ {t} : IsLast(u) => IsLast(u)'
    BY <1>35 DEF StepEvent, IsLast
  <2>3. proc'[d].alive = proc[d].alive /\ proc'[d].life = proc[d].life
    BY <1>0, <1>35 DEF StepEvent
  <2> QED
    BY <1>a, <2>1, <2>2, <2>3
<1>36. ASSUME StepCollect(t)
      PROVE  \A d \in Procs : LastExists(d)'
  <2> SUFFICES ASSUME NEW d \in Procs
               PROVE  LastExists(d)'
    OBVIOUS
  <2>1. IsLast(t) => IsLast(t)'
    BY <1>0, <1>36 DEF StepCollect, IsLast, Ctl, ForkLabels, WaitLabels, ExitLabels
  <2>2. \A u \in Tasks \ {t} : IsLast(u) => IsLast(u)'
    BY <1>36 DEF StepCollect, IsLast
  <2>3. proc'[d].alive = proc[d].alive /\ proc'[d].life = proc[d].life
    BY <1>0, <1>36 DEF StepCollect
  <2> QED
    BY <1>a, <2>1, <2>2, <2>3
<1>37. ASSUME NEW w \in Tasks, StepWakeOne(t, w)
      PROVE  \A d \in Procs : LastExists(d)'
  <2> SUFFICES ASSUME NEW d \in Procs
               PROVE  LastExists(d)'
    OBVIOUS
  <2>1. IsLast(t) => IsLast(t)'
    BY <1>0, <1>37 DEF StepWakeOne, IsLast, Ctl, ForkLabels, WaitLabels, ExitLabels
  <2>2. \A u \in Tasks \ {t} : IsLast(u) => IsLast(u)'
    BY <1>37 DEF StepWakeOne, IsLast
  <2>3. proc'[d].alive = proc[d].alive /\ proc'[d].life = proc[d].life
    BY <1>0, <1>37 DEF StepWakeOne
  <2> QED
    BY <1>a, <2>1, <2>2, <2>3
<1>38. ASSUME StepWakesDone(t)
      PROVE  \A d \in Procs : LastExists(d)'
  <2> SUFFICES ASSUME NEW d \in Procs
               PROVE  LastExists(d)'
    OBVIOUS
  <2>1. IsLast(t) => IsLast(t)'
    BY <1>0, <1>38 DEF StepWakesDone, IsLast, Ctl, ForkLabels, WaitLabels, ExitLabels
  <2>2. \A u \in Tasks \ {t} : IsLast(u) => IsLast(u)'
    BY <1>38 DEF StepWakesDone, IsLast
  <2>3. proc'[d].alive = proc[d].alive /\ proc'[d].life = proc[d].life
    BY <1>0, <1>38 DEF StepWakesDone
  <2> QED
    BY <1>a, <2>1, <2>2, <2>3
<1> QED
  BY <1>1, <1>2, <1>3, <1>4, <1>5, <1>6, <1>7, <1>8, <1>9, <1>10, <1>11, <1>12, <1>13,
     <1>14, <1>15, <1>16, <1>17, <1>18, <1>19, <1>20, <1>21, <1>22, <1>23, <1>24, <1>25,
     <1>26, <1>27, <1>28, <1>29, <1>30, <1>31, <1>32, <1>33, <1>34, <1>35, <1>36, <1>37,
     <1>38
  DEF Step

\* A step that leaves the deferred-exit list alone publishes nothing and forgets no wakeup.
LEMMA DeferredSame ==
  ASSUME deferred' = deferred, NEW c, NEW t
  PROVE  (Published(c)' => Published(c)) /\ (Hope(c, t) => Hope(c, t)')
BY DEF Published, Hope, ThreadsOf

\* A thread in wait4 that a step does not move, or only wakes.
LEMMA ScanFrame ==
  ASSUME NEW u \in Tasks, NEW c \in Procs, ControlInv, SeqOk(u), ScanOk(u, c),
         loc'[u] = loc[u], prog'[u] = prog[u], pc'[u] = pc[u] \/ WokenTo(u),
         c \in proc'[ProcOf[u]].children \ adopted' =>
           c \in proc[ProcOf[u]].children \ adopted \/ ~Published(c),
         \/ proc'[ProcOf[u]].seq = proc[ProcOf[u]].seq
         \/ proc'[ProcOf[u]].seq = proc[ProcOf[u]].seq + 1,
         Published(c)' => Published(c),
         pc'[u] = "waitAsleep" /\ Hope(c, u) => Hope(c, u)'
  PROVE  ScanOk(u, c)'
<1>1. Due(u, c)' => Due(u, c)
  BY DEF Due, Wanted, Arg
<1>2. /\ loc[u].seq \in Nat /\ proc[ProcOf[u]].seq \in Nat
      /\ (pc[u] \in {"waitScan", "waitBlock"} => loc[u].seq <= proc[ProcOf[u]].seq)
  BY DEF ControlInv, Types, LocalRecord, ProcRecord, SeqOk, Ctl, WaitLabels
<1>3. pc[u] \in {"waitScan", "waitBlock"} /\ loc[u].seq # proc[ProcOf[u]].seq
        => loc'[u].seq # proc'[ProcOf[u]].seq
  BY <1>2
<1>4. pc'[u] \in {"waitScan", "waitBlock", "waitAsleep"} => pc'[u] = pc[u]
  OBVIOUS
<1>5. CASE ~Due(u, c)
  BY <1>1, <1>5 DEF ScanOk
<1>6. CASE Due(u, c)
  BY <1>3, <1>4, <1>6 DEF ScanOk
<1> QED
  BY <1>5, <1>6

\* What is published is the end of a process.
LEMMA PublishedDead ==
  ASSUME ReapInv, NEW c \in Procs, Published(c)
  PROVE  Dead(c)
<1>1. PICK u \in ThreadsOf(c) : deferred[u].final /\ deferred[u].st \in {"collect", "wake", "done"}
  BY DEF Published
<1>2. u \in Tasks /\ ProcOf[u] = c
  BY DEF ThreadsOf
<1>3. IsLast(u)
  BY <1>1, <1>2 DEF ReapInv, ControlInv, Ctl, ExitLabels, ExitInv, ExitOk, IsLast
<1> QED
  BY <1>2, <1>3 DEF ReapInv, ExitInv, ExitOk

\* The entry of a thread whose process is in a parent's list.
LEMMA EntryParent ==
  ASSUME FamilyInv, NEW w \in Tasks, deferred[w].final, NEW p \in Procs,
         ProcOf[w] \in proc[p].children \ adopted
  PROVE  deferred[w].parent = p
<1>1. ProcOf[w] \in Procs
  OBVIOUS
<1>2. ListOk(ProcOf[w]) /\ ParentOk(w, ProcOf[w])
  BY <1>1 DEF FamilyInv
<1> QED
  BY <1>2 DEF ListOk, ParentOk, InList

\* The child that fork is making has not ended.
LEMMA ForkingNotPublished ==
  ASSUME ReapInv, KnownInv, NEW t \in Tasks, pc[t] = "forkPush"
  PROVE  ~Published(loc[t].of)
<1>1. loc[t].of \in Procs /\ Custody(loc[t].of)
  BY DEF ReapInv, ControlInv, Ctl, ForkLabels, CustodyInv
<1>2. proc[loc[t].of].life = "made"
  BY <1>1 DEF Custody, Forking
<1>3. ASSUME NEW u \in ThreadsOf(loc[t].of)
      PROVE  deferred[u].st = "none"
  <2>1. u \in Tasks /\ ProcOf[u] = loc[t].of
    BY DEF ThreadsOf
  <2>2. pc[u] \in {"unborn", "nascent"}
    BY <1>2, <2>1 DEF KnownInv, KnownOk, Known
  <2> QED
    BY <2>1, <2>2 DEF ReapInv, ControlInv, Ctl
<1> QED
  BY <1>3 DEF Published

\* The event number a wait4 has read is never ahead of the PCB's.
LEMMA SeqStep ==
  ASSUME ReapInv, WaitInv, NEW t \in Tasks, Step(t)
  PROVE  \A u \in Tasks : SeqOk(u)'
<1>0. /\ ProcOf[t] \in Procs /\ Ctl(t) /\ \A u \in Tasks : SeqOk(u) /\ Ctl(u)
      /\ \A u \in Tasks : loc[u].seq \in Nat /\ proc[ProcOf[u]].seq \in Nat
  BY DEF ReapInv, ControlInv, WaitInv, Types, LocalRecord, ProcRecord
<1>a. ASSUME NEW u \in Tasks, loc'[u].why = "wait" => loc[u].why = "wait" /\ loc'[u].seq = loc[u].seq,
             \/ proc'[ProcOf[u]].seq = proc[ProcOf[u]].seq
             \/ proc'[ProcOf[u]].seq = proc[ProcOf[u]].seq + 1
      PROVE  SeqOk(u)'
  BY <1>0, <1>a DEF SeqOk
<1>1. ASSUME StepReturn(t)
      PROVE  \A u \in Tasks : SeqOk(u)'
  <2> SUFFICES ASSUME NEW u \in Tasks
               PROVE  SeqOk(u)'
    OBVIOUS
  <2>1. \/ proc'[ProcOf[u]].seq = proc[ProcOf[u]].seq
        \/ proc'[ProcOf[u]].seq = proc[ProcOf[u]].seq + 1
    BY <1>0, <1>1 DEF StepReturn
  <2>2. loc'[u].why = "wait" => loc[u].why = "wait" /\ loc'[u].seq = loc[u].seq
    <3>1. u # t => loc'[u] = loc[u]
      BY <1>1 DEF StepReturn
    <3>2. loc'[t].why = "wait" => loc[t].why = "wait" /\ loc'[t].seq = loc[t].seq
      BY <1>0, <1>1 DEF StepReturn
    <3> QED
      BY <3>1, <3>2
  <2> QED
    BY <1>a, <2>1, <2>2
<1>2. ASSUME NEW c \in Procs, NEW v \in BOOLEAN, StepFork(t, c, v)
      PROVE  \A u \in Tasks : SeqOk(u)'
  <2>a. proc[c].life = "unborn" /\ CountOk(c) /\ pc[t] = "user" /\ \A u \in Tasks : Ctl(u)
    BY <1>0, <1>2 DEF StepFork, ReapInv, ControlInv
  <2>b. \A u \in ThreadsOf(c) : pc[u] = "unborn" /\ u \in Tasks
    BY <2>a DEF CountOk, ThreadsOf
  <2>1. \A u \in ThreadsOf(c) : loc[u].why = "call" /\ u # t
    BY <2>a, <2>b DEF Ctl
  <2>2. ASSUME NEW u \in Tasks, ProcOf[u] = c
        PROVE  SeqOk(u)'
    BY <1>2, <2>1, <2>2 DEF StepFork, SeqOk, ThreadsOf
  <2>3. ASSUME NEW u \in Tasks, ProcOf[u] # c
        PROVE  SeqOk(u)'
    BY <1>a, <1>2, <2>3 DEF StepFork
  <2> QED
    BY <2>2, <2>3
<1>3. ASSUME StepPush(t)
      PROVE  \A u \in Tasks : SeqOk(u)'
  <2> SUFFICES ASSUME NEW u \in Tasks
               PROVE  SeqOk(u)'
    OBVIOUS
  <2>1. \/ proc'[ProcOf[u]].seq = proc[ProcOf[u]].seq
        \/ proc'[ProcOf[u]].seq = proc[ProcOf[u]].seq + 1
    BY <1>0, <1>3 DEF StepPush
  <2>2. loc'[u].why = "wait" => loc[u].why = "wait" /\ loc'[u].seq = loc[u].seq
    <3>1. u # t => loc'[u] = loc[u]
      BY <1>3 DEF StepPush
    <3>2. loc'[t].why = "wait" => loc[t].why = "wait" /\ loc'[t].seq = loc[t].seq
      BY <1>0, <1>3 DEF StepPush
    <3> QED
      BY <3>1, <3>2
  <2> QED
    BY <1>a, <2>1, <2>2
<1>4. ASSUME StepPublish(t)
      PROVE  \A u \in Tasks : SeqOk(u)'
  <2> SUFFICES ASSUME NEW u \in Tasks
               PROVE  SeqOk(u)'
    OBVIOUS
  <2>1. \/ proc'[ProcOf[u]].seq = proc[ProcOf[u]].seq
        \/ proc'[ProcOf[u]].seq = proc[ProcOf[u]].seq + 1
    BY <1>0, <1>4 DEF StepPublish
  <2>2. loc'[u].why = "wait" => loc[u].why = "wait" /\ loc'[u].seq = loc[u].seq
    <3>1. u # t => loc'[u] = loc[u]
      BY <1>4 DEF StepPublish
    <3>2. loc'[t].why = "wait" => loc[t].why = "wait" /\ loc'[t].seq = loc[t].seq
      BY <1>0, <1>4 DEF StepPublish
    <3> QED
      BY <3>1, <3>2
  <2> QED
    BY <1>a, <2>1, <2>2
<1>5. ASSUME StepStart(t)
      PROVE  \A u \in Tasks : SeqOk(u)'
  <2> SUFFICES ASSUME NEW u \in Tasks
               PROVE  SeqOk(u)'
    OBVIOUS
  <2>1. \/ proc'[ProcOf[u]].seq = proc[ProcOf[u]].seq
        \/ proc'[ProcOf[u]].seq = proc[ProcOf[u]].seq + 1
    BY <1>0, <1>5 DEF StepStart
  <2>2. loc'[u].why = "wait" => loc[u].why = "wait" /\ loc'[u].seq = loc[u].seq
    <3>1. u # t => loc'[u] = loc[u]
      BY <1>5 DEF StepStart
    <3>2. loc'[t].why = "wait" => loc[t].why = "wait" /\ loc'[t].seq = loc[t].seq
      BY <1>0, <1>5 DEF StepStart
    <3> QED
      BY <3>1, <3>2
  <2> QED
    BY <1>a, <2>1, <2>2
<1>6. ASSUME StepVforkBlock(t)
      PROVE  \A u \in Tasks : SeqOk(u)'
  <2> SUFFICES ASSUME NEW u \in Tasks
               PROVE  SeqOk(u)'
    OBVIOUS
  <2>1. \/ proc'[ProcOf[u]].seq = proc[ProcOf[u]].seq
        \/ proc'[ProcOf[u]].seq = proc[ProcOf[u]].seq + 1
    BY <1>0, <1>6 DEF StepVforkBlock
  <2>2. loc'[u].why = "wait" => loc[u].why = "wait" /\ loc'[u].seq = loc[u].seq
    <3>1. u # t => loc'[u] = loc[u]
      BY <1>6 DEF StepVforkBlock
    <3>2. loc'[t].why = "wait" => loc[t].why = "wait" /\ loc'[t].seq = loc[t].seq
      BY <1>0, <1>6 DEF StepVforkBlock
    <3> QED
      BY <3>1, <3>2
  <2> QED
    BY <1>a, <2>1, <2>2
<1>7. ASSUME StepExec(t)
      PROVE  \A u \in Tasks : SeqOk(u)'
  <2> SUFFICES ASSUME NEW u \in Tasks
               PROVE  SeqOk(u)'
    OBVIOUS
  <2>1. \/ proc'[ProcOf[u]].seq = proc[ProcOf[u]].seq
        \/ proc'[ProcOf[u]].seq = proc[ProcOf[u]].seq + 1
    BY <1>0, <1>7 DEF StepExec
  <2>2. loc'[u].why = "wait" => loc[u].why = "wait" /\ loc'[u].seq = loc[u].seq
    <3>1. u # t => loc'[u] = loc[u]
      BY <1>7 DEF StepExec
    <3>2. loc'[t].why = "wait" => loc[t].why = "wait" /\ loc'[t].seq = loc[t].seq
      BY <1>0, <1>7 DEF StepExec
    <3> QED
      BY <3>1, <3>2
  <2> QED
    BY <1>a, <2>1, <2>2
<1>8. ASSUME StepVforkClear(t)
      PROVE  \A u \in Tasks : SeqOk(u)'
  <2> SUFFICES ASSUME NEW u \in Tasks
               PROVE  SeqOk(u)'
    OBVIOUS
  <2>1. \/ proc'[ProcOf[u]].seq = proc[ProcOf[u]].seq
        \/ proc'[ProcOf[u]].seq = proc[ProcOf[u]].seq + 1
    BY <1>0, <1>8 DEF StepVforkClear
  <2>2. loc'[u].why = "wait" => loc[u].why = "wait" /\ loc'[u].seq = loc[u].seq
    <3>1. u # t => loc'[u] = loc[u]
      BY <1>8 DEF StepVforkClear
    <3>2. loc'[t].why = "wait" => loc[t].why = "wait" /\ loc'[t].seq = loc[t].seq
      BY <1>0, <1>8 DEF StepVforkClear
    <3> QED
      BY <3>1, <3>2
  <2> QED
    BY <1>a, <2>1, <2>2
<1>9. ASSUME StepVforkWake(t)
      PROVE  \A u \in Tasks : SeqOk(u)'
  <2> SUFFICES ASSUME NEW u \in Tasks
               PROVE  SeqOk(u)'
    OBVIOUS
  <2>1. \/ proc'[ProcOf[u]].seq = proc[ProcOf[u]].seq
        \/ proc'[ProcOf[u]].seq = proc[ProcOf[u]].seq + 1
    BY <1>0, <1>9 DEF StepVforkWake
  <2>2. loc'[u].why = "wait" => loc[u].why = "wait" /\ loc'[u].seq = loc[u].seq
    <3>1. u # t => loc'[u] = loc[u]
      BY <1>9 DEF StepVforkWake
    <3>2. loc'[t].why = "wait" => loc[t].why = "wait" /\ loc'[t].seq = loc[t].seq
      BY <1>0, <1>9 DEF StepVforkWake
    <3> QED
      BY <3>1, <3>2
  <2> QED
    BY <1>a, <2>1, <2>2
<1>10. ASSUME StepTake(t)
      PROVE  \A u \in Tasks : SeqOk(u)'
  <2> SUFFICES ASSUME NEW u \in Tasks
               PROVE  SeqOk(u)'
    OBVIOUS
  <2>1. \/ proc'[ProcOf[u]].seq = proc[ProcOf[u]].seq
        \/ proc'[ProcOf[u]].seq = proc[ProcOf[u]].seq + 1
    BY <1>0, <1>10 DEF StepTake
  <2>2. loc'[u].why = "wait" => loc[u].why = "wait" /\ loc'[u].seq = loc[u].seq
    <3>1. u # t => loc'[u] = loc[u]
      BY <1>10 DEF StepTake
    <3>2. loc'[t].why = "wait" => loc[t].why = "wait" /\ loc'[t].seq = loc[t].seq
      BY <1>0, <1>10 DEF StepTake
    <3> QED
      BY <3>1, <3>2
  <2> QED
    BY <1>a, <2>1, <2>2
<1>11. ASSUME NEW c \in Procs, StepEach(t, c)
      PROVE  \A u \in Tasks : SeqOk(u)'
  <2> SUFFICES ASSUME NEW u \in Tasks
               PROVE  SeqOk(u)'
    OBVIOUS
  <2>1. \/ proc'[ProcOf[u]].seq = proc[ProcOf[u]].seq
        \/ proc'[ProcOf[u]].seq = proc[ProcOf[u]].seq + 1
    BY <1>0, <1>11 DEF StepEach
  <2>2. loc'[u].why = "wait" => loc[u].why = "wait" /\ loc'[u].seq = loc[u].seq
    <3>1. u # t => loc'[u] = loc[u]
      BY <1>11 DEF StepEach
    <3>2. loc'[t].why = "wait" => loc[t].why = "wait" /\ loc'[t].seq = loc[t].seq
      BY <1>0, <1>11 DEF StepEach
    <3> QED
      BY <3>1, <3>2
  <2> QED
    BY <1>a, <2>1, <2>2
<1>12. ASSUME StepGive(t)
      PROVE  \A u \in Tasks : SeqOk(u)'
  <2> SUFFICES ASSUME NEW u \in Tasks
               PROVE  SeqOk(u)'
    OBVIOUS
  <2>1. \/ proc'[ProcOf[u]].seq = proc[ProcOf[u]].seq
        \/ proc'[ProcOf[u]].seq = proc[ProcOf[u]].seq + 1
    BY <1>0, <1>12 DEF StepGive
  <2>2. loc'[u].why = "wait" => loc[u].why = "wait" /\ loc'[u].seq = loc[u].seq
    <3>1. u # t => loc'[u] = loc[u]
      BY <1>12 DEF StepGive
    <3>2. loc'[t].why = "wait" => loc[t].why = "wait" /\ loc'[t].seq = loc[t].seq
      BY <1>0, <1>12 DEF StepGive
    <3> QED
      BY <3>1, <3>2
  <2> QED
    BY <1>a, <2>1, <2>2
<1>13. ASSUME StepInitPublish(t)
      PROVE  \A u \in Tasks : SeqOk(u)'
  <2> SUFFICES ASSUME NEW u \in Tasks
               PROVE  SeqOk(u)'
    OBVIOUS
  <2>1. \/ proc'[ProcOf[u]].seq = proc[ProcOf[u]].seq
        \/ proc'[ProcOf[u]].seq = proc[ProcOf[u]].seq + 1
    BY <1>0, <1>13 DEF StepInitPublish
  <2>2. loc'[u].why = "wait" => loc[u].why = "wait" /\ loc'[u].seq = loc[u].seq
    <3>1. u # t => loc'[u] = loc[u]
      BY <1>13 DEF StepInitPublish
    <3>2. loc'[t].why = "wait" => loc[t].why = "wait" /\ loc'[t].seq = loc[t].seq
      BY <1>0, <1>13 DEF StepInitPublish
    <3> QED
      BY <3>1, <3>2
  <2> QED
    BY <1>a, <2>1, <2>2
<1>14. ASSUME NEW w \in SomeTask, StepInitWake(t, w)
      PROVE  \A u \in Tasks : SeqOk(u)'
  <2> SUFFICES ASSUME NEW u \in Tasks
               PROVE  SeqOk(u)'
    OBVIOUS
  <2>1. \/ proc'[ProcOf[u]].seq = proc[ProcOf[u]].seq
        \/ proc'[ProcOf[u]].seq = proc[ProcOf[u]].seq + 1
    BY <1>0, <1>14 DEF StepInitWake
  <2>2. loc'[u].why = "wait" => loc[u].why = "wait" /\ loc'[u].seq = loc[u].seq
    <3>1. u # t => loc'[u] = loc[u]
      BY <1>14 DEF StepInitWake
    <3>2. loc'[t].why = "wait" => loc[t].why = "wait" /\ loc'[t].seq = loc[t].seq
      BY <1>0, <1>14 DEF StepInitWake
    <3> QED
      BY <3>1, <3>2
  <2> QED
    BY <1>a, <2>1, <2>2
<1>15. ASSUME StepWaitSeq(t)
      PROVE  \A u \in Tasks : SeqOk(u)'
  <2>1. SeqOk(t)'
    BY <1>0, <1>15 DEF StepWaitSeq, SeqOk
  <2>2. \A u \in Tasks \ {t} : SeqOk(u)'
    BY <1>a, <1>15 DEF StepWaitSeq
  <2> QED
    BY <2>1, <2>2
<1>16. ASSUME StepWaitList(t)
      PROVE  \A u \in Tasks : SeqOk(u)'
  <2> SUFFICES ASSUME NEW u \in Tasks
               PROVE  SeqOk(u)'
    OBVIOUS
  <2>1. \/ proc'[ProcOf[u]].seq = proc[ProcOf[u]].seq
        \/ proc'[ProcOf[u]].seq = proc[ProcOf[u]].seq + 1
    BY <1>0, <1>16 DEF StepWaitList
  <2>2. loc'[u].why = "wait" => loc[u].why = "wait" /\ loc'[u].seq = loc[u].seq
    <3>1. u # t => loc'[u] = loc[u]
      BY <1>16 DEF StepWaitList
    <3>2. loc'[t].why = "wait" => loc[t].why = "wait" /\ loc'[t].seq = loc[t].seq
      BY <1>0, <1>16 DEF StepWaitList
    <3> QED
      BY <3>1, <3>2
  <2> QED
    BY <1>a, <2>1, <2>2
<1>17. ASSUME NEW c \in Procs, StepFound(t, c)
      PROVE  \A u \in Tasks : SeqOk(u)'
  <2> SUFFICES ASSUME NEW u \in Tasks
               PROVE  SeqOk(u)'
    OBVIOUS
  <2>1. \/ proc'[ProcOf[u]].seq = proc[ProcOf[u]].seq
        \/ proc'[ProcOf[u]].seq = proc[ProcOf[u]].seq + 1
    BY <1>0, <1>17 DEF StepFound
  <2>2. loc'[u].why = "wait" => loc[u].why = "wait" /\ loc'[u].seq = loc[u].seq
    <3>1. u # t => loc'[u] = loc[u]
      BY <1>17 DEF StepFound
    <3>2. loc'[t].why = "wait" => loc[t].why = "wait" /\ loc'[t].seq = loc[t].seq
      BY <1>0, <1>17 DEF StepFound
    <3> QED
      BY <3>1, <3>2
  <2> QED
    BY <1>a, <2>1, <2>2
<1>18. ASSUME NEW c \in Procs, StepPass(t, c)
      PROVE  \A u \in Tasks : SeqOk(u)'
  <2> SUFFICES ASSUME NEW u \in Tasks
               PROVE  SeqOk(u)'
    OBVIOUS
  <2>1. \/ proc'[ProcOf[u]].seq = proc[ProcOf[u]].seq
        \/ proc'[ProcOf[u]].seq = proc[ProcOf[u]].seq + 1
    BY <1>0, <1>18 DEF StepPass
  <2>2. loc'[u].why = "wait" => loc[u].why = "wait" /\ loc'[u].seq = loc[u].seq
    <3>1. u # t => loc'[u] = loc[u]
      BY <1>18 DEF StepPass
    <3>2. loc'[t].why = "wait" => loc[t].why = "wait" /\ loc'[t].seq = loc[t].seq
      BY <1>0, <1>18 DEF StepPass
    <3> QED
      BY <3>1, <3>2
  <2> QED
    BY <1>a, <2>1, <2>2
<1>19. ASSUME StepAgain(t)
      PROVE  \A u \in Tasks : SeqOk(u)'
  <2> SUFFICES ASSUME NEW u \in Tasks
               PROVE  SeqOk(u)'
    OBVIOUS
  <2>1. \/ proc'[ProcOf[u]].seq = proc[ProcOf[u]].seq
        \/ proc'[ProcOf[u]].seq = proc[ProcOf[u]].seq + 1
    BY <1>0, <1>19 DEF StepAgain
  <2>2. loc'[u].why = "wait" => loc[u].why = "wait" /\ loc'[u].seq = loc[u].seq
    <3>1. u # t => loc'[u] = loc[u]
      BY <1>19 DEF StepAgain
    <3>2. loc'[t].why = "wait" => loc[t].why = "wait" /\ loc'[t].seq = loc[t].seq
      BY <1>0, <1>19 DEF StepAgain
    <3> QED
      BY <3>1, <3>2
  <2> QED
    BY <1>a, <2>1, <2>2
<1>20. ASSUME StepWaitBlock(t)
      PROVE  \A u \in Tasks : SeqOk(u)'
  <2> SUFFICES ASSUME NEW u \in Tasks
               PROVE  SeqOk(u)'
    OBVIOUS
  <2>1. \/ proc'[ProcOf[u]].seq = proc[ProcOf[u]].seq
        \/ proc'[ProcOf[u]].seq = proc[ProcOf[u]].seq + 1
    BY <1>0, <1>20 DEF StepWaitBlock
  <2>2. loc'[u].why = "wait" => loc[u].why = "wait" /\ loc'[u].seq = loc[u].seq
    <3>1. u # t => loc'[u] = loc[u]
      BY <1>20 DEF StepWaitBlock
    <3>2. loc'[t].why = "wait" => loc[t].why = "wait" /\ loc'[t].seq = loc[t].seq
      BY <1>0, <1>20 DEF StepWaitBlock
    <3> QED
      BY <3>1, <3>2
  <2> QED
    BY <1>a, <2>1, <2>2
<1>21. ASSUME StepWin(t)
      PROVE  \A u \in Tasks : SeqOk(u)'
  <2> SUFFICES ASSUME NEW u \in Tasks
               PROVE  SeqOk(u)'
    OBVIOUS
  <2>1. \/ proc'[ProcOf[u]].seq = proc[ProcOf[u]].seq
        \/ proc'[ProcOf[u]].seq = proc[ProcOf[u]].seq + 1
    BY <1>0, <1>21 DEF StepWin
  <2>2. loc'[u].why = "wait" => loc[u].why = "wait" /\ loc'[u].seq = loc[u].seq
    <3>1. u # t => loc'[u] = loc[u]
      BY <1>21 DEF StepWin
    <3>2. loc'[t].why = "wait" => loc[t].why = "wait" /\ loc'[t].seq = loc[t].seq
      BY <1>0, <1>21 DEF StepWin
    <3> QED
      BY <3>1, <3>2
  <2> QED
    BY <1>a, <2>1, <2>2
<1>22. ASSUME StepLose(t)
      PROVE  \A u \in Tasks : SeqOk(u)'
  <2> SUFFICES ASSUME NEW u \in Tasks
               PROVE  SeqOk(u)'
    OBVIOUS
  <2>1. \/ proc'[ProcOf[u]].seq = proc[ProcOf[u]].seq
        \/ proc'[ProcOf[u]].seq = proc[ProcOf[u]].seq + 1
    BY <1>0, <1>22 DEF StepLose
  <2>2. loc'[u].why = "wait" => loc[u].why = "wait" /\ loc'[u].seq = loc[u].seq
    <3>1. u # t => loc'[u] = loc[u]
      BY <1>22 DEF StepLose
    <3>2. loc'[t].why = "wait" => loc[t].why = "wait" /\ loc'[t].seq = loc[t].seq
      BY <1>0, <1>22 DEF StepLose
    <3> QED
      BY <3>1, <3>2
  <2> QED
    BY <1>a, <2>1, <2>2
<1>23. ASSUME StepFree(t)
      PROVE  \A u \in Tasks : SeqOk(u)'
  <2> SUFFICES ASSUME NEW u \in Tasks
               PROVE  SeqOk(u)'
    OBVIOUS
  <2>1. \/ proc'[ProcOf[u]].seq = proc[ProcOf[u]].seq
        \/ proc'[ProcOf[u]].seq = proc[ProcOf[u]].seq + 1
    BY <1>0, <1>23 DEF StepFree
  <2>2. loc'[u].why = "wait" => loc[u].why = "wait" /\ loc'[u].seq = loc[u].seq
    <3>1. u # t => loc'[u] = loc[u]
      BY <1>23 DEF StepFree
    <3>2. loc'[t].why = "wait" => loc[t].why = "wait" /\ loc'[t].seq = loc[t].seq
      BY <1>0, <1>23 DEF StepFree
    <3> QED
      BY <3>1, <3>2
  <2> QED
    BY <1>a, <2>1, <2>2
<1>24. ASSUME StepCount(t)
      PROVE  \A u \in Tasks : SeqOk(u)'
  <2> SUFFICES ASSUME NEW u \in Tasks
               PROVE  SeqOk(u)'
    OBVIOUS
  <2>1. \/ proc'[ProcOf[u]].seq = proc[ProcOf[u]].seq
        \/ proc'[ProcOf[u]].seq = proc[ProcOf[u]].seq + 1
    BY <1>0, <1>24 DEF StepCount
  <2>2. loc'[u].why = "wait" => loc[u].why = "wait" /\ loc'[u].seq = loc[u].seq
    <3>1. u # t => loc'[u] = loc[u]
      BY <1>24 DEF StepCount
    <3>2. loc'[t].why = "wait" => loc[t].why = "wait" /\ loc'[t].seq = loc[t].seq
      BY <1>0, <1>24 DEF StepCount
    <3> QED
      BY <3>1, <3>2
  <2> QED
    BY <1>a, <2>1, <2>2
<1>25. ASSUME StepDetach(t)
      PROVE  \A u \in Tasks : SeqOk(u)'
  <2> SUFFICES ASSUME NEW u \in Tasks
               PROVE  SeqOk(u)'
    OBVIOUS
  <2>1. \/ proc'[ProcOf[u]].seq = proc[ProcOf[u]].seq
        \/ proc'[ProcOf[u]].seq = proc[ProcOf[u]].seq + 1
    BY <1>0, <1>25 DEF StepDetach
  <2>2. loc'[u].why = "wait" => loc[u].why = "wait" /\ loc'[u].seq = loc[u].seq
    <3>1. u # t => loc'[u] = loc[u]
      BY <1>25 DEF StepDetach
    <3>2. loc'[t].why = "wait" => loc[t].why = "wait" /\ loc'[t].seq = loc[t].seq
      BY <1>0, <1>25 DEF StepDetach
    <3> QED
      BY <3>1, <3>2
  <2> QED
    BY <1>a, <2>1, <2>2
<1>26. ASSUME StepParent(t)
      PROVE  \A u \in Tasks : SeqOk(u)'
  <2> SUFFICES ASSUME NEW u \in Tasks
               PROVE  SeqOk(u)'
    OBVIOUS
  <2>1. \/ proc'[ProcOf[u]].seq = proc[ProcOf[u]].seq
        \/ proc'[ProcOf[u]].seq = proc[ProcOf[u]].seq + 1
    BY <1>0, <1>26 DEF StepParent
  <2>2. loc'[u].why = "wait" => loc[u].why = "wait" /\ loc'[u].seq = loc[u].seq
    <3>1. u # t => loc'[u] = loc[u]
      BY <1>26 DEF StepParent
    <3>2. loc'[t].why = "wait" => loc[t].why = "wait" /\ loc'[t].seq = loc[t].seq
      BY <1>0, <1>26 DEF StepParent
    <3> QED
      BY <3>1, <3>2
  <2> QED
    BY <1>a, <2>1, <2>2
<1>27. ASSUME StepDefer(t)
      PROVE  \A u \in Tasks : SeqOk(u)'
  <2> SUFFICES ASSUME NEW u \in Tasks
               PROVE  SeqOk(u)'
    OBVIOUS
  <2>1. \/ proc'[ProcOf[u]].seq = proc[ProcOf[u]].seq
        \/ proc'[ProcOf[u]].seq = proc[ProcOf[u]].seq + 1
    BY <1>0, <1>27 DEF StepDefer
  <2>2. loc'[u].why = "wait" => loc[u].why = "wait" /\ loc'[u].seq = loc[u].seq
    <3>1. u # t => loc'[u] = loc[u]
      BY <1>27 DEF StepDefer
    <3>2. loc'[t].why = "wait" => loc[t].why = "wait" /\ loc'[t].seq = loc[t].seq
      BY <1>0, <1>27 DEF StepDefer
    <3> QED
      BY <3>1, <3>2
  <2> QED
    BY <1>a, <2>1, <2>2
<1>28. ASSUME StepSwitch(t)
      PROVE  \A u \in Tasks : SeqOk(u)'
  <2> SUFFICES ASSUME NEW u \in Tasks
               PROVE  SeqOk(u)'
    OBVIOUS
  <2>1. \/ proc'[ProcOf[u]].seq = proc[ProcOf[u]].seq
        \/ proc'[ProcOf[u]].seq = proc[ProcOf[u]].seq + 1
    BY <1>0, <1>28 DEF StepSwitch
  <2>2. loc'[u].why = "wait" => loc[u].why = "wait" /\ loc'[u].seq = loc[u].seq
    <3>1. u # t => loc'[u] = loc[u]
      BY <1>28 DEF StepSwitch
    <3>2. loc'[t].why = "wait" => loc[t].why = "wait" /\ loc'[t].seq = loc[t].seq
      BY <1>0, <1>28 DEF StepSwitch
    <3> QED
      BY <3>1, <3>2
  <2> QED
    BY <1>a, <2>1, <2>2
<1>29. ASSUME StepGroup(t)
      PROVE  \A u \in Tasks : SeqOk(u)'
  <2> SUFFICES ASSUME NEW u \in Tasks
               PROVE  SeqOk(u)'
    OBVIOUS
  <2>1. \/ proc'[ProcOf[u]].seq = proc[ProcOf[u]].seq
        \/ proc'[ProcOf[u]].seq = proc[ProcOf[u]].seq + 1
    BY <1>0, <1>29 DEF StepGroup
  <2>2. loc'[u].why = "wait" => loc[u].why = "wait" /\ loc'[u].seq = loc[u].seq
    <3>1. u # t => loc'[u] = loc[u]
      BY <1>29 DEF StepGroup
    <3>2. loc'[t].why = "wait" => loc[t].why = "wait" /\ loc'[t].seq = loc[t].seq
      BY <1>0, <1>29 DEF StepGroup
    <3> QED
      BY <3>1, <3>2
  <2> QED
    BY <1>a, <2>1, <2>2
<1>30. ASSUME NEW k \in Procs, StepKill(t, k)
      PROVE  \A u \in Tasks : SeqOk(u)'
  <2> SUFFICES ASSUME NEW u \in Tasks
               PROVE  SeqOk(u)'
    OBVIOUS
  <2>1. \/ proc'[ProcOf[u]].seq = proc[ProcOf[u]].seq
        \/ proc'[ProcOf[u]].seq = proc[ProcOf[u]].seq + 1
    BY <1>0, <1>30 DEF StepKill
  <2>2. loc'[u].why = "wait" => loc[u].why = "wait" /\ loc'[u].seq = loc[u].seq
    <3>1. u # t => loc'[u] = loc[u]
      BY <1>30 DEF StepKill
    <3>2. loc'[t].why = "wait" => loc[t].why = "wait" /\ loc'[t].seq = loc[t].seq
      BY <1>0, <1>30 DEF StepKill
    <3> QED
      BY <3>1, <3>2
  <2> QED
    BY <1>a, <2>1, <2>2
<1>31. ASSUME NEW w \in Tasks, StepFlag(t, w)
      PROVE  \A u \in Tasks : SeqOk(u)'
  <2> SUFFICES ASSUME NEW u \in Tasks
               PROVE  SeqOk(u)'
    OBVIOUS
  <2>1. \/ proc'[ProcOf[u]].seq = proc[ProcOf[u]].seq
        \/ proc'[ProcOf[u]].seq = proc[ProcOf[u]].seq + 1
    BY <1>0, <1>31 DEF StepFlag
  <2>2. loc'[u].why = "wait" => loc[u].why = "wait" /\ loc'[u].seq = loc[u].seq
    <3>1. u # t => loc'[u] = loc[u]
      BY <1>31 DEF StepFlag
    <3>2. loc'[t].why = "wait" => loc[t].why = "wait" /\ loc'[t].seq = loc[t].seq
      BY <1>0, <1>31 DEF StepFlag
    <3> QED
      BY <3>1, <3>2
  <2> QED
    BY <1>a, <2>1, <2>2
<1>32. ASSUME NEW w \in Tasks, StepFlagOnly(t, w)
      PROVE  \A u \in Tasks : SeqOk(u)'
  <2> SUFFICES ASSUME NEW u \in Tasks
               PROVE  SeqOk(u)'
    OBVIOUS
  <2>1. \/ proc'[ProcOf[u]].seq = proc[ProcOf[u]].seq
        \/ proc'[ProcOf[u]].seq = proc[ProcOf[u]].seq + 1
    BY <1>0, <1>32 DEF StepFlagOnly
  <2>2. loc'[u].why = "wait" => loc[u].why = "wait" /\ loc'[u].seq = loc[u].seq
    <3>1. u # t => loc'[u] = loc[u]
      BY <1>32 DEF StepFlagOnly
    <3>2. loc'[t].why = "wait" => loc[t].why = "wait" /\ loc'[t].seq = loc[t].seq
      BY <1>0, <1>32 DEF StepFlagOnly
    <3> QED
      BY <3>1, <3>2
  <2> QED
    BY <1>a, <2>1, <2>2
<1>33. ASSUME StepNotify(t)
      PROVE  \A u \in Tasks : SeqOk(u)'
  <2> SUFFICES ASSUME NEW u \in Tasks
               PROVE  SeqOk(u)'
    OBVIOUS
  <2>1. \/ proc'[ProcOf[u]].seq = proc[ProcOf[u]].seq
        \/ proc'[ProcOf[u]].seq = proc[ProcOf[u]].seq + 1
    BY <1>0, <1>33 DEF StepNotify
  <2>2. loc'[u].why = "wait" => loc[u].why = "wait" /\ loc'[u].seq = loc[u].seq
    <3>1. u # t => loc'[u] = loc[u]
      BY <1>33 DEF StepNotify
    <3>2. loc'[t].why = "wait" => loc[t].why = "wait" /\ loc'[t].seq = loc[t].seq
      BY <1>0, <1>33 DEF StepNotify
    <3> QED
      BY <3>1, <3>2
  <2> QED
    BY <1>a, <2>1, <2>2
<1>34. ASSUME StepFinish(t)
      PROVE  \A u \in Tasks : SeqOk(u)'
  <2> SUFFICES ASSUME NEW u \in Tasks
               PROVE  SeqOk(u)'
    OBVIOUS
  <2>1. \/ proc'[ProcOf[u]].seq = proc[ProcOf[u]].seq
        \/ proc'[ProcOf[u]].seq = proc[ProcOf[u]].seq + 1
    BY <1>0, <1>34 DEF StepFinish
  <2>2. loc'[u].why = "wait" => loc[u].why = "wait" /\ loc'[u].seq = loc[u].seq
    <3>1. u # t => loc'[u] = loc[u]
      BY <1>34 DEF StepFinish
    <3>2. loc'[t].why = "wait" => loc[t].why = "wait" /\ loc'[t].seq = loc[t].seq
      BY <1>0, <1>34 DEF StepFinish
    <3> QED
      BY <3>1, <3>2
  <2> QED
    BY <1>a, <2>1, <2>2
<1>35. ASSUME StepEvent(t)
      PROVE  \A u \in Tasks : SeqOk(u)'
  <2> SUFFICES ASSUME NEW u \in Tasks
               PROVE  SeqOk(u)'
    OBVIOUS
  <2>1. \/ proc'[ProcOf[u]].seq = proc[ProcOf[u]].seq
        \/ proc'[ProcOf[u]].seq = proc[ProcOf[u]].seq + 1
    BY <1>0, <1>35 DEF StepEvent
  <2>2. loc'[u].why = "wait" => loc[u].why = "wait" /\ loc'[u].seq = loc[u].seq
    <3>1. u # t => loc'[u] = loc[u]
      BY <1>35 DEF StepEvent
    <3>2. loc'[t].why = "wait" => loc[t].why = "wait" /\ loc'[t].seq = loc[t].seq
      BY <1>0, <1>35 DEF StepEvent
    <3> QED
      BY <3>1, <3>2
  <2> QED
    BY <1>a, <2>1, <2>2
<1>36. ASSUME StepCollect(t)
      PROVE  \A u \in Tasks : SeqOk(u)'
  <2> SUFFICES ASSUME NEW u \in Tasks
               PROVE  SeqOk(u)'
    OBVIOUS
  <2>1. \/ proc'[ProcOf[u]].seq = proc[ProcOf[u]].seq
        \/ proc'[ProcOf[u]].seq = proc[ProcOf[u]].seq + 1
    BY <1>0, <1>36 DEF StepCollect
  <2>2. loc'[u].why = "wait" => loc[u].why = "wait" /\ loc'[u].seq = loc[u].seq
    <3>1. u # t => loc'[u] = loc[u]
      BY <1>36 DEF StepCollect
    <3>2. loc'[t].why = "wait" => loc[t].why = "wait" /\ loc'[t].seq = loc[t].seq
      BY <1>0, <1>36 DEF StepCollect
    <3> QED
      BY <3>1, <3>2
  <2> QED
    BY <1>a, <2>1, <2>2
<1>37. ASSUME NEW w \in Tasks, StepWakeOne(t, w)
      PROVE  \A u \in Tasks : SeqOk(u)'
  <2> SUFFICES ASSUME NEW u \in Tasks
               PROVE  SeqOk(u)'
    OBVIOUS
  <2>1. \/ proc'[ProcOf[u]].seq = proc[ProcOf[u]].seq
        \/ proc'[ProcOf[u]].seq = proc[ProcOf[u]].seq + 1
    BY <1>0, <1>37 DEF StepWakeOne
  <2>2. loc'[u].why = "wait" => loc[u].why = "wait" /\ loc'[u].seq = loc[u].seq
    <3>1. u # t => loc'[u] = loc[u]
      BY <1>37 DEF StepWakeOne
    <3>2. loc'[t].why = "wait" => loc[t].why = "wait" /\ loc'[t].seq = loc[t].seq
      BY <1>0, <1>37 DEF StepWakeOne
    <3> QED
      BY <3>1, <3>2
  <2> QED
    BY <1>a, <2>1, <2>2
<1>38. ASSUME StepWakesDone(t)
      PROVE  \A u \in Tasks : SeqOk(u)'
  <2> SUFFICES ASSUME NEW u \in Tasks
               PROVE  SeqOk(u)'
    OBVIOUS
  <2>1. \/ proc'[ProcOf[u]].seq = proc[ProcOf[u]].seq
        \/ proc'[ProcOf[u]].seq = proc[ProcOf[u]].seq + 1
    BY <1>0, <1>38 DEF StepWakesDone
  <2>2. loc'[u].why = "wait" => loc[u].why = "wait" /\ loc'[u].seq = loc[u].seq
    <3>1. u # t => loc'[u] = loc[u]
      BY <1>38 DEF StepWakesDone
    <3>2. loc'[t].why = "wait" => loc[t].why = "wait" /\ loc'[t].seq = loc[t].seq
      BY <1>0, <1>38 DEF StepWakesDone
    <3> QED
      BY <3>1, <3>2
  <2> QED
    BY <1>a, <2>1, <2>2
<1> QED
  BY <1>1, <1>2, <1>3, <1>4, <1>5, <1>6, <1>7, <1>8, <1>9, <1>10, <1>11, <1>12, <1>13,
     <1>14, <1>15, <1>16, <1>17, <1>18, <1>19, <1>20, <1>21, <1>22, <1>23, <1>24, <1>25,
     <1>26, <1>27, <1>28, <1>29, <1>30, <1>31, <1>32, <1>33, <1>34, <1>35, <1>36, <1>37,
     <1>38
  DEF Step

\* No step takes a waiter past an end it has not seen into a sleep nobody will end.
LEMMA ScanStep ==
  ASSUME ReapInv, KnownInv, FamilyInv, WaitInv, NEW t \in Tasks, Step(t)
  PROVE  \A d \in Procs, u \in Tasks : ScanOk(u, d)'
<1>0. /\ ControlInv /\ ProcOf[t] \in Procs /\ Ctl(t)
      /\ \A u \in Tasks : Ctl(u) /\ ExitOk(u) /\ SeqOk(u) /\ \A d \in Procs : ScanOk(u, d)
  BY DEF ReapInv, ControlInv, ExitInv, WaitInv
<1>1. ASSUME StepReturn(t)
      PROVE  \A d \in Procs, u \in Tasks : ScanOk(u, d)'
  <2> SUFFICES ASSUME NEW d \in Procs, NEW u \in Tasks
               PROVE  ScanOk(u, d)'
    OBVIOUS
  <2>1. CASE u = t
    BY <1>0, <1>1, <2>1
    DEF StepReturn, ScanOk, Ctl, ForkLabels, WaitLabels, ExitLabels, AfterReturn
  <2>2. CASE u # t
    <3>1. loc'[u] = loc[u] /\ prog'[u] = prog[u]
      BY <1>1, <2>2 DEF StepReturn
    <3>2. pc'[u] = pc[u] \/ WokenTo(u)
      BY <1>1, <2>2 DEF StepReturn
    <3>3. \/ proc'[ProcOf[u]].seq = proc[ProcOf[u]].seq
          \/ proc'[ProcOf[u]].seq = proc[ProcOf[u]].seq + 1
      BY <1>0, <1>1 DEF StepReturn
    <3>4. d \in proc'[ProcOf[u]].children \ adopted' =>
            d \in proc[ProcOf[u]].children \ adopted \/ ~Published(d)
      BY <1>0, <1>1 DEF StepReturn
    <3>5. (Published(d)' => Published(d)) /\ (Hope(d, u) => Hope(d, u)')
      BY <1>1, DeferredSame DEF StepReturn
    <3> QED
      BY <1>0, <3>1, <3>2, <3>3, <3>4, <3>5, ScanFrame
  <2> QED
    BY <2>1, <2>2
<1>2. ASSUME NEW c \in Procs, NEW v \in BOOLEAN, StepFork(t, c, v)
      PROVE  \A d \in Procs, u \in Tasks : ScanOk(u, d)'
  <2> SUFFICES ASSUME NEW d \in Procs, NEW u \in Tasks
               PROVE  ScanOk(u, d)'
    OBVIOUS
  <2>1. CASE u = t
    BY <1>0, <1>2, <2>1 DEF StepFork, ScanOk, Ctl, ForkLabels, WaitLabels, ExitLabels
  <2>2. CASE u # t
    <3>1. loc'[u] = loc[u] /\ prog'[u] = prog[u]
      BY <1>2, <2>2 DEF StepFork
    <3>2. CASE ProcOf[u] = c
      <4>1. proc'[ProcOf[u]].children = {}
        BY <1>2, <3>2 DEF StepFork
      <4> QED
        BY <4>1 DEF ScanOk, Due
    <3>3. CASE ProcOf[u] # c
      <4>1. proc'[ProcOf[u]] = proc[ProcOf[u]] /\ pc'[u] = pc[u] /\ deferred' = deferred /\ adopted' = adopted
        BY <1>2, <2>2, <3>3 DEF StepFork
      <4>2. (Published(d)' => Published(d)) /\ (Hope(d, u) => Hope(d, u)')
        BY <4>1, DeferredSame
      <4>3. ScanOk(u, d) /\ SeqOk(u)
        BY <1>0
      <4> QED
        BY <1>0, <3>1, <4>1, <4>2, <4>3, ScanFrame
    <3> QED
      BY <3>2, <3>3
  <2> QED
    BY <2>1, <2>2
<1>3. ASSUME StepPush(t)
      PROVE  \A d \in Procs, u \in Tasks : ScanOk(u, d)'
  <2> SUFFICES ASSUME NEW d \in Procs, NEW u \in Tasks
               PROVE  ScanOk(u, d)'
    OBVIOUS
  <2>1. CASE u = t
    BY <1>0, <1>3, <2>1 DEF StepPush, ScanOk, Ctl, ForkLabels, WaitLabels, ExitLabels
  <2>2. CASE u # t
    <3>1. loc'[u] = loc[u] /\ prog'[u] = prog[u]
      BY <1>3, <2>2 DEF StepPush
    <3>2. pc'[u] = pc[u] \/ WokenTo(u)
      BY <1>3, <2>2 DEF StepPush
    <3>3. \/ proc'[ProcOf[u]].seq = proc[ProcOf[u]].seq
          \/ proc'[ProcOf[u]].seq = proc[ProcOf[u]].seq + 1
      BY <1>0, <1>3 DEF StepPush
    <3>4. d \in proc'[ProcOf[u]].children \ adopted' =>
            d \in proc[ProcOf[u]].children \ adopted \/ ~Published(d)
      <4>1. d = loc[t].of => ~Published(d)
        BY <1>3, ForkingNotPublished DEF StepPush
      <4>2. CASE ProcOf[u] = ProcOf[t]
        <5>1. proc'[ProcOf[u]].children = proc[ProcOf[u]].children \cup {loc[t].of} /\ adopted' = adopted
          BY <1>0, <1>3, <4>2 DEF StepPush
        <5> QED
          BY <4>1, <5>1
      <4>3. CASE ProcOf[u] # ProcOf[t]
        BY <1>3, <4>3 DEF StepPush
      <4> QED
        BY <4>2, <4>3
    <3>5. (Published(d)' => Published(d)) /\ (Hope(d, u) => Hope(d, u)')
      BY <1>3, DeferredSame DEF StepPush
    <3> QED
      BY <1>0, <3>1, <3>2, <3>3, <3>4, <3>5, ScanFrame
  <2> QED
    BY <2>1, <2>2
<1>4. ASSUME StepPublish(t)
      PROVE  \A d \in Procs, u \in Tasks : ScanOk(u, d)'
  <2> SUFFICES ASSUME NEW d \in Procs, NEW u \in Tasks
               PROVE  ScanOk(u, d)'
    OBVIOUS
  <2>1. CASE u = t
    BY <1>0, <1>4, <2>1 DEF StepPublish, ScanOk, Ctl, ForkLabels, WaitLabels, ExitLabels
  <2>2. CASE u # t
    <3>1. loc'[u] = loc[u] /\ prog'[u] = prog[u]
      BY <1>4, <2>2 DEF StepPublish
    <3>2. pc'[u] = pc[u] \/ WokenTo(u)
      BY <1>4, <2>2 DEF StepPublish
    <3>3. \/ proc'[ProcOf[u]].seq = proc[ProcOf[u]].seq
          \/ proc'[ProcOf[u]].seq = proc[ProcOf[u]].seq + 1
      BY <1>0, <1>4 DEF StepPublish
    <3>4. d \in proc'[ProcOf[u]].children \ adopted' =>
            d \in proc[ProcOf[u]].children \ adopted \/ ~Published(d)
      BY <1>0, <1>4 DEF StepPublish
    <3>5. (Published(d)' => Published(d)) /\ (Hope(d, u) => Hope(d, u)')
      BY <1>4, DeferredSame DEF StepPublish
    <3> QED
      BY <1>0, <3>1, <3>2, <3>3, <3>4, <3>5, ScanFrame
  <2> QED
    BY <2>1, <2>2
<1>5. ASSUME StepStart(t)
      PROVE  \A d \in Procs, u \in Tasks : ScanOk(u, d)'
  <2> SUFFICES ASSUME NEW d \in Procs, NEW u \in Tasks
               PROVE  ScanOk(u, d)'
    OBVIOUS
  <2>1. CASE u = t
    BY <1>0, <1>5, <2>1
    DEF StepStart, ScanOk, Ctl, ForkLabels, WaitLabels, ExitLabels, AfterReturn
  <2>2. CASE u # t
    <3>1. loc'[u] = loc[u] /\ prog'[u] = prog[u]
      BY <1>5, <2>2 DEF StepStart
    <3>2. pc'[u] = pc[u] \/ WokenTo(u)
      BY <1>5, <2>2 DEF StepStart
    <3>3. \/ proc'[ProcOf[u]].seq = proc[ProcOf[u]].seq
          \/ proc'[ProcOf[u]].seq = proc[ProcOf[u]].seq + 1
      BY <1>0, <1>5 DEF StepStart
    <3>4. d \in proc'[ProcOf[u]].children \ adopted' =>
            d \in proc[ProcOf[u]].children \ adopted \/ ~Published(d)
      BY <1>0, <1>5 DEF StepStart
    <3>5. (Published(d)' => Published(d)) /\ (Hope(d, u) => Hope(d, u)')
      BY <1>5, DeferredSame DEF StepStart
    <3> QED
      BY <1>0, <3>1, <3>2, <3>3, <3>4, <3>5, ScanFrame
  <2> QED
    BY <2>1, <2>2
<1>6. ASSUME StepVforkBlock(t)
      PROVE  \A d \in Procs, u \in Tasks : ScanOk(u, d)'
  <2> SUFFICES ASSUME NEW d \in Procs, NEW u \in Tasks
               PROVE  ScanOk(u, d)'
    OBVIOUS
  <2>1. CASE u = t
    BY <1>0, <1>6, <2>1 DEF StepVforkBlock, ScanOk, Ctl, ForkLabels, WaitLabels, ExitLabels
  <2>2. CASE u # t
    <3>1. loc'[u] = loc[u] /\ prog'[u] = prog[u]
      BY <1>6, <2>2 DEF StepVforkBlock
    <3>2. pc'[u] = pc[u] \/ WokenTo(u)
      BY <1>6, <2>2 DEF StepVforkBlock
    <3>3. \/ proc'[ProcOf[u]].seq = proc[ProcOf[u]].seq
          \/ proc'[ProcOf[u]].seq = proc[ProcOf[u]].seq + 1
      BY <1>0, <1>6 DEF StepVforkBlock
    <3>4. d \in proc'[ProcOf[u]].children \ adopted' =>
            d \in proc[ProcOf[u]].children \ adopted \/ ~Published(d)
      BY <1>0, <1>6 DEF StepVforkBlock
    <3>5. (Published(d)' => Published(d)) /\ (Hope(d, u) => Hope(d, u)')
      BY <1>6, DeferredSame DEF StepVforkBlock
    <3> QED
      BY <1>0, <3>1, <3>2, <3>3, <3>4, <3>5, ScanFrame
  <2> QED
    BY <2>1, <2>2
<1>7. ASSUME StepExec(t)
      PROVE  \A d \in Procs, u \in Tasks : ScanOk(u, d)'
  <2> SUFFICES ASSUME NEW d \in Procs, NEW u \in Tasks
               PROVE  ScanOk(u, d)'
    OBVIOUS
  <2>1. CASE u = t
    BY <1>0, <1>7, <2>1
    DEF StepExec, ScanOk, Ctl, ForkLabels, WaitLabels, ExitLabels, AfterReturn
  <2>2. CASE u # t
    <3>1. loc'[u] = loc[u] /\ prog'[u] = prog[u]
      BY <1>7, <2>2 DEF StepExec
    <3>2. pc'[u] = pc[u] \/ WokenTo(u)
      BY <1>7, <2>2 DEF StepExec
    <3>3. \/ proc'[ProcOf[u]].seq = proc[ProcOf[u]].seq
          \/ proc'[ProcOf[u]].seq = proc[ProcOf[u]].seq + 1
      BY <1>0, <1>7 DEF StepExec
    <3>4. d \in proc'[ProcOf[u]].children \ adopted' =>
            d \in proc[ProcOf[u]].children \ adopted \/ ~Published(d)
      BY <1>0, <1>7 DEF StepExec
    <3>5. (Published(d)' => Published(d)) /\ (Hope(d, u) => Hope(d, u)')
      BY <1>7, DeferredSame DEF StepExec
    <3> QED
      BY <1>0, <3>1, <3>2, <3>3, <3>4, <3>5, ScanFrame
  <2> QED
    BY <2>1, <2>2
<1>8. ASSUME StepVforkClear(t)
      PROVE  \A d \in Procs, u \in Tasks : ScanOk(u, d)'
  <2> SUFFICES ASSUME NEW d \in Procs, NEW u \in Tasks
               PROVE  ScanOk(u, d)'
    OBVIOUS
  <2>1. CASE u = t
    BY <1>0, <1>8, <2>1
    DEF StepVforkClear, ScanOk, Ctl, ForkLabels, WaitLabels, ExitLabels, AfterVfork,
        AfterReturn
  <2>2. CASE u # t
    <3>1. loc'[u] = loc[u] /\ prog'[u] = prog[u]
      BY <1>8, <2>2 DEF StepVforkClear
    <3>2. pc'[u] = pc[u] \/ WokenTo(u)
      BY <1>8, <2>2 DEF StepVforkClear
    <3>3. \/ proc'[ProcOf[u]].seq = proc[ProcOf[u]].seq
          \/ proc'[ProcOf[u]].seq = proc[ProcOf[u]].seq + 1
      BY <1>0, <1>8 DEF StepVforkClear
    <3>4. d \in proc'[ProcOf[u]].children \ adopted' =>
            d \in proc[ProcOf[u]].children \ adopted \/ ~Published(d)
      BY <1>0, <1>8 DEF StepVforkClear
    <3>5. (Published(d)' => Published(d)) /\ (Hope(d, u) => Hope(d, u)')
      BY <1>8, DeferredSame DEF StepVforkClear
    <3> QED
      BY <1>0, <3>1, <3>2, <3>3, <3>4, <3>5, ScanFrame
  <2> QED
    BY <2>1, <2>2
<1>9. ASSUME StepVforkWake(t)
      PROVE  \A d \in Procs, u \in Tasks : ScanOk(u, d)'
  <2> SUFFICES ASSUME NEW d \in Procs, NEW u \in Tasks
               PROVE  ScanOk(u, d)'
    OBVIOUS
  <2>1. CASE u = t
    BY <1>0, <1>9, <2>1
    DEF StepVforkWake, ScanOk, Ctl, ForkLabels, WaitLabels, ExitLabels, AfterVfork,
        AfterReturn
  <2>2. CASE u # t
    <3>1. loc'[u] = loc[u] /\ prog'[u] = prog[u]
      BY <1>9, <2>2 DEF StepVforkWake
    <3>2. pc'[u] = pc[u] \/ WokenTo(u)
      BY <1>9, <2>2 DEF StepVforkWake
    <3>3. \/ proc'[ProcOf[u]].seq = proc[ProcOf[u]].seq
          \/ proc'[ProcOf[u]].seq = proc[ProcOf[u]].seq + 1
      BY <1>0, <1>9 DEF StepVforkWake
    <3>4. d \in proc'[ProcOf[u]].children \ adopted' =>
            d \in proc[ProcOf[u]].children \ adopted \/ ~Published(d)
      BY <1>0, <1>9 DEF StepVforkWake
    <3>5. (Published(d)' => Published(d)) /\ (Hope(d, u) => Hope(d, u)')
      BY <1>9, DeferredSame DEF StepVforkWake
    <3> QED
      BY <1>0, <3>1, <3>2, <3>3, <3>4, <3>5, ScanFrame
  <2> QED
    BY <2>1, <2>2
<1>10. ASSUME StepTake(t)
      PROVE  \A d \in Procs, u \in Tasks : ScanOk(u, d)'
  <2> SUFFICES ASSUME NEW d \in Procs, NEW u \in Tasks
               PROVE  ScanOk(u, d)'
    OBVIOUS
  <2>1. CASE u = t
    BY <1>0, <1>10, <2>1 DEF StepTake, ScanOk, Ctl, ForkLabels, WaitLabels, ExitLabels
  <2>2. CASE u # t
    <3>1. loc'[u] = loc[u] /\ prog'[u] = prog[u]
      BY <1>10, <2>2 DEF StepTake
    <3>2. pc'[u] = pc[u] \/ WokenTo(u)
      BY <1>10, <2>2 DEF StepTake
    <3>3. \/ proc'[ProcOf[u]].seq = proc[ProcOf[u]].seq
          \/ proc'[ProcOf[u]].seq = proc[ProcOf[u]].seq + 1
      BY <1>0, <1>10 DEF StepTake
    <3>4. d \in proc'[ProcOf[u]].children \ adopted' =>
            d \in proc[ProcOf[u]].children \ adopted \/ ~Published(d)
      BY <1>0, <1>10 DEF StepTake
    <3>5. (Published(d)' => Published(d)) /\ (Hope(d, u) => Hope(d, u)')
      BY <1>10, DeferredSame DEF StepTake
    <3> QED
      BY <1>0, <3>1, <3>2, <3>3, <3>4, <3>5, ScanFrame
  <2> QED
    BY <2>1, <2>2
<1>11. ASSUME NEW c \in Procs, StepEach(t, c)
      PROVE  \A d \in Procs, u \in Tasks : ScanOk(u, d)'
  <2> SUFFICES ASSUME NEW d \in Procs, NEW u \in Tasks
               PROVE  ScanOk(u, d)'
    OBVIOUS
  <2>1. CASE u = t
    BY <1>0, <1>11, <2>1 DEF StepEach, ScanOk, Ctl, ForkLabels, WaitLabels, ExitLabels
  <2>2. CASE u # t
    <3>1. loc'[u] = loc[u] /\ prog'[u] = prog[u]
      BY <1>11, <2>2 DEF StepEach
    <3>2. pc'[u] = pc[u] \/ WokenTo(u)
      BY <1>11, <2>2 DEF StepEach
    <3>3. \/ proc'[ProcOf[u]].seq = proc[ProcOf[u]].seq
          \/ proc'[ProcOf[u]].seq = proc[ProcOf[u]].seq + 1
      BY <1>0, <1>11 DEF StepEach
    <3>4. d \in proc'[ProcOf[u]].children \ adopted' =>
            d \in proc[ProcOf[u]].children \ adopted \/ ~Published(d)
      BY <1>0, <1>11 DEF StepEach
    <3>5. (Published(d)' => Published(d)) /\ (Hope(d, u) => Hope(d, u)')
      BY <1>11, DeferredSame DEF StepEach
    <3> QED
      BY <1>0, <3>1, <3>2, <3>3, <3>4, <3>5, ScanFrame
  <2> QED
    BY <2>1, <2>2
<1>12. ASSUME StepGive(t)
      PROVE  \A d \in Procs, u \in Tasks : ScanOk(u, d)'
  <2> SUFFICES ASSUME NEW d \in Procs, NEW u \in Tasks
               PROVE  ScanOk(u, d)'
    OBVIOUS
  <2>1. CASE u = t
    BY <1>0, <1>12, <2>1
    DEF StepGive, ScanOk, Ctl, ForkLabels, WaitLabels, ExitLabels, AfterReparent,
        AfterAdoption
  <2>2. CASE u # t
    <3>1. loc'[u] = loc[u] /\ prog'[u] = prog[u]
      BY <1>12, <2>2 DEF StepGive
    <3>2. pc'[u] = pc[u] \/ WokenTo(u)
      BY <1>12, <2>2 DEF StepGive
    <3>3. \/ proc'[ProcOf[u]].seq = proc[ProcOf[u]].seq
          \/ proc'[ProcOf[u]].seq = proc[ProcOf[u]].seq + 1
      BY <1>0, <1>12 DEF StepGive
    <3>4. d \in proc'[ProcOf[u]].children \ adopted' =>
            d \in proc[ProcOf[u]].children \ adopted \/ ~Published(d)
      <4>1. d \in loc[t].moved => d \in adopted
        BY <1>12 DEF StepGive, FamilyInv, ParentOk, Moved
      <4> QED
        BY <1>12, <4>1 DEF StepGive
    <3>5. (Published(d)' => Published(d)) /\ (Hope(d, u) => Hope(d, u)')
      BY <1>12, DeferredSame DEF StepGive
    <3> QED
      BY <1>0, <3>1, <3>2, <3>3, <3>4, <3>5, ScanFrame
  <2> QED
    BY <2>1, <2>2
<1>13. ASSUME StepInitPublish(t)
      PROVE  \A d \in Procs, u \in Tasks : ScanOk(u, d)'
  <2> SUFFICES ASSUME NEW d \in Procs, NEW u \in Tasks
               PROVE  ScanOk(u, d)'
    OBVIOUS
  <2>1. CASE u = t
    BY <1>0, <1>13, <2>1
    DEF StepInitPublish, ScanOk, Ctl, ForkLabels, WaitLabels, ExitLabels
  <2>2. CASE u # t
    <3>1. loc'[u] = loc[u] /\ prog'[u] = prog[u]
      BY <1>13, <2>2 DEF StepInitPublish
    <3>2. pc'[u] = pc[u] \/ WokenTo(u)
      BY <1>13, <2>2 DEF StepInitPublish
    <3>3. \/ proc'[ProcOf[u]].seq = proc[ProcOf[u]].seq
          \/ proc'[ProcOf[u]].seq = proc[ProcOf[u]].seq + 1
      BY <1>0, <1>13 DEF StepInitPublish
    <3>4. d \in proc'[ProcOf[u]].children \ adopted' =>
            d \in proc[ProcOf[u]].children \ adopted \/ ~Published(d)
      BY <1>0, <1>13 DEF StepInitPublish
    <3>5. (Published(d)' => Published(d)) /\ (Hope(d, u) => Hope(d, u)')
      BY <1>13, DeferredSame DEF StepInitPublish
    <3> QED
      BY <1>0, <3>1, <3>2, <3>3, <3>4, <3>5, ScanFrame
  <2> QED
    BY <2>1, <2>2
<1>14. ASSUME NEW w \in SomeTask, StepInitWake(t, w)
      PROVE  \A d \in Procs, u \in Tasks : ScanOk(u, d)'
  <2> SUFFICES ASSUME NEW d \in Procs, NEW u \in Tasks
               PROVE  ScanOk(u, d)'
    OBVIOUS
  <2>1. CASE u = t
    BY <1>0, <1>14, <2>1
    DEF StepInitWake, ScanOk, Ctl, ForkLabels, WaitLabels, ExitLabels, AfterAdoption,
        Asleep, SomeTask
  <2>2. CASE u # t
    <3>1. loc'[u] = loc[u] /\ prog'[u] = prog[u]
      BY <1>14, <2>2 DEF StepInitWake
    <3>2. pc'[u] = pc[u] \/ WokenTo(u)
      BY <1>14, <2>2 DEF StepInitWake, SomeTask
    <3>3. \/ proc'[ProcOf[u]].seq = proc[ProcOf[u]].seq
          \/ proc'[ProcOf[u]].seq = proc[ProcOf[u]].seq + 1
      BY <1>0, <1>14 DEF StepInitWake
    <3>4. d \in proc'[ProcOf[u]].children \ adopted' =>
            d \in proc[ProcOf[u]].children \ adopted \/ ~Published(d)
      BY <1>0, <1>14 DEF StepInitWake
    <3>5. (Published(d)' => Published(d)) /\ (Hope(d, u) => Hope(d, u)')
      BY <1>14, DeferredSame DEF StepInitWake
    <3> QED
      BY <1>0, <3>1, <3>2, <3>3, <3>4, <3>5, ScanFrame
  <2> QED
    BY <2>1, <2>2
<1>15. ASSUME StepWaitSeq(t)
      PROVE  \A d \in Procs, u \in Tasks : ScanOk(u, d)'
  <2> SUFFICES ASSUME NEW d \in Procs, NEW u \in Tasks
               PROVE  ScanOk(u, d)'
    OBVIOUS
  <2>1. CASE u = t
    BY <1>0, <1>15, <2>1 DEF StepWaitSeq, ScanOk, Ctl, ForkLabels, WaitLabels, ExitLabels
  <2>2. CASE u # t
    <3>1. loc'[u] = loc[u] /\ prog'[u] = prog[u]
      BY <1>15, <2>2 DEF StepWaitSeq
    <3>2. pc'[u] = pc[u] \/ WokenTo(u)
      BY <1>15, <2>2 DEF StepWaitSeq
    <3>3. \/ proc'[ProcOf[u]].seq = proc[ProcOf[u]].seq
          \/ proc'[ProcOf[u]].seq = proc[ProcOf[u]].seq + 1
      BY <1>0, <1>15 DEF StepWaitSeq
    <3>4. d \in proc'[ProcOf[u]].children \ adopted' =>
            d \in proc[ProcOf[u]].children \ adopted \/ ~Published(d)
      BY <1>0, <1>15 DEF StepWaitSeq
    <3>5. (Published(d)' => Published(d)) /\ (Hope(d, u) => Hope(d, u)')
      BY <1>15, DeferredSame DEF StepWaitSeq
    <3> QED
      BY <1>0, <3>1, <3>2, <3>3, <3>4, <3>5, ScanFrame
  <2> QED
    BY <2>1, <2>2
<1>16. ASSUME StepWaitList(t)
      PROVE  \A d \in Procs, u \in Tasks : ScanOk(u, d)'
  <2> SUFFICES ASSUME NEW d \in Procs, NEW u \in Tasks
               PROVE  ScanOk(u, d)'
    OBVIOUS
  <2>1. CASE u = t
    BY <1>16, <2>1, DeferredSame DEF StepWaitList, ScanOk, Due
  <2>2. CASE u # t
    <3>1. loc'[u] = loc[u] /\ prog'[u] = prog[u]
      BY <1>16, <2>2 DEF StepWaitList
    <3>2. pc'[u] = pc[u] \/ WokenTo(u)
      BY <1>16, <2>2 DEF StepWaitList
    <3>3. \/ proc'[ProcOf[u]].seq = proc[ProcOf[u]].seq
          \/ proc'[ProcOf[u]].seq = proc[ProcOf[u]].seq + 1
      BY <1>0, <1>16 DEF StepWaitList
    <3>4. d \in proc'[ProcOf[u]].children \ adopted' =>
            d \in proc[ProcOf[u]].children \ adopted \/ ~Published(d)
      BY <1>0, <1>16 DEF StepWaitList
    <3>5. (Published(d)' => Published(d)) /\ (Hope(d, u) => Hope(d, u)')
      BY <1>16, DeferredSame DEF StepWaitList
    <3> QED
      BY <1>0, <3>1, <3>2, <3>3, <3>4, <3>5, ScanFrame
  <2> QED
    BY <2>1, <2>2
<1>17. ASSUME NEW c \in Procs, StepFound(t, c)
      PROVE  \A d \in Procs, u \in Tasks : ScanOk(u, d)'
  <2> SUFFICES ASSUME NEW d \in Procs, NEW u \in Tasks
               PROVE  ScanOk(u, d)'
    OBVIOUS
  <2>1. CASE u = t
    BY <1>0, <1>17, <2>1 DEF StepFound, ScanOk, Ctl, ForkLabels, WaitLabels, ExitLabels
  <2>2. CASE u # t
    <3>1. loc'[u] = loc[u] /\ prog'[u] = prog[u]
      BY <1>17, <2>2 DEF StepFound
    <3>2. pc'[u] = pc[u] \/ WokenTo(u)
      BY <1>17, <2>2 DEF StepFound
    <3>3. \/ proc'[ProcOf[u]].seq = proc[ProcOf[u]].seq
          \/ proc'[ProcOf[u]].seq = proc[ProcOf[u]].seq + 1
      BY <1>0, <1>17 DEF StepFound
    <3>4. d \in proc'[ProcOf[u]].children \ adopted' =>
            d \in proc[ProcOf[u]].children \ adopted \/ ~Published(d)
      BY <1>0, <1>17 DEF StepFound
    <3>5. (Published(d)' => Published(d)) /\ (Hope(d, u) => Hope(d, u)')
      BY <1>17, DeferredSame DEF StepFound
    <3> QED
      BY <1>0, <3>1, <3>2, <3>3, <3>4, <3>5, ScanFrame
  <2> QED
    BY <2>1, <2>2
<1>18. ASSUME NEW c \in Procs, StepPass(t, c)
      PROVE  \A d \in Procs, u \in Tasks : ScanOk(u, d)'
  <2> SUFFICES ASSUME NEW d \in Procs, NEW u \in Tasks
               PROVE  ScanOk(u, d)'
    OBVIOUS
  <2>1. CASE u = t
    <3>1. Due(t, d)' => Due(t, d)
      BY <1>18 DEF StepPass, Due, Wanted, Arg, Published, ThreadsOf
    <3>2. Due(t, c) => Dead(c)
      BY PublishedDead DEF Due
    <3>3. ASSUME Due(t, d)'
          PROVE  d \in loc'[t].todo \/ loc'[t].switching \/ loc'[t].seq # proc'[ProcOf[t]].seq
      <4>1. d \in loc[t].todo \/ loc[t].switching \/ loc[t].seq # proc[ProcOf[t]].seq
        BY <1>0, <1>18, <3>1, <3>3 DEF StepPass, ScanOk
      <4>2. d = c => Wanted(t, c) /\ Dead(c)
        BY <3>1, <3>2, <3>3 DEF Due
      <4> QED
        BY <1>18, <4>1, <4>2 DEF StepPass
    <3>4. pc'[t] = "waitScan"
      BY <1>18 DEF StepPass
    <3> QED
      BY <2>1, <3>3, <3>4 DEF ScanOk
  <2>2. CASE u # t
    <3>1. loc'[u] = loc[u] /\ prog'[u] = prog[u]
      BY <1>18, <2>2 DEF StepPass
    <3>2. pc'[u] = pc[u] \/ WokenTo(u)
      BY <1>18, <2>2 DEF StepPass
    <3>3. \/ proc'[ProcOf[u]].seq = proc[ProcOf[u]].seq
          \/ proc'[ProcOf[u]].seq = proc[ProcOf[u]].seq + 1
      BY <1>0, <1>18 DEF StepPass
    <3>4. d \in proc'[ProcOf[u]].children \ adopted' =>
            d \in proc[ProcOf[u]].children \ adopted \/ ~Published(d)
      BY <1>0, <1>18 DEF StepPass
    <3>5. (Published(d)' => Published(d)) /\ (Hope(d, u) => Hope(d, u)')
      BY <1>18, DeferredSame DEF StepPass
    <3> QED
      BY <1>0, <3>1, <3>2, <3>3, <3>4, <3>5, ScanFrame
  <2> QED
    BY <2>1, <2>2
<1>19. ASSUME StepAgain(t)
      PROVE  \A d \in Procs, u \in Tasks : ScanOk(u, d)'
  <2> SUFFICES ASSUME NEW d \in Procs, NEW u \in Tasks
               PROVE  ScanOk(u, d)'
    OBVIOUS
  <2>1. CASE u = t
    <3>1. Due(t, d)' => Due(t, d)
      BY <1>19 DEF StepAgain, Due, Wanted, Arg, Published, ThreadsOf
    <3>2. ~loc[t].switching /\ Due(t, d) => loc[t].seq # proc[ProcOf[t]].seq
      BY <1>0, <1>19 DEF StepAgain, ScanOk
    <3> QED
      BY <1>19, <2>1, <3>1, <3>2 DEF StepAgain, ScanOk
  <2>2. CASE u # t
    <3>1. loc'[u] = loc[u] /\ prog'[u] = prog[u]
      BY <1>19, <2>2 DEF StepAgain
    <3>2. pc'[u] = pc[u] \/ WokenTo(u)
      BY <1>19, <2>2 DEF StepAgain
    <3>3. \/ proc'[ProcOf[u]].seq = proc[ProcOf[u]].seq
          \/ proc'[ProcOf[u]].seq = proc[ProcOf[u]].seq + 1
      BY <1>0, <1>19 DEF StepAgain
    <3>4. d \in proc'[ProcOf[u]].children \ adopted' =>
            d \in proc[ProcOf[u]].children \ adopted \/ ~Published(d)
      BY <1>0, <1>19 DEF StepAgain
    <3>5. (Published(d)' => Published(d)) /\ (Hope(d, u) => Hope(d, u)')
      BY <1>19, DeferredSame DEF StepAgain
    <3> QED
      BY <1>0, <3>1, <3>2, <3>3, <3>4, <3>5, ScanFrame
  <2> QED
    BY <2>1, <2>2
<1>20. ASSUME StepWaitBlock(t)
      PROVE  \A d \in Procs, u \in Tasks : ScanOk(u, d)'
  <2> SUFFICES ASSUME NEW d \in Procs, NEW u \in Tasks
               PROVE  ScanOk(u, d)'
    OBVIOUS
  <2>1. CASE u = t
    <3>1. Due(t, d)' => Due(t, d)
      BY <1>20 DEF StepWaitBlock, Due, Wanted, Arg, Published, ThreadsOf
    <3>2. Due(t, d) => pc'[t] = "waitSeq"
      BY <1>0, <1>20 DEF StepWaitBlock, ScanOk
    <3> QED
      BY <2>1, <3>1, <3>2 DEF ScanOk
  <2>2. CASE u # t
    <3>1. loc'[u] = loc[u] /\ prog'[u] = prog[u]
      BY <1>20, <2>2 DEF StepWaitBlock
    <3>2. pc'[u] = pc[u] \/ WokenTo(u)
      BY <1>20, <2>2 DEF StepWaitBlock
    <3>3. \/ proc'[ProcOf[u]].seq = proc[ProcOf[u]].seq
          \/ proc'[ProcOf[u]].seq = proc[ProcOf[u]].seq + 1
      BY <1>0, <1>20 DEF StepWaitBlock
    <3>4. d \in proc'[ProcOf[u]].children \ adopted' =>
            d \in proc[ProcOf[u]].children \ adopted \/ ~Published(d)
      BY <1>0, <1>20 DEF StepWaitBlock
    <3>5. (Published(d)' => Published(d)) /\ (Hope(d, u) => Hope(d, u)')
      BY <1>20, DeferredSame DEF StepWaitBlock
    <3> QED
      BY <1>0, <3>1, <3>2, <3>3, <3>4, <3>5, ScanFrame
  <2> QED
    BY <2>1, <2>2
<1>21. ASSUME StepWin(t)
      PROVE  \A d \in Procs, u \in Tasks : ScanOk(u, d)'
  <2> SUFFICES ASSUME NEW d \in Procs, NEW u \in Tasks
               PROVE  ScanOk(u, d)'
    OBVIOUS
  <2>1. CASE u = t
    BY <1>0, <1>21, <2>1 DEF StepWin, ScanOk, Ctl, ForkLabels, WaitLabels, ExitLabels
  <2>2. CASE u # t
    <3>1. loc'[u] = loc[u] /\ prog'[u] = prog[u]
      BY <1>21, <2>2 DEF StepWin
    <3>2. pc'[u] = pc[u] \/ WokenTo(u)
      BY <1>21, <2>2 DEF StepWin
    <3>3. \/ proc'[ProcOf[u]].seq = proc[ProcOf[u]].seq
          \/ proc'[ProcOf[u]].seq = proc[ProcOf[u]].seq + 1
      BY <1>0, <1>21 DEF StepWin
    <3>4. d \in proc'[ProcOf[u]].children \ adopted' =>
            d \in proc[ProcOf[u]].children \ adopted \/ ~Published(d)
      BY <1>0, <1>21 DEF StepWin
    <3>5. (Published(d)' => Published(d)) /\ (Hope(d, u) => Hope(d, u)')
      BY <1>21, DeferredSame DEF StepWin
    <3> QED
      BY <1>0, <3>1, <3>2, <3>3, <3>4, <3>5, ScanFrame
  <2> QED
    BY <2>1, <2>2
<1>22. ASSUME StepLose(t)
      PROVE  \A d \in Procs, u \in Tasks : ScanOk(u, d)'
  <2> SUFFICES ASSUME NEW d \in Procs, NEW u \in Tasks
               PROVE  ScanOk(u, d)'
    OBVIOUS
  <2>1. CASE u = t
    BY <1>0, <1>22, <2>1 DEF StepLose, ScanOk, Ctl, ForkLabels, WaitLabels, ExitLabels
  <2>2. CASE u # t
    <3>1. loc'[u] = loc[u] /\ prog'[u] = prog[u]
      BY <1>22, <2>2 DEF StepLose
    <3>2. pc'[u] = pc[u] \/ WokenTo(u)
      BY <1>22, <2>2 DEF StepLose
    <3>3. \/ proc'[ProcOf[u]].seq = proc[ProcOf[u]].seq
          \/ proc'[ProcOf[u]].seq = proc[ProcOf[u]].seq + 1
      BY <1>0, <1>22 DEF StepLose
    <3>4. d \in proc'[ProcOf[u]].children \ adopted' =>
            d \in proc[ProcOf[u]].children \ adopted \/ ~Published(d)
      BY <1>0, <1>22 DEF StepLose
    <3>5. (Published(d)' => Published(d)) /\ (Hope(d, u) => Hope(d, u)')
      BY <1>22, DeferredSame DEF StepLose
    <3> QED
      BY <1>0, <3>1, <3>2, <3>3, <3>4, <3>5, ScanFrame
  <2> QED
    BY <2>1, <2>2
<1>23. ASSUME StepFree(t)
      PROVE  \A d \in Procs, u \in Tasks : ScanOk(u, d)'
  <2> SUFFICES ASSUME NEW d \in Procs, NEW u \in Tasks
               PROVE  ScanOk(u, d)'
    OBVIOUS
  <2>1. CASE u = t
    BY <1>0, <1>23, <2>1
    DEF StepFree, ScanOk, Ctl, ForkLabels, WaitLabels, ExitLabels, AfterReturn
  <2>2. CASE u # t
    <3>1. loc'[u] = loc[u] /\ prog'[u] = prog[u]
      BY <1>23, <2>2 DEF StepFree
    <3>2. pc'[u] = pc[u] \/ WokenTo(u)
      BY <1>23, <2>2 DEF StepFree
    <3>3. \/ proc'[ProcOf[u]].seq = proc[ProcOf[u]].seq
          \/ proc'[ProcOf[u]].seq = proc[ProcOf[u]].seq + 1
      BY <1>0, <1>23 DEF StepFree
    <3>4. d \in proc'[ProcOf[u]].children \ adopted' =>
            d \in proc[ProcOf[u]].children \ adopted \/ ~Published(d)
      BY <1>0, <1>23 DEF StepFree
    <3>5. (Published(d)' => Published(d)) /\ (Hope(d, u) => Hope(d, u)')
      BY <1>23, DeferredSame DEF StepFree
    <3> QED
      BY <1>0, <3>1, <3>2, <3>3, <3>4, <3>5, ScanFrame
  <2> QED
    BY <2>1, <2>2
<1>24. ASSUME StepCount(t)
      PROVE  \A d \in Procs, u \in Tasks : ScanOk(u, d)'
  <2> SUFFICES ASSUME NEW d \in Procs, NEW u \in Tasks
               PROVE  ScanOk(u, d)'
    OBVIOUS
  <2>1. CASE u = t
    BY <1>0, <1>24, <2>1 DEF StepCount, ScanOk, Ctl, ForkLabels, WaitLabels, ExitLabels
  <2>2. CASE u # t
    <3>1. loc'[u] = loc[u] /\ prog'[u] = prog[u]
      BY <1>24, <2>2 DEF StepCount
    <3>2. pc'[u] = pc[u] \/ WokenTo(u)
      BY <1>24, <2>2 DEF StepCount
    <3>3. \/ proc'[ProcOf[u]].seq = proc[ProcOf[u]].seq
          \/ proc'[ProcOf[u]].seq = proc[ProcOf[u]].seq + 1
      BY <1>0, <1>24 DEF StepCount
    <3>4. d \in proc'[ProcOf[u]].children \ adopted' =>
            d \in proc[ProcOf[u]].children \ adopted \/ ~Published(d)
      BY <1>0, <1>24 DEF StepCount
    <3>5. (Published(d)' => Published(d)) /\ (Hope(d, u) => Hope(d, u)')
      BY <1>24, DeferredSame DEF StepCount
    <3> QED
      BY <1>0, <3>1, <3>2, <3>3, <3>4, <3>5, ScanFrame
  <2> QED
    BY <2>1, <2>2
<1>25. ASSUME StepDetach(t)
      PROVE  \A d \in Procs, u \in Tasks : ScanOk(u, d)'
  <2> SUFFICES ASSUME NEW d \in Procs, NEW u \in Tasks
               PROVE  ScanOk(u, d)'
    OBVIOUS
  <2>1. CASE u = t
    BY <1>0, <1>25, <2>1 DEF StepDetach, ScanOk, Ctl, ForkLabels, WaitLabels, ExitLabels
  <2>2. CASE u # t
    <3>1. loc'[u] = loc[u] /\ prog'[u] = prog[u]
      BY <1>25, <2>2 DEF StepDetach
    <3>2. pc'[u] = pc[u] \/ WokenTo(u)
      BY <1>25, <2>2 DEF StepDetach
    <3>3. \/ proc'[ProcOf[u]].seq = proc[ProcOf[u]].seq
          \/ proc'[ProcOf[u]].seq = proc[ProcOf[u]].seq + 1
      BY <1>0, <1>25 DEF StepDetach
    <3>4. d \in proc'[ProcOf[u]].children \ adopted' =>
            d \in proc[ProcOf[u]].children \ adopted \/ ~Published(d)
      BY <1>0, <1>25 DEF StepDetach
    <3>5. (Published(d)' => Published(d)) /\ (Hope(d, u) => Hope(d, u)')
      BY <1>25, DeferredSame DEF StepDetach
    <3> QED
      BY <1>0, <3>1, <3>2, <3>3, <3>4, <3>5, ScanFrame
  <2> QED
    BY <2>1, <2>2
<1>26. ASSUME StepParent(t)
      PROVE  \A d \in Procs, u \in Tasks : ScanOk(u, d)'
  <2> SUFFICES ASSUME NEW d \in Procs, NEW u \in Tasks
               PROVE  ScanOk(u, d)'
    OBVIOUS
  <2>1. CASE u = t
    BY <1>0, <1>26, <2>1 DEF StepParent, ScanOk, Ctl, ForkLabels, WaitLabels, ExitLabels
  <2>2. CASE u # t
    <3>1. loc'[u] = loc[u] /\ prog'[u] = prog[u]
      BY <1>26, <2>2 DEF StepParent
    <3>2. pc'[u] = pc[u] \/ WokenTo(u)
      BY <1>26, <2>2 DEF StepParent
    <3>3. \/ proc'[ProcOf[u]].seq = proc[ProcOf[u]].seq
          \/ proc'[ProcOf[u]].seq = proc[ProcOf[u]].seq + 1
      BY <1>0, <1>26 DEF StepParent
    <3>4. d \in proc'[ProcOf[u]].children \ adopted' =>
            d \in proc[ProcOf[u]].children \ adopted \/ ~Published(d)
      BY <1>0, <1>26 DEF StepParent
    <3>5. (Published(d)' => Published(d)) /\ (Hope(d, u) => Hope(d, u)')
      BY <1>26, DeferredSame DEF StepParent
    <3> QED
      BY <1>0, <3>1, <3>2, <3>3, <3>4, <3>5, ScanFrame
  <2> QED
    BY <2>1, <2>2
<1>27. ASSUME StepDefer(t)
      PROVE  \A d \in Procs, u \in Tasks : ScanOk(u, d)'
  <2> SUFFICES ASSUME NEW d \in Procs, NEW u \in Tasks
               PROVE  ScanOk(u, d)'
    OBVIOUS
  <2>1. CASE u = t
    BY <1>0, <1>27, <2>1 DEF StepDefer, ScanOk, Ctl, ForkLabels, WaitLabels, ExitLabels
  <2>2. CASE u # t
    <3>1. loc'[u] = loc[u] /\ prog'[u] = prog[u]
      BY <1>27, <2>2 DEF StepDefer
    <3>2. pc'[u] = pc[u] \/ WokenTo(u)
      BY <1>27, <2>2 DEF StepDefer
    <3>3. \/ proc'[ProcOf[u]].seq = proc[ProcOf[u]].seq
          \/ proc'[ProcOf[u]].seq = proc[ProcOf[u]].seq + 1
      BY <1>0, <1>27 DEF StepDefer
    <3>4. d \in proc'[ProcOf[u]].children \ adopted' =>
            d \in proc[ProcOf[u]].children \ adopted \/ ~Published(d)
      BY <1>0, <1>27 DEF StepDefer
    <3>5. Published(d)' => Published(d)
      BY <1>27 DEF StepDefer, Published, ThreadsOf
    <3>6. pc'[u] = "waitAsleep" /\ Hope(d, u) => Hope(d, u)'
      <4>1. ASSUME pc'[u] = "waitAsleep", NEW x \in ThreadsOf(d), deferred[x].final,
                   deferred[x].st = "collect" \/ (deferred[x].st = "wake" /\ u \in deferred[x].waiters)
            PROVE  /\ deferred'[x].final
                   /\ deferred'[x].st = "collect" \/ (deferred'[x].st = "wake" /\ u \in deferred'[x].waiters)
        <5>1. CASE x # t
          BY <1>27, <4>1, <5>1 DEF StepDefer, ThreadsOf
        <5>2. CASE x = t
          BY <1>0, <1>27, <2>2, <4>1, <5>2 DEF StepDefer, Ctl
        <5> QED
          BY <5>1, <5>2
      <4> QED
        BY <4>1 DEF Hope, ThreadsOf
    <3> QED
      BY <1>0, <3>1, <3>2, <3>3, <3>4, <3>5, <3>6, ScanFrame
  <2> QED
    BY <2>1, <2>2
<1>28. ASSUME StepSwitch(t)
      PROVE  \A d \in Procs, u \in Tasks : ScanOk(u, d)'
  <2> SUFFICES ASSUME NEW d \in Procs, NEW u \in Tasks
               PROVE  ScanOk(u, d)'
    OBVIOUS
  <2>1. CASE u = t
    BY <1>0, <1>28, <2>1 DEF StepSwitch, ScanOk, Ctl, ForkLabels, WaitLabels, ExitLabels
  <2>2. CASE u # t
    <3>1. loc'[u] = loc[u] /\ prog'[u] = prog[u]
      BY <1>28, <2>2 DEF StepSwitch
    <3>2. pc'[u] = pc[u] \/ WokenTo(u)
      BY <1>28, <2>2 DEF StepSwitch
    <3>3. \/ proc'[ProcOf[u]].seq = proc[ProcOf[u]].seq
          \/ proc'[ProcOf[u]].seq = proc[ProcOf[u]].seq + 1
      BY <1>0, <1>28 DEF StepSwitch
    <3>4. d \in proc'[ProcOf[u]].children \ adopted' =>
            d \in proc[ProcOf[u]].children \ adopted \/ ~Published(d)
      BY <1>0, <1>28 DEF StepSwitch
    <3>5. (Published(d)' => Published(d)) /\ (Hope(d, u) => Hope(d, u)')
      BY <1>28, DeferredSame DEF StepSwitch
    <3> QED
      BY <1>0, <3>1, <3>2, <3>3, <3>4, <3>5, ScanFrame
  <2> QED
    BY <2>1, <2>2
<1>29. ASSUME StepGroup(t)
      PROVE  \A d \in Procs, u \in Tasks : ScanOk(u, d)'
  <2> SUFFICES ASSUME NEW d \in Procs, NEW u \in Tasks
               PROVE  ScanOk(u, d)'
    OBVIOUS
  <2>1. CASE u = t
    BY <1>0, <1>29, <2>1 DEF StepGroup, ScanOk, Ctl, ForkLabels, WaitLabels, ExitLabels
  <2>2. CASE u # t
    <3>1. loc'[u] = loc[u] /\ prog'[u] = prog[u]
      BY <1>29, <2>2 DEF StepGroup
    <3>2. pc'[u] = pc[u] \/ WokenTo(u)
      BY <1>29, <2>2 DEF StepGroup
    <3>3. \/ proc'[ProcOf[u]].seq = proc[ProcOf[u]].seq
          \/ proc'[ProcOf[u]].seq = proc[ProcOf[u]].seq + 1
      BY <1>0, <1>29 DEF StepGroup
    <3>4. d \in proc'[ProcOf[u]].children \ adopted' =>
            d \in proc[ProcOf[u]].children \ adopted \/ ~Published(d)
      BY <1>0, <1>29 DEF StepGroup
    <3>5. (Published(d)' => Published(d)) /\ (Hope(d, u) => Hope(d, u)')
      BY <1>29, DeferredSame DEF StepGroup
    <3> QED
      BY <1>0, <3>1, <3>2, <3>3, <3>4, <3>5, ScanFrame
  <2> QED
    BY <2>1, <2>2
<1>30. ASSUME NEW k \in Procs, StepKill(t, k)
      PROVE  \A d \in Procs, u \in Tasks : ScanOk(u, d)'
  <2> SUFFICES ASSUME NEW d \in Procs, NEW u \in Tasks
               PROVE  ScanOk(u, d)'
    OBVIOUS
  <2>1. CASE u = t
    BY <1>0, <1>30, <2>1 DEF StepKill, ScanOk, Ctl, ForkLabels, WaitLabels, ExitLabels
  <2>2. CASE u # t
    <3>1. loc'[u] = loc[u] /\ prog'[u] = prog[u]
      BY <1>30, <2>2 DEF StepKill
    <3>2. pc'[u] = pc[u] \/ WokenTo(u)
      BY <1>30, <2>2 DEF StepKill
    <3>3. \/ proc'[ProcOf[u]].seq = proc[ProcOf[u]].seq
          \/ proc'[ProcOf[u]].seq = proc[ProcOf[u]].seq + 1
      BY <1>0, <1>30 DEF StepKill
    <3>4. d \in proc'[ProcOf[u]].children \ adopted' =>
            d \in proc[ProcOf[u]].children \ adopted \/ ~Published(d)
      BY <1>0, <1>30 DEF StepKill
    <3>5. (Published(d)' => Published(d)) /\ (Hope(d, u) => Hope(d, u)')
      BY <1>30, DeferredSame DEF StepKill
    <3> QED
      BY <1>0, <3>1, <3>2, <3>3, <3>4, <3>5, ScanFrame
  <2> QED
    BY <2>1, <2>2
<1>31. ASSUME NEW w \in Tasks, StepFlag(t, w)
      PROVE  \A d \in Procs, u \in Tasks : ScanOk(u, d)'
  <2> SUFFICES ASSUME NEW d \in Procs, NEW u \in Tasks
               PROVE  ScanOk(u, d)'
    OBVIOUS
  <2>1. CASE u = t
    BY <1>0, <1>31, <2>1 DEF StepFlag, ScanOk, Ctl, ForkLabels, WaitLabels, ExitLabels
  <2>2. CASE u # t
    <3>1. loc'[u] = loc[u] /\ prog'[u] = prog[u]
      BY <1>31, <2>2 DEF StepFlag
    <3>2. pc'[u] = pc[u] \/ WokenTo(u)
      BY <1>31, <2>2 DEF StepFlag
    <3>3. \/ proc'[ProcOf[u]].seq = proc[ProcOf[u]].seq
          \/ proc'[ProcOf[u]].seq = proc[ProcOf[u]].seq + 1
      BY <1>0, <1>31 DEF StepFlag
    <3>4. d \in proc'[ProcOf[u]].children \ adopted' =>
            d \in proc[ProcOf[u]].children \ adopted \/ ~Published(d)
      BY <1>0, <1>31 DEF StepFlag
    <3>5. (Published(d)' => Published(d)) /\ (Hope(d, u) => Hope(d, u)')
      BY <1>31, DeferredSame DEF StepFlag
    <3> QED
      BY <1>0, <3>1, <3>2, <3>3, <3>4, <3>5, ScanFrame
  <2> QED
    BY <2>1, <2>2
<1>32. ASSUME NEW w \in Tasks, StepFlagOnly(t, w)
      PROVE  \A d \in Procs, u \in Tasks : ScanOk(u, d)'
  <2> SUFFICES ASSUME NEW d \in Procs, NEW u \in Tasks
               PROVE  ScanOk(u, d)'
    OBVIOUS
  <2>1. CASE u = t
    BY <1>0, <1>32, <2>1 DEF StepFlagOnly, ScanOk, Ctl, ForkLabels, WaitLabels, ExitLabels
  <2>2. CASE u # t
    <3>1. loc'[u] = loc[u] /\ prog'[u] = prog[u]
      BY <1>32, <2>2 DEF StepFlagOnly
    <3>2. pc'[u] = pc[u] \/ WokenTo(u)
      BY <1>32, <2>2 DEF StepFlagOnly
    <3>3. \/ proc'[ProcOf[u]].seq = proc[ProcOf[u]].seq
          \/ proc'[ProcOf[u]].seq = proc[ProcOf[u]].seq + 1
      BY <1>0, <1>32 DEF StepFlagOnly
    <3>4. d \in proc'[ProcOf[u]].children \ adopted' =>
            d \in proc[ProcOf[u]].children \ adopted \/ ~Published(d)
      BY <1>0, <1>32 DEF StepFlagOnly
    <3>5. (Published(d)' => Published(d)) /\ (Hope(d, u) => Hope(d, u)')
      BY <1>32, DeferredSame DEF StepFlagOnly
    <3> QED
      BY <1>0, <3>1, <3>2, <3>3, <3>4, <3>5, ScanFrame
  <2> QED
    BY <2>1, <2>2
<1>33. ASSUME StepNotify(t)
      PROVE  \A d \in Procs, u \in Tasks : ScanOk(u, d)'
  <2> SUFFICES ASSUME NEW d \in Procs, NEW u \in Tasks
               PROVE  ScanOk(u, d)'
    OBVIOUS
  <2>1. CASE u = t
    BY <1>0, <1>33, <2>1 DEF StepNotify, ScanOk, Ctl, ForkLabels, WaitLabels, ExitLabels
  <2>2. CASE u # t
    <3>1. loc'[u] = loc[u] /\ prog'[u] = prog[u]
      BY <1>33, <2>2 DEF StepNotify
    <3>2. pc'[u] = pc[u] \/ WokenTo(u)
      BY <1>33, <2>2 DEF StepNotify
    <3>3. \/ proc'[ProcOf[u]].seq = proc[ProcOf[u]].seq
          \/ proc'[ProcOf[u]].seq = proc[ProcOf[u]].seq + 1
      BY <1>0, <1>33 DEF StepNotify
    <3>4. d \in proc'[ProcOf[u]].children \ adopted' =>
            d \in proc[ProcOf[u]].children \ adopted \/ ~Published(d)
      BY <1>0, <1>33 DEF StepNotify
    <3>5. (Published(d)' => Published(d)) /\ (Hope(d, u) => Hope(d, u)')
      BY <1>33, DeferredSame DEF StepNotify
    <3> QED
      BY <1>0, <3>1, <3>2, <3>3, <3>4, <3>5, ScanFrame
  <2> QED
    BY <2>1, <2>2
<1>34. ASSUME StepFinish(t)
      PROVE  \A d \in Procs, u \in Tasks : ScanOk(u, d)'
  <2> SUFFICES ASSUME NEW d \in Procs, NEW u \in Tasks
               PROVE  ScanOk(u, d)'
    OBVIOUS
  <2>1. CASE u = t
    BY <1>0, <1>34, <2>1 DEF StepFinish, ScanOk, Ctl, ForkLabels, WaitLabels, ExitLabels
  <2>2. CASE u # t
    <3>1. loc'[u] = loc[u] /\ prog'[u] = prog[u]
      BY <1>34, <2>2 DEF StepFinish
    <3>2. pc'[u] = pc[u] \/ WokenTo(u)
      BY <1>34, <2>2 DEF StepFinish
    <3>3. \/ proc'[ProcOf[u]].seq = proc[ProcOf[u]].seq
          \/ proc'[ProcOf[u]].seq = proc[ProcOf[u]].seq + 1
      BY <1>0, <1>34 DEF StepFinish
    <3>4. d \in proc'[ProcOf[u]].children \ adopted' =>
            d \in proc[ProcOf[u]].children \ adopted \/ ~Published(d)
      BY <1>0, <1>34 DEF StepFinish
    <3>5. CASE Due(u, d)' => Published(d)
      <4>1. Hope(d, u) => Hope(d, u)'
        <5>1. \A w \in Tasks : deferred[w].st \in {"collect", "wake"} => deferred'[w] = deferred[w]
          BY <1>34 DEF StepFinish
        <5> QED
          BY <5>1 DEF Hope, ThreadsOf
      <4>2. Due(u, d)' => Published(d)' /\ Published(d)
        BY <3>5 DEF Due
      <4>3. CASE Due(u, d)'
        BY <1>0, <3>1, <3>2, <3>3, <3>4, <4>1, <4>2, <4>3, ScanFrame
      <4>4. CASE ~Due(u, d)'
        BY <4>4 DEF ScanOk
      <4> QED
        BY <4>3, <4>4
    <3>6. Due(u, d)' => Published(d)
      <4>1. ASSUME Due(u, d)', ~Published(d)
            PROVE  FALSE
        <5>1. PICK w \in ThreadsOf(d) :
                deferred'[w].final /\ deferred'[w].st \in {"collect", "wake", "done"}
          BY <4>1 DEF Due, Published, ThreadsOf
        <5>2. w = t
          BY <1>34, <4>1, <5>1, ZenonT(60) DEF StepFinish, Published, ThreadsOf
        <5>3. deferred[t].final /\ deferred[t].parent = Nobody /\ ProcOf[t] = d
          BY <1>34, <5>1, <5>2 DEF StepFinish, ThreadsOf
        <5>4. d \in proc[ProcOf[u]].children \ adopted
          BY <1>0, <1>34, <4>1 DEF StepFinish, Due
        <5>5. deferred[t].parent = ProcOf[u]
          BY <5>3, <5>4, EntryParent
        <5> QED
          BY <5>3, <5>5
      <4> QED
        BY <4>1
    <3> QED
      BY <3>5, <3>6
  <2> QED
    BY <2>1, <2>2
<1>35. ASSUME StepEvent(t)
      PROVE  \A d \in Procs, u \in Tasks : ScanOk(u, d)'
  <2> SUFFICES ASSUME NEW d \in Procs, NEW u \in Tasks
               PROVE  ScanOk(u, d)'
    OBVIOUS
  <2>1. CASE u = t
    BY <1>0, <1>35, <2>1 DEF StepEvent, ScanOk, Ctl, ForkLabels, WaitLabels, ExitLabels
  <2>2. CASE u # t
    <3>1. loc'[u] = loc[u] /\ prog'[u] = prog[u]
      BY <1>35, <2>2 DEF StepEvent
    <3>2. pc'[u] = pc[u] \/ WokenTo(u)
      BY <1>35, <2>2 DEF StepEvent
    <3>3. \/ proc'[ProcOf[u]].seq = proc[ProcOf[u]].seq
          \/ proc'[ProcOf[u]].seq = proc[ProcOf[u]].seq + 1
      BY <1>0, <1>35 DEF StepEvent
    <3>4. d \in proc'[ProcOf[u]].children \ adopted' =>
            d \in proc[ProcOf[u]].children \ adopted \/ ~Published(d)
      BY <1>0, <1>35 DEF StepEvent
    <3>5. CASE ProcOf[t] # d
      <4>1. \A w \in ThreadsOf(d) : deferred'[w] = deferred[w]
        BY <1>35, <3>5 DEF StepEvent, ThreadsOf
      <4>2. (Published(d)' => Published(d)) /\ (Hope(d, u) => Hope(d, u)')
        BY <4>1 DEF Published, Hope, ThreadsOf
      <4> QED
        BY <1>0, <3>1, <3>2, <3>3, <3>4, <4>2, ScanFrame
    <3>6. CASE ProcOf[t] = d /\ deferred[t].final
      <4>1. ASSUME Due(u, d)'
            PROVE  deferred[t].parent = ProcOf[u]
        <5>1. d \in proc[ProcOf[u]].children \ adopted
          BY <1>0, <1>35, <4>1 DEF StepEvent, Due
        <5> QED
          BY <3>6, <5>1, EntryParent
      <4>2. /\ loc[u].seq \in Nat /\ proc[ProcOf[u]].seq \in Nat
            /\ (pc[u] \in {"waitScan", "waitBlock"} => loc[u].seq <= proc[ProcOf[u]].seq)
        BY <1>0 DEF ControlInv, Types, LocalRecord, ProcRecord, SeqOk, Ctl, WaitLabels
      <4>3. Due(u, d)' => proc'[ProcOf[u]].seq = proc[ProcOf[u]].seq + 1
        BY <1>35, <4>1 DEF StepEvent
      <4>4. Hope(d, u)'
        BY <1>35, <3>6 DEF StepEvent, Hope, ThreadsOf
      <4>5. pc'[u] = pc[u]
        BY <1>35 DEF StepEvent
      <4> QED
        BY <3>1, <4>2, <4>3, <4>4, <4>5 DEF ScanOk
    <3>7. CASE ~deferred[t].final
      <4>1. ~deferred'[t].final /\ \A w \in Tasks \ {t} : deferred'[w] = deferred[w]
        BY <1>35, <3>7 DEF StepEvent
      <4>2. (Published(d)' => Published(d)) /\ (Hope(d, u) => Hope(d, u)')
        BY <3>7, <4>1 DEF Published, Hope, ThreadsOf
      <4> QED
        BY <1>0, <3>1, <3>2, <3>3, <3>4, <4>2, ScanFrame
    <3> QED
      BY <3>5, <3>6, <3>7
  <2> QED
    BY <2>1, <2>2
<1>36. ASSUME StepCollect(t)
      PROVE  \A d \in Procs, u \in Tasks : ScanOk(u, d)'
  <2> SUFFICES ASSUME NEW d \in Procs, NEW u \in Tasks
               PROVE  ScanOk(u, d)'
    OBVIOUS
  <2>1. CASE u = t
    BY <1>0, <1>36, <2>1 DEF StepCollect, ScanOk, Ctl, ForkLabels, WaitLabels, ExitLabels
  <2>2. CASE u # t
    <3>1. loc'[u] = loc[u] /\ prog'[u] = prog[u]
      BY <1>36, <2>2 DEF StepCollect
    <3>2. pc'[u] = pc[u] \/ WokenTo(u)
      BY <1>36, <2>2 DEF StepCollect
    <3>3. \/ proc'[ProcOf[u]].seq = proc[ProcOf[u]].seq
          \/ proc'[ProcOf[u]].seq = proc[ProcOf[u]].seq + 1
      BY <1>0, <1>36 DEF StepCollect
    <3>4. d \in proc'[ProcOf[u]].children \ adopted' =>
            d \in proc[ProcOf[u]].children \ adopted \/ ~Published(d)
      BY <1>0, <1>36 DEF StepCollect
    <3>5. Published(d)' => Published(d)
      BY <1>36 DEF StepCollect, Published, ThreadsOf
    <3>6. CASE ~Due(u, d)
      <4>1. ~Due(u, d)'
        BY <1>0, <1>36, <3>1, <3>5, <3>6 DEF StepCollect, Due, Wanted, Arg
      <4> QED
        BY <4>1 DEF ScanOk
    <3>7. CASE Due(u, d)
      <4>1. ASSUME pc'[u] = "waitAsleep", Hope(d, u)
            PROVE  Hope(d, u)'
        <5>1. PICK w \in ThreadsOf(d) :
                /\ deferred[w].final
                /\ deferred[w].st = "collect" \/ (deferred[w].st = "wake" /\ u \in deferred[w].waiters)
          BY <4>1 DEF Hope
        <5>2. w \in Tasks /\ ProcOf[w] = d
          BY DEF ThreadsOf
        <5>3. CASE w # t
          BY <1>36, <5>1, <5>2, <5>3 DEF StepCollect, Hope, ThreadsOf
        <5>4. CASE w = t
          <6>1. deferred[t].parent = ProcOf[u]
            BY <3>7, <5>1, <5>2, <5>4, EntryParent DEF Due
          <6>2. pc[u] = "waitAsleep" /\ loc[u].why = "wait"
            BY <1>0, <1>36, <4>1 DEF StepCollect, Ctl, WaitLabels
          <6>3. u \in proc[ProcOf[u]].tasks
            BY <1>0, <6>2 DEF ExitOk, PastParent
          <6>4. deferred'[t].st = "wake" /\ u \in deferred'[t].waiters /\ deferred'[t].final
            BY <1>36, <5>1, <5>4, <6>1, <6>3 DEF StepCollect
          <6> QED
            BY <5>1, <5>2, <5>4, <6>4 DEF Hope, ThreadsOf
        <5> QED
          BY <5>3, <5>4
      <4> QED
        BY <1>0, <3>1, <3>2, <3>3, <3>4, <3>5, <4>1, ScanFrame
    <3> QED
      BY <3>6, <3>7
  <2> QED
    BY <2>1, <2>2
<1>37. ASSUME NEW w \in Tasks, StepWakeOne(t, w)
      PROVE  \A d \in Procs, u \in Tasks : ScanOk(u, d)'
  <2> SUFFICES ASSUME NEW d \in Procs, NEW u \in Tasks
               PROVE  ScanOk(u, d)'
    OBVIOUS
  <2>1. CASE u = t
    BY <1>0, <1>37, <2>1 DEF StepWakeOne, ScanOk, Ctl, ForkLabels, WaitLabels, ExitLabels
  <2>2. CASE u # t
    <3>1. loc'[u] = loc[u] /\ prog'[u] = prog[u]
      BY <1>37, <2>2 DEF StepWakeOne
    <3>2. pc'[u] = pc[u] \/ WokenTo(u)
      BY <1>37, <2>2 DEF StepWakeOne
    <3>3. \/ proc'[ProcOf[u]].seq = proc[ProcOf[u]].seq
          \/ proc'[ProcOf[u]].seq = proc[ProcOf[u]].seq + 1
      BY <1>0, <1>37 DEF StepWakeOne
    <3>4. d \in proc'[ProcOf[u]].children \ adopted' =>
            d \in proc[ProcOf[u]].children \ adopted \/ ~Published(d)
      BY <1>0, <1>37 DEF StepWakeOne
    <3>5. Published(d)' => Published(d)
      BY <1>37 DEF StepWakeOne, Published, ThreadsOf
    <3>6. pc'[u] = "waitAsleep" /\ Hope(d, u) => Hope(d, u)'
      <4>1. ASSUME pc'[u] = "waitAsleep", NEW x \in ThreadsOf(d), deferred[x].final,
                   deferred[x].st = "collect" \/ (deferred[x].st = "wake" /\ u \in deferred[x].waiters)
            PROVE  /\ deferred'[x].final
                   /\ deferred'[x].st = "collect" \/ (deferred'[x].st = "wake" /\ u \in deferred'[x].waiters)
        <5>1. CASE x # t
          BY <1>37, <4>1, <5>1 DEF StepWakeOne, ThreadsOf
        <5>2. CASE x = t
          BY <1>0, <1>37, <2>2, <4>1, <5>2 DEF StepWakeOne, Ctl
        <5> QED
          BY <5>1, <5>2
      <4> QED
        BY <4>1 DEF Hope, ThreadsOf
    <3> QED
      BY <1>0, <3>1, <3>2, <3>3, <3>4, <3>5, <3>6, ScanFrame
  <2> QED
    BY <2>1, <2>2
<1>38. ASSUME StepWakesDone(t)
      PROVE  \A d \in Procs, u \in Tasks : ScanOk(u, d)'
  <2> SUFFICES ASSUME NEW d \in Procs, NEW u \in Tasks
               PROVE  ScanOk(u, d)'
    OBVIOUS
  <2>1. CASE u = t
    BY <1>0, <1>38, <2>1 DEF StepWakesDone, ScanOk, Ctl, ForkLabels, WaitLabels, ExitLabels
  <2>2. CASE u # t
    <3>1. loc'[u] = loc[u] /\ prog'[u] = prog[u]
      BY <1>38, <2>2 DEF StepWakesDone
    <3>2. pc'[u] = pc[u] \/ WokenTo(u)
      BY <1>38, <2>2 DEF StepWakesDone
    <3>3. \/ proc'[ProcOf[u]].seq = proc[ProcOf[u]].seq
          \/ proc'[ProcOf[u]].seq = proc[ProcOf[u]].seq + 1
      BY <1>0, <1>38 DEF StepWakesDone
    <3>4. d \in proc'[ProcOf[u]].children \ adopted' =>
            d \in proc[ProcOf[u]].children \ adopted \/ ~Published(d)
      BY <1>0, <1>38 DEF StepWakesDone
    <3>5. Published(d)' => Published(d)
      BY <1>38 DEF StepWakesDone, Published, ThreadsOf
    <3>6. pc'[u] = "waitAsleep" /\ Hope(d, u) => Hope(d, u)'
      <4>1. ASSUME pc'[u] = "waitAsleep", NEW x \in ThreadsOf(d), deferred[x].final,
                   deferred[x].st = "collect" \/ (deferred[x].st = "wake" /\ u \in deferred[x].waiters)
            PROVE  /\ deferred'[x].final
                   /\ deferred'[x].st = "collect" \/ (deferred'[x].st = "wake" /\ u \in deferred'[x].waiters)
        <5>1. CASE x # t
          BY <1>38, <4>1, <5>1 DEF StepWakesDone, ThreadsOf
        <5>2. CASE x = t
          BY <1>0, <1>38, <2>2, <4>1, <5>2 DEF StepWakesDone, Ctl
        <5> QED
          BY <5>1, <5>2
      <4> QED
        BY <4>1 DEF Hope, ThreadsOf
    <3> QED
      BY <1>0, <3>1, <3>2, <3>3, <3>4, <3>5, <3>6, ScanFrame
  <2> QED
    BY <2>1, <2>2
<1> QED
  BY <1>1, <1>2, <1>3, <1>4, <1>5, <1>6, <1>7, <1>8, <1>9, <1>10, <1>11, <1>12, <1>13,
     <1>14, <1>15, <1>16, <1>17, <1>18, <1>19, <1>20, <1>21, <1>22, <1>23, <1>24, <1>25,
     <1>26, <1>27, <1>28, <1>29, <1>30, <1>31, <1>32, <1>33, <1>34, <1>35, <1>36, <1>37,
     <1>38
  DEF Step

\* Initially nobody waits and nothing has ended.
LEMMA WaitInit ==
  ASSUME Init, ControlInv
  PROVE  KnownInv /\ FamilyInv /\ WaitInv
<1>1. ASSUME NEW t \in Tasks
      PROVE  /\ pc[t] \in {"user", "unborn"} /\ (pc[t] = "user" => proc[ProcOf[t]].life = "live")
             /\ loc[t].why = "call" /\ loc[t].threads = {} /\ loc[t].who = Nobody
             /\ loc[t].vforkParent = Nobody /\ loc[t].parent = Nobody
             /\ deferred[t].waiters = {} /\ deferred[t].parent = Nobody /\ ~deferred[t].final
  BY InitFacts DEF NoLocals, NoEntry
<1>2. \A t \in Tasks : KnownOk(t)
  BY <1>1 DEF KnownOk, Known
<1>3. \A p \in Procs : KnownProc(p)
  BY InitFacts DEF KnownProc, Known
<1>4. \A c \in Procs : ListOk(c)
  BY InitFacts DEF ListOk, InList
<1>5. \A c \in Procs, t \in Tasks : ParentOk(t, c)
  BY <1>1 DEF ParentOk, Forking, ToMove, Moved, PastParent
<1>6. ASSUME NEW c \in Procs
      PROVE  LastExists(c)
  <2>1. proc[c].life # "unborn" => LiveThreads(c) # {}
    BY <1>1, InitFacts DEF LiveThreads, ThreadsOf
  <2> QED
    BY <2>1, NoneAlive DEF LastExists
<1>7. \A t \in Tasks : SeqOk(t) /\ \A c \in Procs : ScanOk(t, c)
  BY <1>1 DEF SeqOk, ScanOk
<1> QED
  BY <1>2, <1>3, <1>4, <1>5, <1>6, <1>7 DEF KnownInv, FamilyInv, WaitInv

\* A stuttering step changes none of it.
LEMMA WaitStutter ==
  ASSUME KnownInv, FamilyInv, WaitInv, UNCHANGED vars
  PROVE  KnownInv' /\ FamilyInv' /\ WaitInv'
<1>1. /\ proc' = proc /\ pc' = pc /\ loc' = loc /\ deferred' = deferred /\ prog' = prog
      /\ adopted' = adopted
  BY DEF vars
<1>2. KnownInv'
  BY <1>1 DEF KnownInv, KnownOk, KnownProc, Known
<1>3. ASSUME NEW c \in Procs
      PROVE  ListOk(c)' /\ LastExists(c)' /\ \A t \in Tasks : ParentOk(t, c)'
  BY <1>1
  DEF FamilyInv, ListOk, LastExists, ParentOk, InList, Forking, ToMove, Moved, PastParent,
      IsLast, ThreadsOf
<1>4. ASSUME NEW t \in Tasks, NEW c \in Procs
      PROVE  SeqOk(t)' /\ ScanOk(t, c)'
  BY <1>1 DEF WaitInv, SeqOk, ScanOk, Due, Wanted, Arg, Published, Hope, ThreadsOf
<1> QED
  BY <1>2, <1>3, <1>4 DEF FamilyInv, WaitInv

LifeInv == ReapInv /\ KnownInv /\ FamilyInv /\ WaitInv

\* All parts together are inductive,
LEMMA LifeInvariant == Spec => []LifeInv
<1>1. Init => LifeInv
  BY ControlInit, ReapInit, WaitInit DEF LifeInv, ReapInv
<1>2. ASSUME LifeInv, [Next]_vars, ReapInv'
      PROVE  LifeInv'
  <2>0. ReapInv /\ ControlInv /\ KnownInv /\ FamilyInv /\ WaitInv
    BY <1>2 DEF LifeInv, ReapInv
  <2>1. CASE UNCHANGED vars
    BY <1>2, <2>0, <2>1, WaitStutter DEF LifeInv
  <2>2. ASSUME NEW t \in Tasks, Step(t)
        PROVE  KnownInv' /\ FamilyInv' /\ WaitInv'
    <3>1. KnownInv'
      BY <2>0, <2>2, KnownTaskStep, KnownProcStep DEF KnownInv
    <3>2. FamilyInv'
      BY <2>0, <2>2, ParentStep, ListStep, LastExistsStep DEF FamilyInv
    <3>3. \A u \in Tasks : SeqOk(u)'
      BY <2>0, <2>2, SeqStep
    <3>4. \A d \in Procs, u \in Tasks : ScanOk(u, d)'
      BY <2>0, <2>2, ScanStep
    <3> QED
      BY <3>1, <3>2, <3>3, <3>4 DEF WaitInv
  <2> QED
    BY <1>2, <2>0, <2>1, <2>2, NextIsStep DEF LifeInv
<1>3. Spec => []ReapInv
  BY ReapInvariant, PTL DEF ReapInv
<1> QED
  BY <1>1, <1>2, <1>3, PTL DEF Spec

\* and a thread asleep in wait4 over an end is about to be woken.
LEMMA LifeImpliesNoSleepOverExit ==
  ASSUME LifeInv
  PROVE  NoSleepOverExit
<1> SUFFICES ASSUME NEW t \in Tasks, pc[t] = "waitAsleep",
                    NEW c \in proc[ProcOf[t]].children \ adopted,
                    Wanted(t, c), AllGone(c)
             PROVE  WakeComing(c, t)
  BY DEF NoSleepOverExit
<1>0. ControlInv /\ ReapInv
  BY DEF LifeInv, ReapInv
<1>1. ProcOf[t] \in Procs /\ c \in Procs
  BY <1>0 DEF ControlInv, Types, ProcRecord
<1>2. proc[c].life = "live"
  BY <1>1 DEF LifeInv, ReapInv, CustodyInv, Custody, InList
<1>3. LiveThreads(c) = {}
  BY <1>0 DEF LiveThreads, AllGone, ThreadsOf, ControlInv, Ctl, ExitLabels
<1>4. proc[c].alive = 0
  BY <1>0, <1>1, <1>3, FS_EmptySet DEF ControlInv, CountOk
<1>5. PICK u \in ThreadsOf(c) : IsLast(u)
  BY <1>1, <1>2, <1>4 DEF LifeInv, FamilyInv, LastExists
<1>6. u \in Tasks /\ pc[u] = "gone" /\ Ctl(u) /\ ExitOk(u)
  BY <1>0, <1>5 DEF ThreadsOf, AllGone, IsLast, ControlInv, Ctl, ReapInv, ExitInv
<1>7. deferred[u].final /\ deferred[u].st # "none" /\ deferred[u].st \in Stage
  BY <1>0, <1>5, <1>6 DEF ExitOk, IsLast, ControlInv, Types, EntryRecord
<1>8. CASE deferred[u].st \in {"queued", "publish", "collect"}
  BY <1>5, <1>7, <1>8 DEF WakeComing
<1>9. CASE deferred[u].st \in {"wake", "done"}
  <2>1. Published(c)
    BY <1>5, <1>7, <1>9 DEF Published
  <2>2. Due(t, c) /\ ScanOk(t, c)
    BY <1>1, <2>1 DEF Due, LifeInv, WaitInv
  <2>3. Hope(c, t)
    BY <2>2 DEF ScanOk
  <2> QED
    BY <2>3 DEF Hope, WakeComing
<1> QED
  BY <1>7, <1>8, <1>9 DEF Stage

(* No parent sleeps in wait4 over a child of its own that has ended, unless   *)
(* the wakeup for it is under way.  The last thread reads its parent before   *)
(* it leaves, the scheduler loop counts the parent's event number up when the *)
(* thread is off its stack and then wakes every thread of the parent; wait4   *)
(* reads the number before the list of children and compares it again when it *)
(* blocks, so a child whose end it has not seen leaves it awake.              *)
THEOREM ExitWakesParent == Spec => []NoSleepOverExit
<1>1. LifeInv => NoSleepOverExit
  BY LifeImpliesNoSleepOverExit
<1> QED
  BY <1>1, LifeInvariant, PTL

-----------------------------------------------------------------------------
(* vfork *)

VforkWaits == {"forkStart", "vforkBlock", "vforkAsleep"}
Vforking(t) ==
  loc[t].why = "vfork" /\ pc[t] \in VforkWaits \cup {"forkPush", "forkPublish"}

\* A process that owes its parent the completion of a vfork: the parent is in
\* the call, or has been killed.
OwedOk(c, t) ==
  proc[c].vforkParent = t =>
    \/ proc[ProcOf[t]].zombie
    \/ Vforking(t) /\ loc[t].of = c /\ (pc[t] \in VforkWaits => vforkChild[t] = c)

\* A thread that completes the vfork, or is past that, has taken the debt out of
\* the PCB.
PaidOk(t) ==
  pc[t] \in {"vforkClear", "vforkWake"} \/ (PastParent(t) /\ loc[t].last) =>
    proc[ProcOf[t]].vforkParent = Nobody

OwedInv == (\A t \in Tasks : PaidOk(t)) /\ \A c \in Procs, t \in Tasks : OwedOk(c, t)

\* A debt no step touches stays with a parent that waits.
LEMMA OwedFrame ==
  ASSUME NEW u \in Tasks, NEW c \in Procs, OwedOk(c, u), loc'[u] = loc[u],
         pc'[u] = pc[u] \/ WokenTo(u), proc'[c].vforkParent = u => proc[c].vforkParent = u,
         proc'[c].vforkParent = u /\ proc[ProcOf[u]].zombie => proc'[ProcOf[u]].zombie,
         proc'[c].vforkParent = u /\ vforkChild[u] = c => vforkChild'[u] = c
  PROVE  OwedOk(c, u)'
BY DEF OwedOk, Vforking, VforkWaits

\* A paid debt does not come back.
LEMMA PaidFrame ==
  ASSUME NEW u \in Tasks, PaidOk(u), loc'[u] = loc[u], pc'[u] = pc[u] \/ WokenTo(u),
         \/ proc'[ProcOf[u]].vforkParent \in {proc[ProcOf[u]].vforkParent, Nobody}
         \/ pc[u] = "unborn"
  PROVE  PaidOk(u)'
BY DEF PaidOk, PastParent

\* Every step takes the debt out of the PCB before it clears and wakes.
LEMMA PaidStep ==
  ASSUME LifeInv, OwedInv, NEW t \in Tasks, Step(t)
  PROVE  \A u \in Tasks : PaidOk(u)'
<1>0. /\ ProcOf[t] \in Procs /\ Ctl(t) /\ ExitOk(t) /\ \A u \in Tasks : PaidOk(u)
      /\ \A p \in Procs : CountOk(p)
  BY DEF LifeInv, ReapInv, ControlInv, ExitInv, OwedInv
<1>1. ASSUME StepReturn(t)
      PROVE  \A u \in Tasks : PaidOk(u)'
  <2>1. PaidOk(t)'
    BY <1>0, <1>1
    DEF StepReturn, PaidOk, PastParent, ExitOk, IsLast, Dead, Ctl, ForkLabels,
        WaitLabels, ExitLabels, AfterReturn
  <2>2. ASSUME NEW u \in Tasks, u # t
        PROVE  PaidOk(u)'
    <3>1. proc'[ProcOf[u]].vforkParent \in {proc[ProcOf[u]].vforkParent, Nobody}
      BY <1>0, <1>1 DEF StepReturn
    <3> QED
      BY <1>0, <1>1, <2>2, <3>1, PaidFrame DEF StepReturn
  <2> QED
    BY <2>1, <2>2
<1>2. ASSUME NEW c \in Procs, NEW v \in BOOLEAN, StepFork(t, c, v)
      PROVE  \A u \in Tasks : PaidOk(u)'
  <2>1. PaidOk(t)'
    BY <1>0, <1>2
    DEF StepFork, PaidOk, PastParent, ExitOk, IsLast, Dead, Ctl, ForkLabels, WaitLabels,
        ExitLabels
  <2>2. ASSUME NEW u \in Tasks, u # t
        PROVE  PaidOk(u)'
    <3>1. CASE ProcOf[u] = c
      <4>1. pc[u] = "unborn"
        BY <1>0, <1>2, <3>1 DEF StepFork, CountOk, ThreadsOf
      <4>2. pc'[u] \in {"unborn", "nascent"}
        BY <1>2, <2>2, <4>1 DEF StepFork
      <4> QED
        BY <4>2 DEF PaidOk, PastParent
    <3>2. CASE ProcOf[u] # c
      <4>1. pc'[u] = pc[u] /\ loc'[u] = loc[u] /\ proc'[ProcOf[u]] = proc[ProcOf[u]]
        BY <1>2, <2>2, <3>2 DEF StepFork
      <4> QED
        BY <1>0, <4>1, PaidFrame
    <3> QED
      BY <3>1, <3>2
  <2> QED
    BY <2>1, <2>2
<1>3. ASSUME StepPush(t)
      PROVE  \A u \in Tasks : PaidOk(u)'
  <2>1. PaidOk(t)'
    BY <1>0, <1>3
    DEF StepPush, PaidOk, PastParent, ExitOk, IsLast, Dead, Ctl, ForkLabels, WaitLabels,
        ExitLabels
  <2>2. ASSUME NEW u \in Tasks, u # t
        PROVE  PaidOk(u)'
    <3>1. proc'[ProcOf[u]].vforkParent \in {proc[ProcOf[u]].vforkParent, Nobody}
      BY <1>0, <1>3 DEF StepPush
    <3> QED
      BY <1>0, <1>3, <2>2, <3>1, PaidFrame DEF StepPush
  <2> QED
    BY <2>1, <2>2
<1>4. ASSUME StepPublish(t)
      PROVE  \A u \in Tasks : PaidOk(u)'
  <2>1. PaidOk(t)'
    BY <1>0, <1>4
    DEF StepPublish, PaidOk, PastParent, ExitOk, IsLast, Dead, Ctl, ForkLabels,
        WaitLabels, ExitLabels
  <2>2. ASSUME NEW u \in Tasks, u # t
        PROVE  PaidOk(u)'
    <3>1. proc'[ProcOf[u]].vforkParent \in {proc[ProcOf[u]].vforkParent, Nobody}
      BY <1>0, <1>4 DEF StepPublish
    <3> QED
      BY <1>0, <1>4, <2>2, <3>1, PaidFrame DEF StepPublish
  <2> QED
    BY <2>1, <2>2
<1>5. ASSUME StepStart(t)
      PROVE  \A u \in Tasks : PaidOk(u)'
  <2>1. PaidOk(t)'
    BY <1>0, <1>5
    DEF StepStart, PaidOk, PastParent, ExitOk, IsLast, Dead, Ctl, ForkLabels,
        WaitLabels, ExitLabels, AfterReturn
  <2>2. ASSUME NEW u \in Tasks, u # t
        PROVE  PaidOk(u)'
    <3>1. proc'[ProcOf[u]].vforkParent \in {proc[ProcOf[u]].vforkParent, Nobody}
      BY <1>0, <1>5 DEF StepStart
    <3> QED
      BY <1>0, <1>5, <2>2, <3>1, PaidFrame DEF StepStart
  <2> QED
    BY <2>1, <2>2
<1>6. ASSUME StepVforkBlock(t)
      PROVE  \A u \in Tasks : PaidOk(u)'
  <2>1. PaidOk(t)'
    BY <1>0, <1>6
    DEF StepVforkBlock, PaidOk, PastParent, ExitOk, IsLast, Dead, Ctl, ForkLabels,
        WaitLabels, ExitLabels
  <2>2. ASSUME NEW u \in Tasks, u # t
        PROVE  PaidOk(u)'
    <3>1. proc'[ProcOf[u]].vforkParent \in {proc[ProcOf[u]].vforkParent, Nobody}
      BY <1>0, <1>6 DEF StepVforkBlock
    <3> QED
      BY <1>0, <1>6, <2>2, <3>1, PaidFrame DEF StepVforkBlock
  <2> QED
    BY <2>1, <2>2
<1>7. ASSUME StepExec(t)
      PROVE  \A u \in Tasks : PaidOk(u)'
  <2>1. PaidOk(t)'
    BY <1>0, <1>7
    DEF StepExec, PaidOk, PastParent, ExitOk, IsLast, Dead, Ctl, ForkLabels, WaitLabels,
        ExitLabels, AfterReturn
  <2>2. ASSUME NEW u \in Tasks, u # t
        PROVE  PaidOk(u)'
    <3>1. proc'[ProcOf[u]].vforkParent \in {proc[ProcOf[u]].vforkParent, Nobody}
      BY <1>0, <1>7 DEF StepExec
    <3> QED
      BY <1>0, <1>7, <2>2, <3>1, PaidFrame DEF StepExec
  <2> QED
    BY <2>1, <2>2
<1>8. ASSUME StepVforkClear(t)
      PROVE  \A u \in Tasks : PaidOk(u)'
  <2>1. PaidOk(t)'
    BY <1>0, <1>8
    DEF StepVforkClear, PaidOk, PastParent, ExitOk, IsLast, Dead, Ctl, ForkLabels,
        WaitLabels, ExitLabels, AfterVfork, AfterReturn
  <2>2. ASSUME NEW u \in Tasks, u # t
        PROVE  PaidOk(u)'
    <3>1. proc'[ProcOf[u]].vforkParent \in {proc[ProcOf[u]].vforkParent, Nobody}
      BY <1>0, <1>8 DEF StepVforkClear
    <3> QED
      BY <1>0, <1>8, <2>2, <3>1, PaidFrame DEF StepVforkClear
  <2> QED
    BY <2>1, <2>2
<1>9. ASSUME StepVforkWake(t)
      PROVE  \A u \in Tasks : PaidOk(u)'
  <2>1. PaidOk(t)'
    BY <1>0, <1>9
    DEF StepVforkWake, PaidOk, PastParent, ExitOk, IsLast, Dead, Ctl, ForkLabels,
        WaitLabels, ExitLabels, AfterVfork, AfterReturn
  <2>2. ASSUME NEW u \in Tasks, u # t
        PROVE  PaidOk(u)'
    <3>1. proc'[ProcOf[u]].vforkParent \in {proc[ProcOf[u]].vforkParent, Nobody}
      BY <1>0, <1>9 DEF StepVforkWake
    <3> QED
      BY <1>0, <1>9, <2>2, <3>1, PaidFrame DEF StepVforkWake
  <2> QED
    BY <2>1, <2>2
<1>10. ASSUME StepTake(t)
      PROVE  \A u \in Tasks : PaidOk(u)'
  <2>1. PaidOk(t)'
    BY <1>0, <1>10
    DEF StepTake, PaidOk, PastParent, ExitOk, IsLast, Dead, Ctl, ForkLabels, WaitLabels,
        ExitLabels
  <2>2. ASSUME NEW u \in Tasks, u # t
        PROVE  PaidOk(u)'
    <3>1. proc'[ProcOf[u]].vforkParent \in {proc[ProcOf[u]].vforkParent, Nobody}
      BY <1>0, <1>10 DEF StepTake
    <3> QED
      BY <1>0, <1>10, <2>2, <3>1, PaidFrame DEF StepTake
  <2> QED
    BY <2>1, <2>2
<1>11. ASSUME NEW c \in Procs, StepEach(t, c)
      PROVE  \A u \in Tasks : PaidOk(u)'
  <2>1. PaidOk(t)'
    BY <1>0, <1>11
    DEF StepEach, PaidOk, PastParent, ExitOk, IsLast, Dead, Ctl, ForkLabels, WaitLabels,
        ExitLabels
  <2>2. ASSUME NEW u \in Tasks, u # t
        PROVE  PaidOk(u)'
    <3>1. proc'[ProcOf[u]].vforkParent \in {proc[ProcOf[u]].vforkParent, Nobody}
      BY <1>0, <1>11 DEF StepEach
    <3> QED
      BY <1>0, <1>11, <2>2, <3>1, PaidFrame DEF StepEach
  <2> QED
    BY <2>1, <2>2
<1>12. ASSUME StepGive(t)
      PROVE  \A u \in Tasks : PaidOk(u)'
  <2>1. PaidOk(t)'
    BY <1>0, <1>12
    DEF StepGive, PaidOk, PastParent, ExitOk, IsLast, Dead, Ctl, ForkLabels, WaitLabels,
        ExitLabels, AfterReparent, AfterAdoption
  <2>2. ASSUME NEW u \in Tasks, u # t
        PROVE  PaidOk(u)'
    <3>1. proc'[ProcOf[u]].vforkParent \in {proc[ProcOf[u]].vforkParent, Nobody}
      BY <1>0, <1>12 DEF StepGive
    <3> QED
      BY <1>0, <1>12, <2>2, <3>1, PaidFrame DEF StepGive
  <2> QED
    BY <2>1, <2>2
<1>13. ASSUME StepInitPublish(t)
      PROVE  \A u \in Tasks : PaidOk(u)'
  <2>1. PaidOk(t)'
    BY <1>0, <1>13
    DEF StepInitPublish, PaidOk, PastParent, ExitOk, IsLast, Dead, Ctl, ForkLabels,
        WaitLabels, ExitLabels
  <2>2. ASSUME NEW u \in Tasks, u # t
        PROVE  PaidOk(u)'
    <3>1. proc'[ProcOf[u]].vforkParent \in {proc[ProcOf[u]].vforkParent, Nobody}
      BY <1>0, <1>13 DEF StepInitPublish
    <3> QED
      BY <1>0, <1>13, <2>2, <3>1, PaidFrame DEF StepInitPublish
  <2> QED
    BY <2>1, <2>2
<1>14. ASSUME NEW w \in SomeTask, StepInitWake(t, w)
      PROVE  \A u \in Tasks : PaidOk(u)'
  <2>1. PaidOk(t)'
    BY <1>0, <1>14
    DEF StepInitWake, PaidOk, PastParent, ExitOk, IsLast, Dead, Ctl, ForkLabels,
        WaitLabels, ExitLabels, AfterAdoption, Asleep, SomeTask
  <2>2. ASSUME NEW u \in Tasks, u # t
        PROVE  PaidOk(u)'
    <3>1. proc'[ProcOf[u]].vforkParent \in {proc[ProcOf[u]].vforkParent, Nobody}
      BY <1>0, <1>14 DEF StepInitWake
    <3> QED
      BY <1>0, <1>14, <2>2, <3>1, PaidFrame DEF StepInitWake, SomeTask
  <2> QED
    BY <2>1, <2>2
<1>15. ASSUME StepWaitSeq(t)
      PROVE  \A u \in Tasks : PaidOk(u)'
  <2>1. PaidOk(t)'
    BY <1>0, <1>15
    DEF StepWaitSeq, PaidOk, PastParent, ExitOk, IsLast, Dead, Ctl, ForkLabels,
        WaitLabels, ExitLabels
  <2>2. ASSUME NEW u \in Tasks, u # t
        PROVE  PaidOk(u)'
    <3>1. proc'[ProcOf[u]].vforkParent \in {proc[ProcOf[u]].vforkParent, Nobody}
      BY <1>0, <1>15 DEF StepWaitSeq
    <3> QED
      BY <1>0, <1>15, <2>2, <3>1, PaidFrame DEF StepWaitSeq
  <2> QED
    BY <2>1, <2>2
<1>16. ASSUME StepWaitList(t)
      PROVE  \A u \in Tasks : PaidOk(u)'
  <2>1. PaidOk(t)'
    BY <1>0, <1>16
    DEF StepWaitList, PaidOk, PastParent, ExitOk, IsLast, Dead, Ctl, ForkLabels,
        WaitLabels, ExitLabels
  <2>2. ASSUME NEW u \in Tasks, u # t
        PROVE  PaidOk(u)'
    <3>1. proc'[ProcOf[u]].vforkParent \in {proc[ProcOf[u]].vforkParent, Nobody}
      BY <1>0, <1>16 DEF StepWaitList
    <3> QED
      BY <1>0, <1>16, <2>2, <3>1, PaidFrame DEF StepWaitList
  <2> QED
    BY <2>1, <2>2
<1>17. ASSUME NEW c \in Procs, StepFound(t, c)
      PROVE  \A u \in Tasks : PaidOk(u)'
  <2>1. PaidOk(t)'
    BY <1>0, <1>17
    DEF StepFound, PaidOk, PastParent, ExitOk, IsLast, Dead, Ctl, ForkLabels,
        WaitLabels, ExitLabels
  <2>2. ASSUME NEW u \in Tasks, u # t
        PROVE  PaidOk(u)'
    <3>1. proc'[ProcOf[u]].vforkParent \in {proc[ProcOf[u]].vforkParent, Nobody}
      BY <1>0, <1>17 DEF StepFound
    <3> QED
      BY <1>0, <1>17, <2>2, <3>1, PaidFrame DEF StepFound
  <2> QED
    BY <2>1, <2>2
<1>18. ASSUME NEW c \in Procs, StepPass(t, c)
      PROVE  \A u \in Tasks : PaidOk(u)'
  <2>1. PaidOk(t)'
    BY <1>0, <1>18
    DEF StepPass, PaidOk, PastParent, ExitOk, IsLast, Dead, Ctl, ForkLabels, WaitLabels,
        ExitLabels
  <2>2. ASSUME NEW u \in Tasks, u # t
        PROVE  PaidOk(u)'
    <3>1. proc'[ProcOf[u]].vforkParent \in {proc[ProcOf[u]].vforkParent, Nobody}
      BY <1>0, <1>18 DEF StepPass
    <3> QED
      BY <1>0, <1>18, <2>2, <3>1, PaidFrame DEF StepPass
  <2> QED
    BY <2>1, <2>2
<1>19. ASSUME StepAgain(t)
      PROVE  \A u \in Tasks : PaidOk(u)'
  <2>1. PaidOk(t)'
    BY <1>0, <1>19
    DEF StepAgain, PaidOk, PastParent, ExitOk, IsLast, Dead, Ctl, ForkLabels,
        WaitLabels, ExitLabels
  <2>2. ASSUME NEW u \in Tasks, u # t
        PROVE  PaidOk(u)'
    <3>1. proc'[ProcOf[u]].vforkParent \in {proc[ProcOf[u]].vforkParent, Nobody}
      BY <1>0, <1>19 DEF StepAgain
    <3> QED
      BY <1>0, <1>19, <2>2, <3>1, PaidFrame DEF StepAgain
  <2> QED
    BY <2>1, <2>2
<1>20. ASSUME StepWaitBlock(t)
      PROVE  \A u \in Tasks : PaidOk(u)'
  <2>1. PaidOk(t)'
    BY <1>0, <1>20
    DEF StepWaitBlock, PaidOk, PastParent, ExitOk, IsLast, Dead, Ctl, ForkLabels,
        WaitLabels, ExitLabels
  <2>2. ASSUME NEW u \in Tasks, u # t
        PROVE  PaidOk(u)'
    <3>1. proc'[ProcOf[u]].vforkParent \in {proc[ProcOf[u]].vforkParent, Nobody}
      BY <1>0, <1>20 DEF StepWaitBlock
    <3> QED
      BY <1>0, <1>20, <2>2, <3>1, PaidFrame DEF StepWaitBlock
  <2> QED
    BY <2>1, <2>2
<1>21. ASSUME StepWin(t)
      PROVE  \A u \in Tasks : PaidOk(u)'
  <2>1. PaidOk(t)'
    BY <1>0, <1>21
    DEF StepWin, PaidOk, PastParent, ExitOk, IsLast, Dead, Ctl, ForkLabels, WaitLabels,
        ExitLabels
  <2>2. ASSUME NEW u \in Tasks, u # t
        PROVE  PaidOk(u)'
    <3>1. proc'[ProcOf[u]].vforkParent \in {proc[ProcOf[u]].vforkParent, Nobody}
      BY <1>0, <1>21 DEF StepWin
    <3> QED
      BY <1>0, <1>21, <2>2, <3>1, PaidFrame DEF StepWin
  <2> QED
    BY <2>1, <2>2
<1>22. ASSUME StepLose(t)
      PROVE  \A u \in Tasks : PaidOk(u)'
  <2>1. PaidOk(t)'
    BY <1>0, <1>22
    DEF StepLose, PaidOk, PastParent, ExitOk, IsLast, Dead, Ctl, ForkLabels, WaitLabels,
        ExitLabels
  <2>2. ASSUME NEW u \in Tasks, u # t
        PROVE  PaidOk(u)'
    <3>1. proc'[ProcOf[u]].vforkParent \in {proc[ProcOf[u]].vforkParent, Nobody}
      BY <1>0, <1>22 DEF StepLose
    <3> QED
      BY <1>0, <1>22, <2>2, <3>1, PaidFrame DEF StepLose
  <2> QED
    BY <2>1, <2>2
<1>23. ASSUME StepFree(t)
      PROVE  \A u \in Tasks : PaidOk(u)'
  <2>1. PaidOk(t)'
    BY <1>0, <1>23
    DEF StepFree, PaidOk, PastParent, ExitOk, IsLast, Dead, Ctl, ForkLabels, WaitLabels,
        ExitLabels, AfterReturn
  <2>2. ASSUME NEW u \in Tasks, u # t
        PROVE  PaidOk(u)'
    <3>1. proc'[ProcOf[u]].vforkParent \in {proc[ProcOf[u]].vforkParent, Nobody}
      BY <1>0, <1>23 DEF StepFree
    <3> QED
      BY <1>0, <1>23, <2>2, <3>1, PaidFrame DEF StepFree
  <2> QED
    BY <2>1, <2>2
<1>24. ASSUME StepCount(t)
      PROVE  \A u \in Tasks : PaidOk(u)'
  <2>1. PaidOk(t)'
    BY <1>0, <1>24
    DEF StepCount, PaidOk, PastParent, ExitOk, IsLast, Dead, Ctl, ForkLabels,
        WaitLabels, ExitLabels
  <2>2. ASSUME NEW u \in Tasks, u # t
        PROVE  PaidOk(u)'
    <3>1. proc'[ProcOf[u]].vforkParent \in {proc[ProcOf[u]].vforkParent, Nobody}
      BY <1>0, <1>24 DEF StepCount
    <3> QED
      BY <1>0, <1>24, <2>2, <3>1, PaidFrame DEF StepCount
  <2> QED
    BY <2>1, <2>2
<1>25. ASSUME StepDetach(t)
      PROVE  \A u \in Tasks : PaidOk(u)'
  <2>1. PaidOk(t)'
    BY <1>0, <1>25
    DEF StepDetach, PaidOk, PastParent, ExitOk, IsLast, Dead, Ctl, ForkLabels,
        WaitLabels, ExitLabels
  <2>2. ASSUME NEW u \in Tasks, u # t
        PROVE  PaidOk(u)'
    <3>1. proc'[ProcOf[u]].vforkParent \in {proc[ProcOf[u]].vforkParent, Nobody}
      BY <1>0, <1>25 DEF StepDetach
    <3> QED
      BY <1>0, <1>25, <2>2, <3>1, PaidFrame DEF StepDetach
  <2> QED
    BY <2>1, <2>2
<1>26. ASSUME StepParent(t)
      PROVE  \A u \in Tasks : PaidOk(u)'
  <2>1. PaidOk(t)'
    BY <1>0, <1>26
    DEF StepParent, PaidOk, PastParent, ExitOk, IsLast, Dead, Ctl, ForkLabels,
        WaitLabels, ExitLabels
  <2>2. ASSUME NEW u \in Tasks, u # t
        PROVE  PaidOk(u)'
    <3>1. proc'[ProcOf[u]].vforkParent \in {proc[ProcOf[u]].vforkParent, Nobody}
      BY <1>0, <1>26 DEF StepParent
    <3> QED
      BY <1>0, <1>26, <2>2, <3>1, PaidFrame DEF StepParent
  <2> QED
    BY <2>1, <2>2
<1>27. ASSUME StepDefer(t)
      PROVE  \A u \in Tasks : PaidOk(u)'
  <2>1. PaidOk(t)'
    BY <1>0, <1>27
    DEF StepDefer, PaidOk, PastParent, ExitOk, IsLast, Dead, Ctl, ForkLabels,
        WaitLabels, ExitLabels
  <2>2. ASSUME NEW u \in Tasks, u # t
        PROVE  PaidOk(u)'
    <3>1. proc'[ProcOf[u]].vforkParent \in {proc[ProcOf[u]].vforkParent, Nobody}
      BY <1>0, <1>27 DEF StepDefer
    <3> QED
      BY <1>0, <1>27, <2>2, <3>1, PaidFrame DEF StepDefer
  <2> QED
    BY <2>1, <2>2
<1>28. ASSUME StepSwitch(t)
      PROVE  \A u \in Tasks : PaidOk(u)'
  <2>1. PaidOk(t)'
    BY <1>0, <1>28
    DEF StepSwitch, PaidOk, PastParent, ExitOk, IsLast, Dead, Ctl, ForkLabels,
        WaitLabels, ExitLabels
  <2>2. ASSUME NEW u \in Tasks, u # t
        PROVE  PaidOk(u)'
    <3>1. proc'[ProcOf[u]].vforkParent \in {proc[ProcOf[u]].vforkParent, Nobody}
      BY <1>0, <1>28 DEF StepSwitch
    <3> QED
      BY <1>0, <1>28, <2>2, <3>1, PaidFrame DEF StepSwitch
  <2> QED
    BY <2>1, <2>2
<1>29. ASSUME StepGroup(t)
      PROVE  \A u \in Tasks : PaidOk(u)'
  <2>1. PaidOk(t)'
    BY <1>0, <1>29
    DEF StepGroup, PaidOk, PastParent, ExitOk, IsLast, Dead, Ctl, ForkLabels,
        WaitLabels, ExitLabels
  <2>2. ASSUME NEW u \in Tasks, u # t
        PROVE  PaidOk(u)'
    <3>1. proc'[ProcOf[u]].vforkParent \in {proc[ProcOf[u]].vforkParent, Nobody}
      BY <1>0, <1>29 DEF StepGroup
    <3> QED
      BY <1>0, <1>29, <2>2, <3>1, PaidFrame DEF StepGroup
  <2> QED
    BY <2>1, <2>2
<1>30. ASSUME NEW k \in Procs, StepKill(t, k)
      PROVE  \A u \in Tasks : PaidOk(u)'
  <2>1. PaidOk(t)'
    BY <1>0, <1>30
    DEF StepKill, PaidOk, PastParent, ExitOk, IsLast, Dead, Ctl, ForkLabels, WaitLabels,
        ExitLabels
  <2>2. ASSUME NEW u \in Tasks, u # t
        PROVE  PaidOk(u)'
    <3>1. proc'[ProcOf[u]].vforkParent \in {proc[ProcOf[u]].vforkParent, Nobody}
      BY <1>0, <1>30 DEF StepKill
    <3> QED
      BY <1>0, <1>30, <2>2, <3>1, PaidFrame DEF StepKill
  <2> QED
    BY <2>1, <2>2
<1>31. ASSUME NEW w \in Tasks, StepFlag(t, w)
      PROVE  \A u \in Tasks : PaidOk(u)'
  <2>1. PaidOk(t)'
    BY <1>0, <1>31
    DEF StepFlag, PaidOk, PastParent, ExitOk, IsLast, Dead, Ctl, ForkLabels, WaitLabels,
        ExitLabels
  <2>2. ASSUME NEW u \in Tasks, u # t
        PROVE  PaidOk(u)'
    <3>1. proc'[ProcOf[u]].vforkParent \in {proc[ProcOf[u]].vforkParent, Nobody}
      BY <1>0, <1>31 DEF StepFlag
    <3> QED
      BY <1>0, <1>31, <2>2, <3>1, PaidFrame DEF StepFlag
  <2> QED
    BY <2>1, <2>2
<1>32. ASSUME NEW w \in Tasks, StepFlagOnly(t, w)
      PROVE  \A u \in Tasks : PaidOk(u)'
  <2>1. PaidOk(t)'
    BY <1>0, <1>32
    DEF StepFlagOnly, PaidOk, PastParent, ExitOk, IsLast, Dead, Ctl, ForkLabels,
        WaitLabels, ExitLabels
  <2>2. ASSUME NEW u \in Tasks, u # t
        PROVE  PaidOk(u)'
    <3>1. proc'[ProcOf[u]].vforkParent \in {proc[ProcOf[u]].vforkParent, Nobody}
      BY <1>0, <1>32 DEF StepFlagOnly
    <3> QED
      BY <1>0, <1>32, <2>2, <3>1, PaidFrame DEF StepFlagOnly
  <2> QED
    BY <2>1, <2>2
<1>33. ASSUME StepNotify(t)
      PROVE  \A u \in Tasks : PaidOk(u)'
  <2>1. PaidOk(t)'
    BY <1>0, <1>33
    DEF StepNotify, PaidOk, PastParent, ExitOk, IsLast, Dead, Ctl, ForkLabels,
        WaitLabels, ExitLabels
  <2>2. ASSUME NEW u \in Tasks, u # t
        PROVE  PaidOk(u)'
    <3>1. proc'[ProcOf[u]].vforkParent \in {proc[ProcOf[u]].vforkParent, Nobody}
      BY <1>0, <1>33 DEF StepNotify
    <3> QED
      BY <1>0, <1>33, <2>2, <3>1, PaidFrame DEF StepNotify
  <2> QED
    BY <2>1, <2>2
<1>34. ASSUME StepFinish(t)
      PROVE  \A u \in Tasks : PaidOk(u)'
  <2>1. PaidOk(t)'
    BY <1>0, <1>34
    DEF StepFinish, PaidOk, PastParent, ExitOk, IsLast, Dead, Ctl, ForkLabels,
        WaitLabels, ExitLabels
  <2>2. ASSUME NEW u \in Tasks, u # t
        PROVE  PaidOk(u)'
    <3>1. proc'[ProcOf[u]].vforkParent \in {proc[ProcOf[u]].vforkParent, Nobody}
      BY <1>0, <1>34 DEF StepFinish
    <3> QED
      BY <1>0, <1>34, <2>2, <3>1, PaidFrame DEF StepFinish
  <2> QED
    BY <2>1, <2>2
<1>35. ASSUME StepEvent(t)
      PROVE  \A u \in Tasks : PaidOk(u)'
  <2>1. PaidOk(t)'
    BY <1>0, <1>35
    DEF StepEvent, PaidOk, PastParent, ExitOk, IsLast, Dead, Ctl, ForkLabels,
        WaitLabels, ExitLabels
  <2>2. ASSUME NEW u \in Tasks, u # t
        PROVE  PaidOk(u)'
    <3>1. proc'[ProcOf[u]].vforkParent \in {proc[ProcOf[u]].vforkParent, Nobody}
      BY <1>0, <1>35 DEF StepEvent
    <3> QED
      BY <1>0, <1>35, <2>2, <3>1, PaidFrame DEF StepEvent
  <2> QED
    BY <2>1, <2>2
<1>36. ASSUME StepCollect(t)
      PROVE  \A u \in Tasks : PaidOk(u)'
  <2>1. PaidOk(t)'
    BY <1>0, <1>36
    DEF StepCollect, PaidOk, PastParent, ExitOk, IsLast, Dead, Ctl, ForkLabels,
        WaitLabels, ExitLabels
  <2>2. ASSUME NEW u \in Tasks, u # t
        PROVE  PaidOk(u)'
    <3>1. proc'[ProcOf[u]].vforkParent \in {proc[ProcOf[u]].vforkParent, Nobody}
      BY <1>0, <1>36 DEF StepCollect
    <3> QED
      BY <1>0, <1>36, <2>2, <3>1, PaidFrame DEF StepCollect
  <2> QED
    BY <2>1, <2>2
<1>37. ASSUME NEW w \in Tasks, StepWakeOne(t, w)
      PROVE  \A u \in Tasks : PaidOk(u)'
  <2>1. PaidOk(t)'
    BY <1>0, <1>37
    DEF StepWakeOne, PaidOk, PastParent, ExitOk, IsLast, Dead, Ctl, ForkLabels,
        WaitLabels, ExitLabels
  <2>2. ASSUME NEW u \in Tasks, u # t
        PROVE  PaidOk(u)'
    <3>1. proc'[ProcOf[u]].vforkParent \in {proc[ProcOf[u]].vforkParent, Nobody}
      BY <1>0, <1>37 DEF StepWakeOne
    <3> QED
      BY <1>0, <1>37, <2>2, <3>1, PaidFrame DEF StepWakeOne
  <2> QED
    BY <2>1, <2>2
<1>38. ASSUME StepWakesDone(t)
      PROVE  \A u \in Tasks : PaidOk(u)'
  <2>1. PaidOk(t)'
    BY <1>0, <1>38
    DEF StepWakesDone, PaidOk, PastParent, ExitOk, IsLast, Dead, Ctl, ForkLabels,
        WaitLabels, ExitLabels
  <2>2. ASSUME NEW u \in Tasks, u # t
        PROVE  PaidOk(u)'
    <3>1. proc'[ProcOf[u]].vforkParent \in {proc[ProcOf[u]].vforkParent, Nobody}
      BY <1>0, <1>38 DEF StepWakesDone
    <3> QED
      BY <1>0, <1>38, <2>2, <3>1, PaidFrame DEF StepWakesDone
  <2> QED
    BY <2>1, <2>2
<1> QED
  BY <1>1, <1>2, <1>3, <1>4, <1>5, <1>6, <1>7, <1>8, <1>9, <1>10, <1>11, <1>12, <1>13,
     <1>14, <1>15, <1>16, <1>17, <1>18, <1>19, <1>20, <1>21, <1>22, <1>23, <1>24, <1>25,
     <1>26, <1>27, <1>28, <1>29, <1>30, <1>31, <1>32, <1>33, <1>34, <1>35, <1>36, <1>37,
     <1>38
  DEF Step

\* Every step leaves the parent in its vfork as long as the debt is there.
LEMMA OwedStep ==
  ASSUME LifeInv, OwedInv, NEW t \in Tasks, Step(t)
  PROVE  \A d \in Procs, u \in Tasks : OwedOk(d, u)'
<1>0. /\ ProcOf[t] \in Procs /\ Ctl(t) /\ PaidOk(t)
      /\ \A d \in Procs, u \in Tasks : OwedOk(d, u)
  BY DEF LifeInv, ReapInv, ControlInv, OwedInv
<1>1. ASSUME StepReturn(t)
      PROVE  \A d \in Procs, u \in Tasks : OwedOk(d, u)'
  <2> SUFFICES ASSUME NEW d \in Procs, NEW u \in Tasks
               PROVE  OwedOk(d, u)'
    OBVIOUS
  <2>0. /\ proc'[d].vforkParent = u => proc[d].vforkParent = u
        /\ proc[ProcOf[u]].zombie => proc'[ProcOf[u]].zombie
    BY <1>0, <1>1 DEF StepReturn
  <2>a. vforkChild' = vforkChild
    BY <1>1 DEF StepReturn
  <2>1. CASE u = t
    BY <1>0, <1>1, <2>0, <2>a, <2>1
    DEF StepReturn, OwedOk, Vforking, VforkWaits, Ctl, ForkLabels, WaitLabels,
        ExitLabels, AfterReturn
  <2>2. CASE u # t
    BY <1>0, <1>1, <2>0, <2>a, <2>2, OwedFrame DEF StepReturn
  <2> QED
    BY <2>1, <2>2
<1>2. ASSUME NEW c \in Procs, NEW v \in BOOLEAN, StepFork(t, c, v)
      PROVE  \A d \in Procs, u \in Tasks : OwedOk(d, u)'
  <2> SUFFICES ASSUME NEW d \in Procs, NEW u \in Tasks
               PROVE  OwedOk(d, u)'
    OBVIOUS
  <2>1. CASE d = c
    BY <1>2, <2>1 DEF StepFork, OwedOk, Vforking, VforkWaits
  <2>2. CASE d # c
    <3>1. proc'[d] = proc[d] /\ vforkChild' = vforkChild
      BY <1>2, <2>2 DEF StepFork
    <3>2. ASSUME proc[d].vforkParent = u
          PROVE  ProcOf[u] # c /\ proc'[ProcOf[u]] = proc[ProcOf[u]]
      <4>1. Known(ProcOf[u])
        BY <3>2 DEF LifeInv, KnownInv, KnownProc
      <4> QED
        BY <1>2, <4>1 DEF StepFork, Known
    <3>3. CASE u = t
      <4>1. proc[d].vforkParent = u => proc[ProcOf[u]].zombie
        BY <1>0, <1>2, <3>3 DEF StepFork, OwedOk, Vforking, VforkWaits
      <4> QED
        BY <3>1, <3>2, <4>1 DEF OwedOk
    <3>4. CASE u = Leader[c]
      BY <3>1, <3>2, <3>4 DEF OwedOk
    <3>5. CASE u # t /\ u # Leader[c]
      <4>1. pc'[u] = pc[u] /\ loc'[u] = loc[u]
        BY <1>2, <3>5 DEF StepFork
      <4> QED
        BY <1>0, <3>1, <3>2, <4>1, OwedFrame
    <3> QED
      BY <3>3, <3>4, <3>5
  <2> QED
    BY <2>1, <2>2
<1>3. ASSUME StepPush(t)
      PROVE  \A d \in Procs, u \in Tasks : OwedOk(d, u)'
  <2> SUFFICES ASSUME NEW d \in Procs, NEW u \in Tasks
               PROVE  OwedOk(d, u)'
    OBVIOUS
  <2>0. /\ proc'[d].vforkParent = u => proc[d].vforkParent = u
        /\ proc[ProcOf[u]].zombie => proc'[ProcOf[u]].zombie
    BY <1>0, <1>3 DEF StepPush
  <2>a. vforkChild' = vforkChild
    BY <1>3 DEF StepPush
  <2>1. CASE u = t
    BY <1>0, <1>3, <2>0, <2>a, <2>1
    DEF StepPush, OwedOk, Vforking, VforkWaits, Ctl, ForkLabels, WaitLabels, ExitLabels
  <2>2. CASE u # t
    BY <1>0, <1>3, <2>0, <2>a, <2>2, OwedFrame DEF StepPush
  <2> QED
    BY <2>1, <2>2
<1>4. ASSUME StepPublish(t)
      PROVE  \A d \in Procs, u \in Tasks : OwedOk(d, u)'
  <2> SUFFICES ASSUME NEW d \in Procs, NEW u \in Tasks
               PROVE  OwedOk(d, u)'
    OBVIOUS
  <2>0. /\ proc'[d].vforkParent = u => proc[d].vforkParent = u
        /\ proc[ProcOf[u]].zombie => proc'[ProcOf[u]].zombie
    BY <1>0, <1>4 DEF StepPublish
  <2>1. CASE u = t
    <3>1. pc'[t] = "forkStart" /\ loc' = loc /\ vforkChild'[t] = loc[t].of /\ loc[t].why = "vfork"
      BY <1>0, <1>4 DEF StepPublish, Ctl
    <3>2. proc[d].vforkParent = t => proc[ProcOf[t]].zombie \/ loc[t].of = d
      BY <1>0 DEF OwedOk
    <3> QED
      BY <2>0, <2>1, <3>1, <3>2 DEF OwedOk, Vforking, VforkWaits
  <2>2. CASE u # t
    BY <1>0, <1>4, <2>0, <2>2, OwedFrame DEF StepPublish
  <2> QED
    BY <2>1, <2>2
<1>5. ASSUME StepStart(t)
      PROVE  \A d \in Procs, u \in Tasks : OwedOk(d, u)'
  <2> SUFFICES ASSUME NEW d \in Procs, NEW u \in Tasks
               PROVE  OwedOk(d, u)'
    OBVIOUS
  <2>0. /\ proc'[d].vforkParent = u => proc[d].vforkParent = u
        /\ proc[ProcOf[u]].zombie => proc'[ProcOf[u]].zombie
    BY <1>0, <1>5 DEF StepStart
  <2>a. vforkChild' = vforkChild
    BY <1>5 DEF StepStart
  <2>1. CASE u = t
    BY <1>0, <1>5, <2>0, <2>a, <2>1
    DEF StepStart, OwedOk, Vforking, VforkWaits, Ctl, ForkLabels, WaitLabels,
        ExitLabels, AfterReturn
  <2>2. CASE u # t
    BY <1>0, <1>5, <2>0, <2>a, <2>2, OwedFrame DEF StepStart
  <2> QED
    BY <2>1, <2>2
<1>6. ASSUME StepVforkBlock(t)
      PROVE  \A d \in Procs, u \in Tasks : OwedOk(d, u)'
  <2> SUFFICES ASSUME NEW d \in Procs, NEW u \in Tasks
               PROVE  OwedOk(d, u)'
    OBVIOUS
  <2>0. /\ proc'[d].vforkParent = u => proc[d].vforkParent = u
        /\ proc[ProcOf[u]].zombie => proc'[ProcOf[u]].zombie
    BY <1>0, <1>6 DEF StepVforkBlock
  <2>a. vforkChild' = vforkChild
    BY <1>6 DEF StepVforkBlock
  <2>1. CASE u = t
    BY <1>0, <1>6, <2>0, <2>a, <2>1
    DEF StepVforkBlock, OwedOk, Vforking, VforkWaits, Ctl, ForkLabels, WaitLabels,
        ExitLabels
  <2>2. CASE u # t
    BY <1>0, <1>6, <2>0, <2>a, <2>2, OwedFrame DEF StepVforkBlock
  <2> QED
    BY <2>1, <2>2
<1>7. ASSUME StepExec(t)
      PROVE  \A d \in Procs, u \in Tasks : OwedOk(d, u)'
  <2> SUFFICES ASSUME NEW d \in Procs, NEW u \in Tasks
               PROVE  OwedOk(d, u)'
    OBVIOUS
  <2>0. /\ proc'[d].vforkParent = u => proc[d].vforkParent = u
        /\ proc[ProcOf[u]].zombie => proc'[ProcOf[u]].zombie
    BY <1>0, <1>7 DEF StepExec
  <2>a. vforkChild' = vforkChild
    BY <1>7 DEF StepExec
  <2>1. CASE u = t
    BY <1>0, <1>7, <2>0, <2>a, <2>1
    DEF StepExec, OwedOk, Vforking, VforkWaits, Ctl, ForkLabels, WaitLabels, ExitLabels,
        AfterReturn
  <2>2. CASE u # t
    BY <1>0, <1>7, <2>0, <2>a, <2>2, OwedFrame DEF StepExec
  <2> QED
    BY <2>1, <2>2
<1>8. ASSUME StepVforkClear(t)
      PROVE  \A d \in Procs, u \in Tasks : OwedOk(d, u)'
  <2> SUFFICES ASSUME NEW d \in Procs, NEW u \in Tasks
               PROVE  OwedOk(d, u)'
    OBVIOUS
  <2>0. /\ proc'[d].vforkParent = u => proc[d].vforkParent = u
        /\ proc[ProcOf[u]].zombie => proc'[ProcOf[u]].zombie
    BY <1>0, <1>8 DEF StepVforkClear
  <2>a. proc'[d].vforkParent = u /\ vforkChild[u] = d => vforkChild'[u] = d
    <3>1. proc[ProcOf[t]].vforkParent = Nobody
      BY <1>0, <1>8 DEF StepVforkClear, PaidOk
    <3>2. proc'[d].vforkParent = u => d # ProcOf[t]
      BY <2>0, <3>1
    <3>3. u = loc[t].vforkParent /\ vforkChild[u] # ProcOf[t] => vforkChild'[u] = vforkChild[u]
      BY <1>8 DEF StepVforkClear
    <3>4. u # loc[t].vforkParent => vforkChild'[u] = vforkChild[u]
      BY <1>8 DEF StepVforkClear
    <3> QED
      BY <3>2, <3>3, <3>4
  <2>1. CASE u = t
    BY <1>0, <1>8, <2>0, <2>a, <2>1
    DEF StepVforkClear, OwedOk, Vforking, VforkWaits, Ctl, ForkLabels, WaitLabels,
        ExitLabels, AfterVfork, AfterReturn
  <2>2. CASE u # t
    BY <1>0, <1>8, <2>0, <2>a, <2>2, OwedFrame DEF StepVforkClear
  <2> QED
    BY <2>1, <2>2
<1>9. ASSUME StepVforkWake(t)
      PROVE  \A d \in Procs, u \in Tasks : OwedOk(d, u)'
  <2> SUFFICES ASSUME NEW d \in Procs, NEW u \in Tasks
               PROVE  OwedOk(d, u)'
    OBVIOUS
  <2>0. /\ proc'[d].vforkParent = u => proc[d].vforkParent = u
        /\ proc[ProcOf[u]].zombie => proc'[ProcOf[u]].zombie
    BY <1>0, <1>9 DEF StepVforkWake
  <2>a. vforkChild' = vforkChild
    BY <1>9 DEF StepVforkWake
  <2>1. CASE u = t
    BY <1>0, <1>9, <2>0, <2>a, <2>1
    DEF StepVforkWake, OwedOk, Vforking, VforkWaits, Ctl, ForkLabels, WaitLabels,
        ExitLabels, AfterVfork, AfterReturn
  <2>2. CASE u # t
    BY <1>0, <1>9, <2>0, <2>a, <2>2, OwedFrame DEF StepVforkWake
  <2> QED
    BY <2>1, <2>2
<1>10. ASSUME StepTake(t)
      PROVE  \A d \in Procs, u \in Tasks : OwedOk(d, u)'
  <2> SUFFICES ASSUME NEW d \in Procs, NEW u \in Tasks
               PROVE  OwedOk(d, u)'
    OBVIOUS
  <2>0. /\ proc'[d].vforkParent = u => proc[d].vforkParent = u
        /\ proc[ProcOf[u]].zombie => proc'[ProcOf[u]].zombie
    BY <1>0, <1>10 DEF StepTake
  <2>a. vforkChild' = vforkChild
    BY <1>10 DEF StepTake
  <2>1. CASE u = t
    BY <1>0, <1>10, <2>0, <2>a, <2>1
    DEF StepTake, OwedOk, Vforking, VforkWaits, Ctl, ForkLabels, WaitLabels, ExitLabels
  <2>2. CASE u # t
    BY <1>0, <1>10, <2>0, <2>a, <2>2, OwedFrame DEF StepTake
  <2> QED
    BY <2>1, <2>2
<1>11. ASSUME NEW c \in Procs, StepEach(t, c)
      PROVE  \A d \in Procs, u \in Tasks : OwedOk(d, u)'
  <2> SUFFICES ASSUME NEW d \in Procs, NEW u \in Tasks
               PROVE  OwedOk(d, u)'
    OBVIOUS
  <2>0. /\ proc'[d].vforkParent = u => proc[d].vforkParent = u
        /\ proc[ProcOf[u]].zombie => proc'[ProcOf[u]].zombie
    BY <1>0, <1>11 DEF StepEach
  <2>a. vforkChild' = vforkChild
    BY <1>11 DEF StepEach
  <2>1. CASE u = t
    BY <1>0, <1>11, <2>0, <2>a, <2>1
    DEF StepEach, OwedOk, Vforking, VforkWaits, Ctl, ForkLabels, WaitLabels, ExitLabels
  <2>2. CASE u # t
    BY <1>0, <1>11, <2>0, <2>a, <2>2, OwedFrame DEF StepEach
  <2> QED
    BY <2>1, <2>2
<1>12. ASSUME StepGive(t)
      PROVE  \A d \in Procs, u \in Tasks : OwedOk(d, u)'
  <2> SUFFICES ASSUME NEW d \in Procs, NEW u \in Tasks
               PROVE  OwedOk(d, u)'
    OBVIOUS
  <2>0. /\ proc'[d].vforkParent = u => proc[d].vforkParent = u
        /\ proc[ProcOf[u]].zombie => proc'[ProcOf[u]].zombie
    BY <1>0, <1>12 DEF StepGive
  <2>a. vforkChild' = vforkChild
    BY <1>12 DEF StepGive
  <2>1. CASE u = t
    BY <1>0, <1>12, <2>0, <2>a, <2>1
    DEF StepGive, OwedOk, Vforking, VforkWaits, Ctl, ForkLabels, WaitLabels, ExitLabels,
        AfterReparent, AfterAdoption
  <2>2. CASE u # t
    BY <1>0, <1>12, <2>0, <2>a, <2>2, OwedFrame DEF StepGive
  <2> QED
    BY <2>1, <2>2
<1>13. ASSUME StepInitPublish(t)
      PROVE  \A d \in Procs, u \in Tasks : OwedOk(d, u)'
  <2> SUFFICES ASSUME NEW d \in Procs, NEW u \in Tasks
               PROVE  OwedOk(d, u)'
    OBVIOUS
  <2>0. /\ proc'[d].vforkParent = u => proc[d].vforkParent = u
        /\ proc[ProcOf[u]].zombie => proc'[ProcOf[u]].zombie
    BY <1>0, <1>13 DEF StepInitPublish
  <2>a. vforkChild' = vforkChild
    BY <1>13 DEF StepInitPublish
  <2>1. CASE u = t
    BY <1>0, <1>13, <2>0, <2>a, <2>1
    DEF StepInitPublish, OwedOk, Vforking, VforkWaits, Ctl, ForkLabels, WaitLabels,
        ExitLabels
  <2>2. CASE u # t
    BY <1>0, <1>13, <2>0, <2>a, <2>2, OwedFrame DEF StepInitPublish
  <2> QED
    BY <2>1, <2>2
<1>14. ASSUME NEW w \in SomeTask, StepInitWake(t, w)
      PROVE  \A d \in Procs, u \in Tasks : OwedOk(d, u)'
  <2> SUFFICES ASSUME NEW d \in Procs, NEW u \in Tasks
               PROVE  OwedOk(d, u)'
    OBVIOUS
  <2>0. /\ proc'[d].vforkParent = u => proc[d].vforkParent = u
        /\ proc[ProcOf[u]].zombie => proc'[ProcOf[u]].zombie
    BY <1>0, <1>14 DEF StepInitWake
  <2>a. vforkChild' = vforkChild
    BY <1>14 DEF StepInitWake
  <2>1. CASE u = t
    BY <1>0, <1>14, <2>0, <2>a, <2>1
    DEF StepInitWake, OwedOk, Vforking, VforkWaits, Ctl, ForkLabels, WaitLabels,
        ExitLabels, AfterAdoption, Asleep, SomeTask
  <2>2. CASE u # t
    BY <1>0, <1>14, <2>0, <2>a, <2>2, OwedFrame DEF StepInitWake, SomeTask
  <2> QED
    BY <2>1, <2>2
<1>15. ASSUME StepWaitSeq(t)
      PROVE  \A d \in Procs, u \in Tasks : OwedOk(d, u)'
  <2> SUFFICES ASSUME NEW d \in Procs, NEW u \in Tasks
               PROVE  OwedOk(d, u)'
    OBVIOUS
  <2>0. /\ proc'[d].vforkParent = u => proc[d].vforkParent = u
        /\ proc[ProcOf[u]].zombie => proc'[ProcOf[u]].zombie
    BY <1>0, <1>15 DEF StepWaitSeq
  <2>a. vforkChild' = vforkChild
    BY <1>15 DEF StepWaitSeq
  <2>1. CASE u = t
    BY <1>0, <1>15, <2>0, <2>a, <2>1
    DEF StepWaitSeq, OwedOk, Vforking, VforkWaits, Ctl, ForkLabels, WaitLabels,
        ExitLabels
  <2>2. CASE u # t
    BY <1>0, <1>15, <2>0, <2>a, <2>2, OwedFrame DEF StepWaitSeq
  <2> QED
    BY <2>1, <2>2
<1>16. ASSUME StepWaitList(t)
      PROVE  \A d \in Procs, u \in Tasks : OwedOk(d, u)'
  <2> SUFFICES ASSUME NEW d \in Procs, NEW u \in Tasks
               PROVE  OwedOk(d, u)'
    OBVIOUS
  <2>0. /\ proc'[d].vforkParent = u => proc[d].vforkParent = u
        /\ proc[ProcOf[u]].zombie => proc'[ProcOf[u]].zombie
    BY <1>0, <1>16 DEF StepWaitList
  <2>a. vforkChild' = vforkChild
    BY <1>16 DEF StepWaitList
  <2>1. CASE u = t
    BY <1>0, <1>16, <2>0, <2>a, <2>1
    DEF StepWaitList, OwedOk, Vforking, VforkWaits, Ctl, ForkLabels, WaitLabels,
        ExitLabels
  <2>2. CASE u # t
    BY <1>0, <1>16, <2>0, <2>a, <2>2, OwedFrame DEF StepWaitList
  <2> QED
    BY <2>1, <2>2
<1>17. ASSUME NEW c \in Procs, StepFound(t, c)
      PROVE  \A d \in Procs, u \in Tasks : OwedOk(d, u)'
  <2> SUFFICES ASSUME NEW d \in Procs, NEW u \in Tasks
               PROVE  OwedOk(d, u)'
    OBVIOUS
  <2>0. /\ proc'[d].vforkParent = u => proc[d].vforkParent = u
        /\ proc[ProcOf[u]].zombie => proc'[ProcOf[u]].zombie
    BY <1>0, <1>17 DEF StepFound
  <2>a. vforkChild' = vforkChild
    BY <1>17 DEF StepFound
  <2>1. CASE u = t
    BY <1>0, <1>17, <2>0, <2>a, <2>1
    DEF StepFound, OwedOk, Vforking, VforkWaits, Ctl, ForkLabels, WaitLabels, ExitLabels
  <2>2. CASE u # t
    BY <1>0, <1>17, <2>0, <2>a, <2>2, OwedFrame DEF StepFound
  <2> QED
    BY <2>1, <2>2
<1>18. ASSUME NEW c \in Procs, StepPass(t, c)
      PROVE  \A d \in Procs, u \in Tasks : OwedOk(d, u)'
  <2> SUFFICES ASSUME NEW d \in Procs, NEW u \in Tasks
               PROVE  OwedOk(d, u)'
    OBVIOUS
  <2>0. /\ proc'[d].vforkParent = u => proc[d].vforkParent = u
        /\ proc[ProcOf[u]].zombie => proc'[ProcOf[u]].zombie
    BY <1>0, <1>18 DEF StepPass
  <2>a. vforkChild' = vforkChild
    BY <1>18 DEF StepPass
  <2>1. CASE u = t
    BY <1>0, <1>18, <2>0, <2>a, <2>1
    DEF StepPass, OwedOk, Vforking, VforkWaits, Ctl, ForkLabels, WaitLabels, ExitLabels
  <2>2. CASE u # t
    BY <1>0, <1>18, <2>0, <2>a, <2>2, OwedFrame DEF StepPass
  <2> QED
    BY <2>1, <2>2
<1>19. ASSUME StepAgain(t)
      PROVE  \A d \in Procs, u \in Tasks : OwedOk(d, u)'
  <2> SUFFICES ASSUME NEW d \in Procs, NEW u \in Tasks
               PROVE  OwedOk(d, u)'
    OBVIOUS
  <2>0. /\ proc'[d].vforkParent = u => proc[d].vforkParent = u
        /\ proc[ProcOf[u]].zombie => proc'[ProcOf[u]].zombie
    BY <1>0, <1>19 DEF StepAgain
  <2>a. vforkChild' = vforkChild
    BY <1>19 DEF StepAgain
  <2>1. CASE u = t
    BY <1>0, <1>19, <2>0, <2>a, <2>1
    DEF StepAgain, OwedOk, Vforking, VforkWaits, Ctl, ForkLabels, WaitLabels, ExitLabels
  <2>2. CASE u # t
    BY <1>0, <1>19, <2>0, <2>a, <2>2, OwedFrame DEF StepAgain
  <2> QED
    BY <2>1, <2>2
<1>20. ASSUME StepWaitBlock(t)
      PROVE  \A d \in Procs, u \in Tasks : OwedOk(d, u)'
  <2> SUFFICES ASSUME NEW d \in Procs, NEW u \in Tasks
               PROVE  OwedOk(d, u)'
    OBVIOUS
  <2>0. /\ proc'[d].vforkParent = u => proc[d].vforkParent = u
        /\ proc[ProcOf[u]].zombie => proc'[ProcOf[u]].zombie
    BY <1>0, <1>20 DEF StepWaitBlock
  <2>a. vforkChild' = vforkChild
    BY <1>20 DEF StepWaitBlock
  <2>1. CASE u = t
    BY <1>0, <1>20, <2>0, <2>a, <2>1
    DEF StepWaitBlock, OwedOk, Vforking, VforkWaits, Ctl, ForkLabels, WaitLabels,
        ExitLabels
  <2>2. CASE u # t
    BY <1>0, <1>20, <2>0, <2>a, <2>2, OwedFrame DEF StepWaitBlock
  <2> QED
    BY <2>1, <2>2
<1>21. ASSUME StepWin(t)
      PROVE  \A d \in Procs, u \in Tasks : OwedOk(d, u)'
  <2> SUFFICES ASSUME NEW d \in Procs, NEW u \in Tasks
               PROVE  OwedOk(d, u)'
    OBVIOUS
  <2>0. /\ proc'[d].vforkParent = u => proc[d].vforkParent = u
        /\ proc[ProcOf[u]].zombie => proc'[ProcOf[u]].zombie
    BY <1>0, <1>21, ZenonT(60) DEF StepWin
  <2>a. vforkChild' = vforkChild
    BY <1>21 DEF StepWin
  <2>1. CASE u = t
    BY <1>0, <1>21, <2>0, <2>a, <2>1
    DEF StepWin, OwedOk, Vforking, VforkWaits, Ctl, ForkLabels, WaitLabels, ExitLabels
  <2>2. CASE u # t
    BY <1>0, <1>21, <2>0, <2>a, <2>2, OwedFrame DEF StepWin
  <2> QED
    BY <2>1, <2>2
<1>22. ASSUME StepLose(t)
      PROVE  \A d \in Procs, u \in Tasks : OwedOk(d, u)'
  <2> SUFFICES ASSUME NEW d \in Procs, NEW u \in Tasks
               PROVE  OwedOk(d, u)'
    OBVIOUS
  <2>0. /\ proc'[d].vforkParent = u => proc[d].vforkParent = u
        /\ proc[ProcOf[u]].zombie => proc'[ProcOf[u]].zombie
    BY <1>0, <1>22 DEF StepLose
  <2>a. vforkChild' = vforkChild
    BY <1>22 DEF StepLose
  <2>1. CASE u = t
    BY <1>0, <1>22, <2>0, <2>a, <2>1
    DEF StepLose, OwedOk, Vforking, VforkWaits, Ctl, ForkLabels, WaitLabels, ExitLabels
  <2>2. CASE u # t
    BY <1>0, <1>22, <2>0, <2>a, <2>2, OwedFrame DEF StepLose
  <2> QED
    BY <2>1, <2>2
<1>23. ASSUME StepFree(t)
      PROVE  \A d \in Procs, u \in Tasks : OwedOk(d, u)'
  <2> SUFFICES ASSUME NEW d \in Procs, NEW u \in Tasks
               PROVE  OwedOk(d, u)'
    OBVIOUS
  <2>0. /\ proc'[d].vforkParent = u => proc[d].vforkParent = u
        /\ proc[ProcOf[u]].zombie => proc'[ProcOf[u]].zombie
    BY <1>0, <1>23 DEF StepFree
  <2>a. vforkChild' = vforkChild
    BY <1>23 DEF StepFree
  <2>1. CASE u = t
    BY <1>0, <1>23, <2>0, <2>a, <2>1
    DEF StepFree, OwedOk, Vforking, VforkWaits, Ctl, ForkLabels, WaitLabels, ExitLabels,
        AfterReturn
  <2>2. CASE u # t
    BY <1>0, <1>23, <2>0, <2>a, <2>2, OwedFrame DEF StepFree
  <2> QED
    BY <2>1, <2>2
<1>24. ASSUME StepCount(t)
      PROVE  \A d \in Procs, u \in Tasks : OwedOk(d, u)'
  <2> SUFFICES ASSUME NEW d \in Procs, NEW u \in Tasks
               PROVE  OwedOk(d, u)'
    OBVIOUS
  <2>0. /\ proc'[d].vforkParent = u => proc[d].vforkParent = u
        /\ proc[ProcOf[u]].zombie => proc'[ProcOf[u]].zombie
    BY <1>0, <1>24, SMTT(60) DEF StepCount
  <2>a. vforkChild' = vforkChild
    BY <1>24 DEF StepCount
  <2>1. CASE u = t
    BY <1>0, <1>24, <2>0, <2>a, <2>1
    DEF StepCount, OwedOk, Vforking, VforkWaits, Ctl, ForkLabels, WaitLabels, ExitLabels
  <2>2. CASE u # t
    BY <1>0, <1>24, <2>0, <2>a, <2>2, OwedFrame DEF StepCount
  <2> QED
    BY <2>1, <2>2
<1>25. ASSUME StepDetach(t)
      PROVE  \A d \in Procs, u \in Tasks : OwedOk(d, u)'
  <2> SUFFICES ASSUME NEW d \in Procs, NEW u \in Tasks
               PROVE  OwedOk(d, u)'
    OBVIOUS
  <2>0. /\ proc'[d].vforkParent = u => proc[d].vforkParent = u
        /\ proc[ProcOf[u]].zombie => proc'[ProcOf[u]].zombie
    BY <1>0, <1>25 DEF StepDetach
  <2>a. vforkChild' = vforkChild
    BY <1>25 DEF StepDetach
  <2>1. CASE u = t
    BY <1>0, <1>25, <2>0, <2>a, <2>1
    DEF StepDetach, OwedOk, Vforking, VforkWaits, Ctl, ForkLabels, WaitLabels,
        ExitLabels
  <2>2. CASE u # t
    BY <1>0, <1>25, <2>0, <2>a, <2>2, OwedFrame DEF StepDetach
  <2> QED
    BY <2>1, <2>2
<1>26. ASSUME StepParent(t)
      PROVE  \A d \in Procs, u \in Tasks : OwedOk(d, u)'
  <2> SUFFICES ASSUME NEW d \in Procs, NEW u \in Tasks
               PROVE  OwedOk(d, u)'
    OBVIOUS
  <2>0. /\ proc'[d].vforkParent = u => proc[d].vforkParent = u
        /\ proc[ProcOf[u]].zombie => proc'[ProcOf[u]].zombie
    BY <1>0, <1>26 DEF StepParent
  <2>a. vforkChild' = vforkChild
    BY <1>26 DEF StepParent
  <2>1. CASE u = t
    BY <1>0, <1>26, <2>0, <2>a, <2>1
    DEF StepParent, OwedOk, Vforking, VforkWaits, Ctl, ForkLabels, WaitLabels,
        ExitLabels
  <2>2. CASE u # t
    BY <1>0, <1>26, <2>0, <2>a, <2>2, OwedFrame DEF StepParent
  <2> QED
    BY <2>1, <2>2
<1>27. ASSUME StepDefer(t)
      PROVE  \A d \in Procs, u \in Tasks : OwedOk(d, u)'
  <2> SUFFICES ASSUME NEW d \in Procs, NEW u \in Tasks
               PROVE  OwedOk(d, u)'
    OBVIOUS
  <2>0. /\ proc'[d].vforkParent = u => proc[d].vforkParent = u
        /\ proc[ProcOf[u]].zombie => proc'[ProcOf[u]].zombie
    BY <1>0, <1>27 DEF StepDefer
  <2>a. vforkChild' = vforkChild
    BY <1>27 DEF StepDefer
  <2>1. CASE u = t
    BY <1>0, <1>27, <2>0, <2>a, <2>1
    DEF StepDefer, OwedOk, Vforking, VforkWaits, Ctl, ForkLabels, WaitLabels, ExitLabels
  <2>2. CASE u # t
    BY <1>0, <1>27, <2>0, <2>a, <2>2, OwedFrame DEF StepDefer
  <2> QED
    BY <2>1, <2>2
<1>28. ASSUME StepSwitch(t)
      PROVE  \A d \in Procs, u \in Tasks : OwedOk(d, u)'
  <2> SUFFICES ASSUME NEW d \in Procs, NEW u \in Tasks
               PROVE  OwedOk(d, u)'
    OBVIOUS
  <2>0. /\ proc'[d].vforkParent = u => proc[d].vforkParent = u
        /\ proc[ProcOf[u]].zombie => proc'[ProcOf[u]].zombie
    BY <1>0, <1>28 DEF StepSwitch
  <2>a. vforkChild' = vforkChild
    BY <1>28 DEF StepSwitch
  <2>1. CASE u = t
    BY <1>0, <1>28, <2>0, <2>a, <2>1
    DEF StepSwitch, OwedOk, Vforking, VforkWaits, Ctl, ForkLabels, WaitLabels,
        ExitLabels
  <2>2. CASE u # t
    BY <1>0, <1>28, <2>0, <2>a, <2>2, OwedFrame DEF StepSwitch
  <2> QED
    BY <2>1, <2>2
<1>29. ASSUME StepGroup(t)
      PROVE  \A d \in Procs, u \in Tasks : OwedOk(d, u)'
  <2> SUFFICES ASSUME NEW d \in Procs, NEW u \in Tasks
               PROVE  OwedOk(d, u)'
    OBVIOUS
  <2>0. /\ proc'[d].vforkParent = u => proc[d].vforkParent = u
        /\ proc[ProcOf[u]].zombie => proc'[ProcOf[u]].zombie
    BY <1>0, <1>29 DEF StepGroup
  <2>a. vforkChild' = vforkChild
    BY <1>29 DEF StepGroup
  <2>1. CASE u = t
    BY <1>0, <1>29, <2>0, <2>a, <2>1
    DEF StepGroup, OwedOk, Vforking, VforkWaits, Ctl, ForkLabels, WaitLabels, ExitLabels
  <2>2. CASE u # t
    BY <1>0, <1>29, <2>0, <2>a, <2>2, OwedFrame DEF StepGroup
  <2> QED
    BY <2>1, <2>2
<1>30. ASSUME NEW k \in Procs, StepKill(t, k)
      PROVE  \A d \in Procs, u \in Tasks : OwedOk(d, u)'
  <2> SUFFICES ASSUME NEW d \in Procs, NEW u \in Tasks
               PROVE  OwedOk(d, u)'
    OBVIOUS
  <2>0. /\ proc'[d].vforkParent = u => proc[d].vforkParent = u
        /\ proc[ProcOf[u]].zombie => proc'[ProcOf[u]].zombie
    BY <1>0, <1>30 DEF StepKill
  <2>a. vforkChild' = vforkChild
    BY <1>30 DEF StepKill
  <2>1. CASE u = t
    BY <1>0, <1>30, <2>0, <2>a, <2>1
    DEF StepKill, OwedOk, Vforking, VforkWaits, Ctl, ForkLabels, WaitLabels, ExitLabels
  <2>2. CASE u # t
    BY <1>0, <1>30, <2>0, <2>a, <2>2, OwedFrame DEF StepKill
  <2> QED
    BY <2>1, <2>2
<1>31. ASSUME NEW w \in Tasks, StepFlag(t, w)
      PROVE  \A d \in Procs, u \in Tasks : OwedOk(d, u)'
  <2> SUFFICES ASSUME NEW d \in Procs, NEW u \in Tasks
               PROVE  OwedOk(d, u)'
    OBVIOUS
  <2>0. /\ proc'[d].vforkParent = u => proc[d].vforkParent = u
        /\ proc[ProcOf[u]].zombie => proc'[ProcOf[u]].zombie
    BY <1>0, <1>31 DEF StepFlag
  <2>a. vforkChild' = vforkChild
    BY <1>31 DEF StepFlag
  <2>1. CASE u = t
    BY <1>0, <1>31, <2>0, <2>a, <2>1
    DEF StepFlag, OwedOk, Vforking, VforkWaits, Ctl, ForkLabels, WaitLabels, ExitLabels
  <2>2. CASE u # t
    BY <1>0, <1>31, <2>0, <2>a, <2>2, OwedFrame DEF StepFlag
  <2> QED
    BY <2>1, <2>2
<1>32. ASSUME NEW w \in Tasks, StepFlagOnly(t, w)
      PROVE  \A d \in Procs, u \in Tasks : OwedOk(d, u)'
  <2> SUFFICES ASSUME NEW d \in Procs, NEW u \in Tasks
               PROVE  OwedOk(d, u)'
    OBVIOUS
  <2>0. /\ proc'[d].vforkParent = u => proc[d].vforkParent = u
        /\ proc[ProcOf[u]].zombie => proc'[ProcOf[u]].zombie
    BY <1>0, <1>32 DEF StepFlagOnly
  <2>a. vforkChild' = vforkChild
    BY <1>32 DEF StepFlagOnly
  <2>1. CASE u = t
    BY <1>0, <1>32, <2>0, <2>a, <2>1
    DEF StepFlagOnly, OwedOk, Vforking, VforkWaits, Ctl, ForkLabels, WaitLabels,
        ExitLabels
  <2>2. CASE u # t
    BY <1>0, <1>32, <2>0, <2>a, <2>2, OwedFrame DEF StepFlagOnly
  <2> QED
    BY <2>1, <2>2
<1>33. ASSUME StepNotify(t)
      PROVE  \A d \in Procs, u \in Tasks : OwedOk(d, u)'
  <2> SUFFICES ASSUME NEW d \in Procs, NEW u \in Tasks
               PROVE  OwedOk(d, u)'
    OBVIOUS
  <2>0. /\ proc'[d].vforkParent = u => proc[d].vforkParent = u
        /\ proc[ProcOf[u]].zombie => proc'[ProcOf[u]].zombie
    BY <1>0, <1>33 DEF StepNotify
  <2>a. vforkChild' = vforkChild
    BY <1>33 DEF StepNotify
  <2>1. CASE u = t
    BY <1>0, <1>33, <2>0, <2>a, <2>1
    DEF StepNotify, OwedOk, Vforking, VforkWaits, Ctl, ForkLabels, WaitLabels,
        ExitLabels
  <2>2. CASE u # t
    BY <1>0, <1>33, <2>0, <2>a, <2>2, OwedFrame DEF StepNotify
  <2> QED
    BY <2>1, <2>2
<1>34. ASSUME StepFinish(t)
      PROVE  \A d \in Procs, u \in Tasks : OwedOk(d, u)'
  <2> SUFFICES ASSUME NEW d \in Procs, NEW u \in Tasks
               PROVE  OwedOk(d, u)'
    OBVIOUS
  <2>0. /\ proc'[d].vforkParent = u => proc[d].vforkParent = u
        /\ proc[ProcOf[u]].zombie => proc'[ProcOf[u]].zombie
    BY <1>0, <1>34, ZenonT(60) DEF StepFinish
  <2>a. vforkChild' = vforkChild
    BY <1>34 DEF StepFinish
  <2>1. CASE u = t
    BY <1>0, <1>34, <2>0, <2>a, <2>1
    DEF StepFinish, OwedOk, Vforking, VforkWaits, Ctl, ForkLabels, WaitLabels,
        ExitLabels
  <2>2. CASE u # t
    BY <1>0, <1>34, <2>0, <2>a, <2>2, OwedFrame DEF StepFinish
  <2> QED
    BY <2>1, <2>2
<1>35. ASSUME StepEvent(t)
      PROVE  \A d \in Procs, u \in Tasks : OwedOk(d, u)'
  <2> SUFFICES ASSUME NEW d \in Procs, NEW u \in Tasks
               PROVE  OwedOk(d, u)'
    OBVIOUS
  <2>0. /\ proc'[d].vforkParent = u => proc[d].vforkParent = u
        /\ proc[ProcOf[u]].zombie => proc'[ProcOf[u]].zombie
    BY <1>0, <1>35 DEF StepEvent
  <2>a. vforkChild' = vforkChild
    BY <1>35 DEF StepEvent
  <2>1. CASE u = t
    BY <1>0, <1>35, <2>0, <2>a, <2>1
    DEF StepEvent, OwedOk, Vforking, VforkWaits, Ctl, ForkLabels, WaitLabels, ExitLabels
  <2>2. CASE u # t
    BY <1>0, <1>35, <2>0, <2>a, <2>2, OwedFrame DEF StepEvent
  <2> QED
    BY <2>1, <2>2
<1>36. ASSUME StepCollect(t)
      PROVE  \A d \in Procs, u \in Tasks : OwedOk(d, u)'
  <2> SUFFICES ASSUME NEW d \in Procs, NEW u \in Tasks
               PROVE  OwedOk(d, u)'
    OBVIOUS
  <2>0. /\ proc'[d].vforkParent = u => proc[d].vforkParent = u
        /\ proc[ProcOf[u]].zombie => proc'[ProcOf[u]].zombie
    BY <1>0, <1>36 DEF StepCollect
  <2>a. vforkChild' = vforkChild
    BY <1>36 DEF StepCollect
  <2>1. CASE u = t
    BY <1>0, <1>36, <2>0, <2>a, <2>1
    DEF StepCollect, OwedOk, Vforking, VforkWaits, Ctl, ForkLabels, WaitLabels,
        ExitLabels
  <2>2. CASE u # t
    BY <1>0, <1>36, <2>0, <2>a, <2>2, OwedFrame DEF StepCollect
  <2> QED
    BY <2>1, <2>2
<1>37. ASSUME NEW w \in Tasks, StepWakeOne(t, w)
      PROVE  \A d \in Procs, u \in Tasks : OwedOk(d, u)'
  <2> SUFFICES ASSUME NEW d \in Procs, NEW u \in Tasks
               PROVE  OwedOk(d, u)'
    OBVIOUS
  <2>0. /\ proc'[d].vforkParent = u => proc[d].vforkParent = u
        /\ proc[ProcOf[u]].zombie => proc'[ProcOf[u]].zombie
    BY <1>0, <1>37 DEF StepWakeOne
  <2>a. vforkChild' = vforkChild
    BY <1>37 DEF StepWakeOne
  <2>1. CASE u = t
    BY <1>0, <1>37, <2>0, <2>a, <2>1
    DEF StepWakeOne, OwedOk, Vforking, VforkWaits, Ctl, ForkLabels, WaitLabels,
        ExitLabels
  <2>2. CASE u # t
    BY <1>0, <1>37, <2>0, <2>a, <2>2, OwedFrame DEF StepWakeOne
  <2> QED
    BY <2>1, <2>2
<1>38. ASSUME StepWakesDone(t)
      PROVE  \A d \in Procs, u \in Tasks : OwedOk(d, u)'
  <2> SUFFICES ASSUME NEW d \in Procs, NEW u \in Tasks
               PROVE  OwedOk(d, u)'
    OBVIOUS
  <2>0. /\ proc'[d].vforkParent = u => proc[d].vforkParent = u
        /\ proc[ProcOf[u]].zombie => proc'[ProcOf[u]].zombie
    BY <1>0, <1>38 DEF StepWakesDone
  <2>a. vforkChild' = vforkChild
    BY <1>38 DEF StepWakesDone
  <2>1. CASE u = t
    BY <1>0, <1>38, <2>0, <2>a, <2>1
    DEF StepWakesDone, OwedOk, Vforking, VforkWaits, Ctl, ForkLabels, WaitLabels,
        ExitLabels
  <2>2. CASE u # t
    BY <1>0, <1>38, <2>0, <2>a, <2>2, OwedFrame DEF StepWakesDone
  <2> QED
    BY <2>1, <2>2
<1> QED
  BY <1>1, <1>2, <1>3, <1>4, <1>5, <1>6, <1>7, <1>8, <1>9, <1>10, <1>11, <1>12, <1>13,
     <1>14, <1>15, <1>16, <1>17, <1>18, <1>19, <1>20, <1>21, <1>22, <1>23, <1>24, <1>25,
     <1>26, <1>27, <1>28, <1>29, <1>30, <1>31, <1>32, <1>33, <1>34, <1>35, <1>36, <1>37,
     <1>38
  DEF Step

\* A parent suspended in vfork does not return to user code before its child has called
\* exec or exited (wait_current_vfork): its vforkParent entry is cleared by then, unless the
\* process itself is being ended.
VforkSuspends ==
  \A t \in Tasks, c \in Procs :
    proc[c].vforkParent = t /\ pc[t] = "user" => proc[ProcOf[t]].zombie

\* The debts are kept in every behaviour,
LEMMA OwedInvariant == Spec => []OwedInv
<1>1. Init => OwedInv
  <2>1. ASSUME Init, NEW t \in Tasks
        PROVE  PaidOk(t) /\ \A c \in Procs : OwedOk(c, t)
    <3>1. /\ pc[t] \in {"user", "unborn"} /\ loc[t].why = "call"
          /\ \A c \in Procs : proc[c].vforkParent = Nobody
      BY <2>1, InitFacts DEF NoLocals
    <3> QED
      BY <3>1 DEF PaidOk, PastParent, OwedOk
  <2> QED
    BY <2>1 DEF OwedInv
<1>2. ASSUME OwedInv, LifeInv, [Next]_vars
      PROVE  OwedInv'
  <2>1. CASE UNCHANGED vars
    <3>1. proc' = proc /\ pc' = pc /\ loc' = loc /\ vforkChild' = vforkChild
      BY <2>1 DEF vars
    <3> QED
      BY <1>2, <3>1 DEF OwedInv, PaidOk, PastParent, OwedOk, Vforking, VforkWaits
  <2>2. ASSUME NEW t \in Tasks, Step(t)
        PROVE  OwedInv'
    BY <1>2, <2>2, PaidStep, OwedStep DEF OwedInv
  <2> QED
    BY <1>2, <2>1, <2>2, NextIsStep DEF LifeInv, ReapInv
<1> QED
  BY <1>1, <1>2, LifeInvariant, PTL DEF Spec

\* so the parent is not in user code.
LEMMA OwedImpliesVforkSuspends == OwedInv => VforkSuspends
BY DEF OwedInv, OwedOk, VforkSuspends, Vforking, VforkWaits

(* A thread that has called vfork does not run user code while the child      *)
(* still owes it the completion, exec or exit, unless its own process has     *)
(* been killed: whatever wakes it, it compares its vfork_child_pid again, and *)
(* only the child that takes the debt out of its PCB clears that.             *)
THEOREM VforkSuspendsParent == Spec => []VforkSuspends
BY OwedInvariant, OwedImpliesVforkSuspends, PTL

\* What the parent of a vfork may rely on as long as vfork_child_pid is
\* published before the child runs.
Making(t, c) ==
  pc[t] \in {"forkPush", "forkPublish"} /\ loc[t].why = "vfork" /\ loc[t].of = c

\* The child is not there for anybody yet.
MakingOk(t, c) ==
  Making(t, c) =>
    /\ proc[c].vforkParent = t /\ vforkChild[t] # c /\ pc[Leader[c]] = "nascent"
    /\ \A u \in ThreadsOf(c) \ {Leader[c]} : pc[u] = "unborn"

Awaits(t, c) ==
  /\ pc[t] \in VforkWaits /\ loc[t].why = "vfork" /\ loc[t].of = c
  /\ vforkChild[t] = c

Pays(u, t) == pc[u] = "vforkClear" /\ loc[u].vforkParent = t

AwaitsOk(t, c) ==
  Awaits(t, c) => proc[c].vforkParent = t \/ \E u \in ThreadsOf(c) : Pays(u, t)

\* A parent that was cleared in its sleep is going to be woken.
AsleepOk(t) ==
  pc[t] = "vforkAsleep" /\ vforkChild[t] # loc[t].of =>
    \E u \in Tasks : pc[u] = "vforkWake" /\ loc[u].vforkParent = t

ChildBorn(t) == \A c \in Procs : vforkChild[t] = c => proc[c].life # "unborn"

HandInv ==
  \A t \in Tasks : /\ ChildBorn(t) /\ AsleepOk(t)
                   /\ \A c \in Procs : MakingOk(t, c) /\ AwaitsOk(t, c)

\* vfork_child_pid names a process that has been made.
LEMMA ChildBornStep ==
  ASSUME LifeInv, HandInv, NEW t \in Tasks, Step(t)
  PROVE  \A u \in Tasks : ChildBorn(u)'
<1>0. /\ ProcOf[t] \in Procs /\ Ctl(t) /\ KnownOk(t) /\ \A u \in Tasks : ChildBorn(u)
  BY DEF LifeInv, ReapInv, ControlInv, KnownInv, HandInv
<1>a. ASSUME NEW u \in Tasks, \A p \in Procs : proc'[p].life = "unborn" => proc[p].life = "unborn",
             vforkChild'[u] \in {vforkChild[u], Nobody}
      PROVE  ChildBorn(u)'
  BY <1>0, <1>a DEF ChildBorn
<1>1. ASSUME StepReturn(t)
      PROVE  \A u \in Tasks : ChildBorn(u)'
  <2>1. \A p \in Procs : proc'[p].life = "unborn" => proc[p].life = "unborn"
    BY <1>0, <1>1 DEF StepReturn
  <2>2. \A u \in Tasks : vforkChild'[u] \in {vforkChild[u], Nobody}
    BY <1>0, <1>1 DEF StepReturn
  <2> QED
    BY <1>a, <2>1, <2>2
<1>2. ASSUME NEW c \in Procs, NEW v \in BOOLEAN, StepFork(t, c, v)
      PROVE  \A u \in Tasks : ChildBorn(u)'
  <2>1. \A p \in Procs : proc'[p].life = "unborn" => proc[p].life = "unborn"
    BY <1>0, <1>2 DEF StepFork
  <2>2. \A u \in Tasks : vforkChild'[u] \in {vforkChild[u], Nobody}
    BY <1>0, <1>2 DEF StepFork
  <2> QED
    BY <1>a, <2>1, <2>2
<1>3. ASSUME StepPush(t)
      PROVE  \A u \in Tasks : ChildBorn(u)'
  <2>1. \A p \in Procs : proc'[p].life = "unborn" => proc[p].life = "unborn"
    BY <1>0, <1>3 DEF StepPush
  <2>2. \A u \in Tasks : vforkChild'[u] \in {vforkChild[u], Nobody}
    BY <1>0, <1>3 DEF StepPush
  <2> QED
    BY <1>a, <2>1, <2>2
<1>4. ASSUME StepPublish(t)
      PROVE  \A u \in Tasks : ChildBorn(u)'
  <2>1. \A p \in Procs : proc'[p].life = "unborn" => proc[p].life = "unborn"
    BY <1>0, <1>4 DEF StepPublish
  <2>2. Known(loc[t].of) /\ proc' = proc
    BY <1>0, <1>4 DEF StepPublish, KnownOk, Ctl, ForkLabels
  <2>3. ChildBorn(t)'
    BY <1>4, <2>2 DEF StepPublish, ChildBorn, Known
  <2>4. \A u \in Tasks \ {t} : ChildBorn(u)'
    BY <1>a, <1>4, <2>1 DEF StepPublish
  <2> QED
    BY <2>3, <2>4
<1>5. ASSUME StepStart(t)
      PROVE  \A u \in Tasks : ChildBorn(u)'
  <2>1. \A p \in Procs : proc'[p].life = "unborn" => proc[p].life = "unborn"
    BY <1>0, <1>5 DEF StepStart
  <2>2. \A u \in Tasks : vforkChild'[u] \in {vforkChild[u], Nobody}
    BY <1>0, <1>5 DEF StepStart
  <2> QED
    BY <1>a, <2>1, <2>2
<1>6. ASSUME StepVforkBlock(t)
      PROVE  \A u \in Tasks : ChildBorn(u)'
  <2>1. \A p \in Procs : proc'[p].life = "unborn" => proc[p].life = "unborn"
    BY <1>0, <1>6 DEF StepVforkBlock
  <2>2. \A u \in Tasks : vforkChild'[u] \in {vforkChild[u], Nobody}
    BY <1>0, <1>6 DEF StepVforkBlock
  <2> QED
    BY <1>a, <2>1, <2>2
<1>7. ASSUME StepExec(t)
      PROVE  \A u \in Tasks : ChildBorn(u)'
  <2>1. \A p \in Procs : proc'[p].life = "unborn" => proc[p].life = "unborn"
    BY <1>0, <1>7 DEF StepExec
  <2>2. \A u \in Tasks : vforkChild'[u] \in {vforkChild[u], Nobody}
    BY <1>0, <1>7 DEF StepExec
  <2> QED
    BY <1>a, <2>1, <2>2
<1>8. ASSUME StepVforkClear(t)
      PROVE  \A u \in Tasks : ChildBorn(u)'
  <2>1. \A p \in Procs : proc'[p].life = "unborn" => proc[p].life = "unborn"
    BY <1>0, <1>8 DEF StepVforkClear
  <2>2. \A u \in Tasks : vforkChild'[u] \in {vforkChild[u], Nobody}
    BY <1>0, <1>8 DEF StepVforkClear
  <2> QED
    BY <1>a, <2>1, <2>2
<1>9. ASSUME StepVforkWake(t)
      PROVE  \A u \in Tasks : ChildBorn(u)'
  <2>1. \A p \in Procs : proc'[p].life = "unborn" => proc[p].life = "unborn"
    BY <1>0, <1>9 DEF StepVforkWake
  <2>2. \A u \in Tasks : vforkChild'[u] \in {vforkChild[u], Nobody}
    BY <1>0, <1>9 DEF StepVforkWake
  <2> QED
    BY <1>a, <2>1, <2>2
<1>10. ASSUME StepTake(t)
      PROVE  \A u \in Tasks : ChildBorn(u)'
  <2>1. \A p \in Procs : proc'[p].life = "unborn" => proc[p].life = "unborn"
    BY <1>0, <1>10 DEF StepTake
  <2>2. \A u \in Tasks : vforkChild'[u] \in {vforkChild[u], Nobody}
    BY <1>0, <1>10 DEF StepTake
  <2> QED
    BY <1>a, <2>1, <2>2
<1>11. ASSUME NEW c \in Procs, StepEach(t, c)
      PROVE  \A u \in Tasks : ChildBorn(u)'
  <2>1. \A p \in Procs : proc'[p].life = "unborn" => proc[p].life = "unborn"
    BY <1>0, <1>11 DEF StepEach
  <2>2. \A u \in Tasks : vforkChild'[u] \in {vforkChild[u], Nobody}
    BY <1>0, <1>11 DEF StepEach
  <2> QED
    BY <1>a, <2>1, <2>2
<1>12. ASSUME StepGive(t)
      PROVE  \A u \in Tasks : ChildBorn(u)'
  <2>1. \A p \in Procs : proc'[p].life = "unborn" => proc[p].life = "unborn"
    BY <1>0, <1>12 DEF StepGive
  <2>2. \A u \in Tasks : vforkChild'[u] \in {vforkChild[u], Nobody}
    BY <1>0, <1>12 DEF StepGive
  <2> QED
    BY <1>a, <2>1, <2>2
<1>13. ASSUME StepInitPublish(t)
      PROVE  \A u \in Tasks : ChildBorn(u)'
  <2>1. \A p \in Procs : proc'[p].life = "unborn" => proc[p].life = "unborn"
    BY <1>0, <1>13 DEF StepInitPublish
  <2>2. \A u \in Tasks : vforkChild'[u] \in {vforkChild[u], Nobody}
    BY <1>0, <1>13 DEF StepInitPublish
  <2> QED
    BY <1>a, <2>1, <2>2
<1>14. ASSUME NEW w \in SomeTask, StepInitWake(t, w)
      PROVE  \A u \in Tasks : ChildBorn(u)'
  <2>1. \A p \in Procs : proc'[p].life = "unborn" => proc[p].life = "unborn"
    BY <1>0, <1>14 DEF StepInitWake
  <2>2. \A u \in Tasks : vforkChild'[u] \in {vforkChild[u], Nobody}
    BY <1>0, <1>14 DEF StepInitWake
  <2> QED
    BY <1>a, <2>1, <2>2
<1>15. ASSUME StepWaitSeq(t)
      PROVE  \A u \in Tasks : ChildBorn(u)'
  <2>1. \A p \in Procs : proc'[p].life = "unborn" => proc[p].life = "unborn"
    BY <1>0, <1>15 DEF StepWaitSeq
  <2>2. \A u \in Tasks : vforkChild'[u] \in {vforkChild[u], Nobody}
    BY <1>0, <1>15 DEF StepWaitSeq
  <2> QED
    BY <1>a, <2>1, <2>2
<1>16. ASSUME StepWaitList(t)
      PROVE  \A u \in Tasks : ChildBorn(u)'
  <2>1. \A p \in Procs : proc'[p].life = "unborn" => proc[p].life = "unborn"
    BY <1>0, <1>16 DEF StepWaitList
  <2>2. \A u \in Tasks : vforkChild'[u] \in {vforkChild[u], Nobody}
    BY <1>0, <1>16 DEF StepWaitList
  <2> QED
    BY <1>a, <2>1, <2>2
<1>17. ASSUME NEW c \in Procs, StepFound(t, c)
      PROVE  \A u \in Tasks : ChildBorn(u)'
  <2>1. \A p \in Procs : proc'[p].life = "unborn" => proc[p].life = "unborn"
    BY <1>0, <1>17 DEF StepFound
  <2>2. \A u \in Tasks : vforkChild'[u] \in {vforkChild[u], Nobody}
    BY <1>0, <1>17 DEF StepFound
  <2> QED
    BY <1>a, <2>1, <2>2
<1>18. ASSUME NEW c \in Procs, StepPass(t, c)
      PROVE  \A u \in Tasks : ChildBorn(u)'
  <2>1. \A p \in Procs : proc'[p].life = "unborn" => proc[p].life = "unborn"
    BY <1>0, <1>18 DEF StepPass
  <2>2. \A u \in Tasks : vforkChild'[u] \in {vforkChild[u], Nobody}
    BY <1>0, <1>18 DEF StepPass
  <2> QED
    BY <1>a, <2>1, <2>2
<1>19. ASSUME StepAgain(t)
      PROVE  \A u \in Tasks : ChildBorn(u)'
  <2>1. \A p \in Procs : proc'[p].life = "unborn" => proc[p].life = "unborn"
    BY <1>0, <1>19 DEF StepAgain
  <2>2. \A u \in Tasks : vforkChild'[u] \in {vforkChild[u], Nobody}
    BY <1>0, <1>19 DEF StepAgain
  <2> QED
    BY <1>a, <2>1, <2>2
<1>20. ASSUME StepWaitBlock(t)
      PROVE  \A u \in Tasks : ChildBorn(u)'
  <2>1. \A p \in Procs : proc'[p].life = "unborn" => proc[p].life = "unborn"
    BY <1>0, <1>20 DEF StepWaitBlock
  <2>2. \A u \in Tasks : vforkChild'[u] \in {vforkChild[u], Nobody}
    BY <1>0, <1>20 DEF StepWaitBlock
  <2> QED
    BY <1>a, <2>1, <2>2
<1>21. ASSUME StepWin(t)
      PROVE  \A u \in Tasks : ChildBorn(u)'
  <2>1. \A p \in Procs : proc'[p].life = "unborn" => proc[p].life = "unborn"
    BY <1>0, <1>21 DEF StepWin
  <2>2. \A u \in Tasks : vforkChild'[u] \in {vforkChild[u], Nobody}
    BY <1>0, <1>21 DEF StepWin
  <2> QED
    BY <1>a, <2>1, <2>2
<1>22. ASSUME StepLose(t)
      PROVE  \A u \in Tasks : ChildBorn(u)'
  <2>1. \A p \in Procs : proc'[p].life = "unborn" => proc[p].life = "unborn"
    BY <1>0, <1>22 DEF StepLose
  <2>2. \A u \in Tasks : vforkChild'[u] \in {vforkChild[u], Nobody}
    BY <1>0, <1>22 DEF StepLose
  <2> QED
    BY <1>a, <2>1, <2>2
<1>23. ASSUME StepFree(t)
      PROVE  \A u \in Tasks : ChildBorn(u)'
  <2>1. \A p \in Procs : proc'[p].life = "unborn" => proc[p].life = "unborn"
    BY <1>0, <1>23 DEF StepFree
  <2>2. \A u \in Tasks : vforkChild'[u] \in {vforkChild[u], Nobody}
    BY <1>0, <1>23 DEF StepFree
  <2> QED
    BY <1>a, <2>1, <2>2
<1>24. ASSUME StepCount(t)
      PROVE  \A u \in Tasks : ChildBorn(u)'
  <2>1. \A p \in Procs : proc'[p].life = "unborn" => proc[p].life = "unborn"
    BY <1>0, <1>24 DEF StepCount
  <2>2. \A u \in Tasks : vforkChild'[u] \in {vforkChild[u], Nobody}
    BY <1>0, <1>24 DEF StepCount
  <2> QED
    BY <1>a, <2>1, <2>2
<1>25. ASSUME StepDetach(t)
      PROVE  \A u \in Tasks : ChildBorn(u)'
  <2>1. \A p \in Procs : proc'[p].life = "unborn" => proc[p].life = "unborn"
    BY <1>0, <1>25 DEF StepDetach
  <2>2. \A u \in Tasks : vforkChild'[u] \in {vforkChild[u], Nobody}
    BY <1>0, <1>25 DEF StepDetach
  <2> QED
    BY <1>a, <2>1, <2>2
<1>26. ASSUME StepParent(t)
      PROVE  \A u \in Tasks : ChildBorn(u)'
  <2>1. \A p \in Procs : proc'[p].life = "unborn" => proc[p].life = "unborn"
    BY <1>0, <1>26 DEF StepParent
  <2>2. \A u \in Tasks : vforkChild'[u] \in {vforkChild[u], Nobody}
    BY <1>0, <1>26 DEF StepParent
  <2> QED
    BY <1>a, <2>1, <2>2
<1>27. ASSUME StepDefer(t)
      PROVE  \A u \in Tasks : ChildBorn(u)'
  <2>1. \A p \in Procs : proc'[p].life = "unborn" => proc[p].life = "unborn"
    BY <1>0, <1>27 DEF StepDefer
  <2>2. \A u \in Tasks : vforkChild'[u] \in {vforkChild[u], Nobody}
    BY <1>0, <1>27 DEF StepDefer
  <2> QED
    BY <1>a, <2>1, <2>2
<1>28. ASSUME StepSwitch(t)
      PROVE  \A u \in Tasks : ChildBorn(u)'
  <2>1. \A p \in Procs : proc'[p].life = "unborn" => proc[p].life = "unborn"
    BY <1>0, <1>28 DEF StepSwitch
  <2>2. \A u \in Tasks : vforkChild'[u] \in {vforkChild[u], Nobody}
    BY <1>0, <1>28 DEF StepSwitch
  <2> QED
    BY <1>a, <2>1, <2>2
<1>29. ASSUME StepGroup(t)
      PROVE  \A u \in Tasks : ChildBorn(u)'
  <2>1. \A p \in Procs : proc'[p].life = "unborn" => proc[p].life = "unborn"
    BY <1>0, <1>29 DEF StepGroup
  <2>2. \A u \in Tasks : vforkChild'[u] \in {vforkChild[u], Nobody}
    BY <1>0, <1>29 DEF StepGroup
  <2> QED
    BY <1>a, <2>1, <2>2
<1>30. ASSUME NEW k \in Procs, StepKill(t, k)
      PROVE  \A u \in Tasks : ChildBorn(u)'
  <2>1. \A p \in Procs : proc'[p].life = "unborn" => proc[p].life = "unborn"
    BY <1>0, <1>30 DEF StepKill
  <2>2. \A u \in Tasks : vforkChild'[u] \in {vforkChild[u], Nobody}
    BY <1>0, <1>30 DEF StepKill
  <2> QED
    BY <1>a, <2>1, <2>2
<1>31. ASSUME NEW w \in Tasks, StepFlag(t, w)
      PROVE  \A u \in Tasks : ChildBorn(u)'
  <2>1. \A p \in Procs : proc'[p].life = "unborn" => proc[p].life = "unborn"
    BY <1>0, <1>31 DEF StepFlag
  <2>2. \A u \in Tasks : vforkChild'[u] \in {vforkChild[u], Nobody}
    BY <1>0, <1>31 DEF StepFlag
  <2> QED
    BY <1>a, <2>1, <2>2
<1>32. ASSUME NEW w \in Tasks, StepFlagOnly(t, w)
      PROVE  \A u \in Tasks : ChildBorn(u)'
  <2>1. \A p \in Procs : proc'[p].life = "unborn" => proc[p].life = "unborn"
    BY <1>0, <1>32 DEF StepFlagOnly
  <2>2. \A u \in Tasks : vforkChild'[u] \in {vforkChild[u], Nobody}
    BY <1>0, <1>32 DEF StepFlagOnly
  <2> QED
    BY <1>a, <2>1, <2>2
<1>33. ASSUME StepNotify(t)
      PROVE  \A u \in Tasks : ChildBorn(u)'
  <2>1. \A p \in Procs : proc'[p].life = "unborn" => proc[p].life = "unborn"
    BY <1>0, <1>33 DEF StepNotify
  <2>2. \A u \in Tasks : vforkChild'[u] \in {vforkChild[u], Nobody}
    BY <1>0, <1>33 DEF StepNotify
  <2> QED
    BY <1>a, <2>1, <2>2
<1>34. ASSUME StepFinish(t)
      PROVE  \A u \in Tasks : ChildBorn(u)'
  <2>1. \A p \in Procs : proc'[p].life = "unborn" => proc[p].life = "unborn"
    BY <1>0, <1>34 DEF StepFinish
  <2>2. \A u \in Tasks : vforkChild'[u] \in {vforkChild[u], Nobody}
    BY <1>0, <1>34 DEF StepFinish
  <2> QED
    BY <1>a, <2>1, <2>2
<1>35. ASSUME StepEvent(t)
      PROVE  \A u \in Tasks : ChildBorn(u)'
  <2>1. \A p \in Procs : proc'[p].life = "unborn" => proc[p].life = "unborn"
    BY <1>0, <1>35 DEF StepEvent
  <2>2. \A u \in Tasks : vforkChild'[u] \in {vforkChild[u], Nobody}
    BY <1>0, <1>35 DEF StepEvent
  <2> QED
    BY <1>a, <2>1, <2>2
<1>36. ASSUME StepCollect(t)
      PROVE  \A u \in Tasks : ChildBorn(u)'
  <2>1. \A p \in Procs : proc'[p].life = "unborn" => proc[p].life = "unborn"
    BY <1>0, <1>36 DEF StepCollect
  <2>2. \A u \in Tasks : vforkChild'[u] \in {vforkChild[u], Nobody}
    BY <1>0, <1>36 DEF StepCollect
  <2> QED
    BY <1>a, <2>1, <2>2
<1>37. ASSUME NEW w \in Tasks, StepWakeOne(t, w)
      PROVE  \A u \in Tasks : ChildBorn(u)'
  <2>1. \A p \in Procs : proc'[p].life = "unborn" => proc[p].life = "unborn"
    BY <1>0, <1>37 DEF StepWakeOne
  <2>2. \A u \in Tasks : vforkChild'[u] \in {vforkChild[u], Nobody}
    BY <1>0, <1>37 DEF StepWakeOne
  <2> QED
    BY <1>a, <2>1, <2>2
<1>38. ASSUME StepWakesDone(t)
      PROVE  \A u \in Tasks : ChildBorn(u)'
  <2>1. \A p \in Procs : proc'[p].life = "unborn" => proc[p].life = "unborn"
    BY <1>0, <1>38 DEF StepWakesDone
  <2>2. \A u \in Tasks : vforkChild'[u] \in {vforkChild[u], Nobody}
    BY <1>0, <1>38 DEF StepWakesDone
  <2> QED
    BY <1>a, <2>1, <2>2
<1> QED
  BY <1>1, <1>2, <1>3, <1>4, <1>5, <1>6, <1>7, <1>8, <1>9, <1>10, <1>11, <1>12, <1>13,
     <1>14, <1>15, <1>16, <1>17, <1>18, <1>19, <1>20, <1>21, <1>22, <1>23, <1>24, <1>25,
     <1>26, <1>27, <1>28, <1>29, <1>30, <1>31, <1>32, <1>33, <1>34, <1>35, <1>36, <1>37,
     <1>38
  DEF Step

\* Nobody can make the child runnable before its parent has published it.
LEMMA MakingFrame ==
  ASSUME NEW u \in Tasks, NEW c \in Procs, MakingOk(u, c), PublishedBeforeRunnable',
         Making(u, c)' => Making(u, c),
         proc[c].vforkParent = u => proc'[c].vforkParent = u,
         vforkChild'[u] = c => vforkChild[u] = c,
         \A w \in ThreadsOf(c) \ {Leader[c]} : pc[w] = "unborn" => pc'[w] = "unborn"
  PROVE  MakingOk(u, c)'
<1> SUFFICES ASSUME Making(u, c)'
             PROVE  /\ proc'[c].vforkParent = u /\ vforkChild'[u] # c /\ pc'[Leader[c]] = "nascent"
                    /\ \A w \in ThreadsOf(c)' \ {Leader[c]} : pc'[w] = "unborn"
  BY DEF MakingOk
<1>1. proc'[c].vforkParent = u /\ vforkChild'[u] # c
  BY DEF MakingOk
<1>2. pc'[Leader[c]] = "nascent"
  BY <1>1 DEF PublishedBeforeRunnable
<1> QED
  BY <1>1, <1>2 DEF MakingOk, ThreadsOf

\* The acting thread is not one of a child that is being made, and what it
\* reaps or forks is another process.
LEMMA MakingOther ==
  ASSUME LifeInv, HandInv, NEW u \in Tasks, NEW c \in Procs, Making(u, c), NEW t \in Tasks
  PROVE  /\ pc[t] \notin {"unborn", "nascent"} => ProcOf[t] # c
         /\ pc[t] = "waitFree" => loc[t].of # c
         /\ proc[c].life # "unborn"
<1>1. /\ pc[Leader[c]] = "nascent"
      /\ \A w \in ThreadsOf(c) \ {Leader[c]} : pc[w] = "unborn"
  BY DEF HandInv, MakingOk
<1>2. pc[t] \notin {"unborn", "nascent"} => ProcOf[t] # c
  BY <1>1 DEF ThreadsOf
<1>3. pc[t] = "waitFree" => loc[t].of # c
  BY <1>1, FreeOther DEF LifeInv, ReapInv, Settled, ThreadsOf
<1>4. proc[c].life # "unborn"
  BY <1>1 DEF LifeInv, ReapInv, ControlInv, CountOk, ThreadsOf
<1> QED
  BY <1>2, <1>3, <1>4

\* A child that its parent is still making runs nowhere, if it is published first.
LEMMA MakingStep ==
  ASSUME LifeInv, HandInv, NEW t \in Tasks, Step(t), PublishedBeforeRunnable'
  PROVE  \A d \in Procs, u \in Tasks : MakingOk(u, d)'
<1>0. /\ ProcOf[t] \in Procs /\ Ctl(t)
      /\ \A u \in Tasks : ChildBorn(u) /\ \A d \in Procs : MakingOk(u, d)
  BY DEF LifeInv, ReapInv, ControlInv, HandInv
<1>1. ASSUME StepReturn(t)
      PROVE  \A d \in Procs, u \in Tasks : MakingOk(u, d)'
  <2> SUFFICES ASSUME NEW d \in Procs, NEW u \in Tasks
               PROVE  MakingOk(u, d)'
    OBVIOUS
  <2>1. Making(u, d)' => Making(u, d)
    <3>1. CASE u = t
      BY <1>0, <1>1, <3>1
      DEF StepReturn, Making, Ctl, ForkLabels, WaitLabels, ExitLabels, AfterReturn
    <3>2. CASE u # t
      BY <1>1, <3>2 DEF StepReturn, Making
    <3> QED
      BY <3>1, <3>2
  <2>2. Making(u, d) /\ proc[d].vforkParent = u => proc'[d].vforkParent = u
    BY <1>0, <1>1 DEF StepReturn
  <2>3. vforkChild'[u] = d => vforkChild[u] = d
    BY <1>0, <1>1 DEF StepReturn
  <2>4. \A x \in ThreadsOf(d) : pc[x] = "unborn" => pc'[x] = "unborn"
    BY <1>0, <1>1 DEF StepReturn, ThreadsOf, Ctl
  <2>5. CASE Making(u, d)
    BY <1>0, <2>1, <2>2, <2>3, <2>4, <2>5, MakingFrame
  <2>6. CASE ~Making(u, d)
    BY <2>1, <2>6 DEF MakingOk
  <2> QED
    BY <2>5, <2>6
<1>2. ASSUME NEW c \in Procs, NEW v \in BOOLEAN, StepFork(t, c, v)
      PROVE  \A d \in Procs, u \in Tasks : MakingOk(u, d)'
  <2> SUFFICES ASSUME NEW d \in Procs, NEW u \in Tasks
               PROVE  MakingOk(u, d)'
    OBVIOUS
  <2>1. CASE d = c /\ u = t
    <3>1. vforkChild[t] # c
      BY <1>0, <1>2 DEF StepFork, ChildBorn
    <3>2. \A x \in ThreadsOf(c) : pc[x] = "unborn"
      BY <1>2 DEF StepFork, LifeInv, ReapInv, ControlInv, CountOk
    <3>3. v => proc'[c].vforkParent = t
      BY <1>2 DEF StepFork
    <3>4. ~v => loc'[t].why = "fork"
      BY <1>2 DEF StepFork
    <3>5. /\ vforkChild' = vforkChild /\ pc'[Leader[c]] = "nascent"
          /\ \A x \in ThreadsOf(c) \ {Leader[c]} : pc'[x] = pc[x]
      BY <1>2 DEF StepFork, ThreadsOf
    <3> QED
      BY <2>1, <3>1, <3>2, <3>3, <3>4, <3>5 DEF MakingOk, Making, ThreadsOf
  <2>2. CASE d # c /\ u = t
    <3>1. loc'[t].of = c
      BY <1>2 DEF StepFork
    <3> QED
      BY <2>2, <3>1 DEF MakingOk, Making
  <2>3. CASE u # t
    <3>1. Making(u, d)' => Making(u, d)
      <4>1. loc'[u] = loc[u] /\ (pc'[u] = pc[u] \/ pc'[u] = "nascent")
        BY <1>2, <2>3 DEF StepFork
      <4> QED
        BY <4>1 DEF Making
    <3>2. Making(u, d) => d # c
      BY <1>2, MakingOther DEF StepFork
    <3>3. d # c => proc'[d] = proc[d] /\ \A x \in ThreadsOf(d) : pc[x] = "unborn" => pc'[x] = "unborn"
      BY <1>2 DEF StepFork, ThreadsOf
    <3>4. vforkChild' = vforkChild
      BY <1>2 DEF StepFork
    <3>5. CASE d = c
      BY <3>1, <3>2, <3>5 DEF MakingOk
    <3>6. CASE d # c
      BY <1>0, <3>1, <3>3, <3>4, <3>6, MakingFrame
    <3> QED
      BY <3>5, <3>6
  <2> QED
    BY <2>1, <2>2, <2>3
<1>3. ASSUME StepPush(t)
      PROVE  \A d \in Procs, u \in Tasks : MakingOk(u, d)'
  <2> SUFFICES ASSUME NEW d \in Procs, NEW u \in Tasks
               PROVE  MakingOk(u, d)'
    OBVIOUS
  <2>1. Making(u, d)' => Making(u, d)
    <3>1. CASE u = t
      BY <1>0, <1>3, <3>1 DEF StepPush, Making, Ctl, ForkLabels, WaitLabels, ExitLabels
    <3>2. CASE u # t
      BY <1>3, <3>2 DEF StepPush, Making
    <3> QED
      BY <3>1, <3>2
  <2>2. Making(u, d) /\ proc[d].vforkParent = u => proc'[d].vforkParent = u
    BY <1>0, <1>3 DEF StepPush
  <2>3. vforkChild'[u] = d => vforkChild[u] = d
    BY <1>0, <1>3 DEF StepPush
  <2>4. \A x \in ThreadsOf(d) : pc[x] = "unborn" => pc'[x] = "unborn"
    BY <1>0, <1>3 DEF StepPush, ThreadsOf, Ctl
  <2>5. CASE Making(u, d)
    BY <1>0, <2>1, <2>2, <2>3, <2>4, <2>5, MakingFrame
  <2>6. CASE ~Making(u, d)
    BY <2>1, <2>6 DEF MakingOk
  <2> QED
    BY <2>5, <2>6
<1>4. ASSUME StepPublish(t)
      PROVE  \A d \in Procs, u \in Tasks : MakingOk(u, d)'
  <2> SUFFICES ASSUME NEW d \in Procs, NEW u \in Tasks
               PROVE  MakingOk(u, d)'
    OBVIOUS
  <2>1. CASE u = t
    BY <1>4, <2>1 DEF StepPublish, MakingOk, Making
  <2>2. CASE u # t
    <3>1. Making(u, d)' => Making(u, d)
      BY <1>4, <2>2 DEF StepPublish, Making
    <3>2. proc' = proc /\ vforkChild'[u] = vforkChild[u]
      BY <1>4, <2>2 DEF StepPublish
    <3>3. \A x \in ThreadsOf(d) : pc[x] = "unborn" => pc'[x] = "unborn"
      BY <1>4 DEF StepPublish, ThreadsOf
    <3> QED
      BY <1>0, <3>1, <3>2, <3>3, MakingFrame
  <2> QED
    BY <2>1, <2>2
<1>5. ASSUME StepStart(t)
      PROVE  \A d \in Procs, u \in Tasks : MakingOk(u, d)'
  <2> SUFFICES ASSUME NEW d \in Procs, NEW u \in Tasks
               PROVE  MakingOk(u, d)'
    OBVIOUS
  <2>1. Making(u, d)' => Making(u, d)
    <3>1. CASE u = t
      BY <1>0, <1>5, <3>1
      DEF StepStart, Making, Ctl, ForkLabels, WaitLabels, ExitLabels, AfterReturn
    <3>2. CASE u # t
      BY <1>5, <3>2 DEF StepStart, Making
    <3> QED
      BY <3>1, <3>2
  <2>2. Making(u, d) /\ proc[d].vforkParent = u => proc'[d].vforkParent = u
    BY <1>0, <1>5 DEF StepStart
  <2>3. vforkChild'[u] = d => vforkChild[u] = d
    BY <1>0, <1>5 DEF StepStart
  <2>4. \A x \in ThreadsOf(d) : pc[x] = "unborn" => pc'[x] = "unborn"
    BY <1>0, <1>5 DEF StepStart, ThreadsOf, Ctl
  <2>5. CASE Making(u, d)
    BY <1>0, <2>1, <2>2, <2>3, <2>4, <2>5, MakingFrame
  <2>6. CASE ~Making(u, d)
    BY <2>1, <2>6 DEF MakingOk
  <2> QED
    BY <2>5, <2>6
<1>6. ASSUME StepVforkBlock(t)
      PROVE  \A d \in Procs, u \in Tasks : MakingOk(u, d)'
  <2> SUFFICES ASSUME NEW d \in Procs, NEW u \in Tasks
               PROVE  MakingOk(u, d)'
    OBVIOUS
  <2>1. Making(u, d)' => Making(u, d)
    <3>1. CASE u = t
      BY <1>0, <1>6, <3>1
      DEF StepVforkBlock, Making, Ctl, ForkLabels, WaitLabels, ExitLabels
    <3>2. CASE u # t
      BY <1>6, <3>2 DEF StepVforkBlock, Making
    <3> QED
      BY <3>1, <3>2
  <2>2. Making(u, d) /\ proc[d].vforkParent = u => proc'[d].vforkParent = u
    BY <1>0, <1>6 DEF StepVforkBlock
  <2>3. vforkChild'[u] = d => vforkChild[u] = d
    BY <1>0, <1>6 DEF StepVforkBlock
  <2>4. \A x \in ThreadsOf(d) : pc[x] = "unborn" => pc'[x] = "unborn"
    BY <1>0, <1>6 DEF StepVforkBlock, ThreadsOf, Ctl
  <2>5. CASE Making(u, d)
    BY <1>0, <2>1, <2>2, <2>3, <2>4, <2>5, MakingFrame
  <2>6. CASE ~Making(u, d)
    BY <2>1, <2>6 DEF MakingOk
  <2> QED
    BY <2>5, <2>6
<1>7. ASSUME StepExec(t)
      PROVE  \A d \in Procs, u \in Tasks : MakingOk(u, d)'
  <2> SUFFICES ASSUME NEW d \in Procs, NEW u \in Tasks
               PROVE  MakingOk(u, d)'
    OBVIOUS
  <2>1. Making(u, d)' => Making(u, d)
    <3>1. CASE u = t
      BY <1>0, <1>7, <3>1
      DEF StepExec, Making, Ctl, ForkLabels, WaitLabels, ExitLabels, AfterReturn
    <3>2. CASE u # t
      BY <1>7, <3>2 DEF StepExec, Making
    <3> QED
      BY <3>1, <3>2
  <2>2. Making(u, d) /\ proc[d].vforkParent = u => proc'[d].vforkParent = u
    BY <1>0, <1>7, MakingOther DEF StepExec
  <2>3. vforkChild'[u] = d => vforkChild[u] = d
    BY <1>0, <1>7 DEF StepExec
  <2>4. \A x \in ThreadsOf(d) : pc[x] = "unborn" => pc'[x] = "unborn"
    BY <1>0, <1>7 DEF StepExec, ThreadsOf, Ctl
  <2>5. CASE Making(u, d)
    BY <1>0, <2>1, <2>2, <2>3, <2>4, <2>5, MakingFrame
  <2>6. CASE ~Making(u, d)
    BY <2>1, <2>6 DEF MakingOk
  <2> QED
    BY <2>5, <2>6
<1>8. ASSUME StepVforkClear(t)
      PROVE  \A d \in Procs, u \in Tasks : MakingOk(u, d)'
  <2> SUFFICES ASSUME NEW d \in Procs, NEW u \in Tasks
               PROVE  MakingOk(u, d)'
    OBVIOUS
  <2>1. Making(u, d)' => Making(u, d)
    <3>1. CASE u = t
      BY <1>0, <1>8, <3>1
      DEF StepVforkClear, Making, Ctl, ForkLabels, WaitLabels, ExitLabels, AfterVfork,
          AfterReturn
    <3>2. CASE u # t
      BY <1>8, <3>2 DEF StepVforkClear, Making
    <3> QED
      BY <3>1, <3>2
  <2>2. Making(u, d) /\ proc[d].vforkParent = u => proc'[d].vforkParent = u
    BY <1>0, <1>8 DEF StepVforkClear
  <2>3. vforkChild'[u] = d => vforkChild[u] = d
    BY <1>0, <1>8 DEF StepVforkClear
  <2>4. \A x \in ThreadsOf(d) : pc[x] = "unborn" => pc'[x] = "unborn"
    BY <1>0, <1>8 DEF StepVforkClear, ThreadsOf, Ctl
  <2>5. CASE Making(u, d)
    BY <1>0, <2>1, <2>2, <2>3, <2>4, <2>5, MakingFrame
  <2>6. CASE ~Making(u, d)
    BY <2>1, <2>6 DEF MakingOk
  <2> QED
    BY <2>5, <2>6
<1>9. ASSUME StepVforkWake(t)
      PROVE  \A d \in Procs, u \in Tasks : MakingOk(u, d)'
  <2> SUFFICES ASSUME NEW d \in Procs, NEW u \in Tasks
               PROVE  MakingOk(u, d)'
    OBVIOUS
  <2>1. Making(u, d)' => Making(u, d)
    <3>1. CASE u = t
      BY <1>0, <1>9, <3>1
      DEF StepVforkWake, Making, Ctl, ForkLabels, WaitLabels, ExitLabels, AfterVfork,
          AfterReturn
    <3>2. CASE u # t
      BY <1>9, <3>2 DEF StepVforkWake, Making
    <3> QED
      BY <3>1, <3>2
  <2>2. Making(u, d) /\ proc[d].vforkParent = u => proc'[d].vforkParent = u
    BY <1>0, <1>9 DEF StepVforkWake
  <2>3. vforkChild'[u] = d => vforkChild[u] = d
    BY <1>0, <1>9 DEF StepVforkWake
  <2>4. \A x \in ThreadsOf(d) : pc[x] = "unborn" => pc'[x] = "unborn"
    BY <1>0, <1>9 DEF StepVforkWake, ThreadsOf, Ctl
  <2>5. CASE Making(u, d)
    BY <1>0, <2>1, <2>2, <2>3, <2>4, <2>5, MakingFrame
  <2>6. CASE ~Making(u, d)
    BY <2>1, <2>6 DEF MakingOk
  <2> QED
    BY <2>5, <2>6
<1>10. ASSUME StepTake(t)
      PROVE  \A d \in Procs, u \in Tasks : MakingOk(u, d)'
  <2> SUFFICES ASSUME NEW d \in Procs, NEW u \in Tasks
               PROVE  MakingOk(u, d)'
    OBVIOUS
  <2>1. Making(u, d)' => Making(u, d)
    <3>1. CASE u = t
      BY <1>0, <1>10, <3>1 DEF StepTake, Making, Ctl, ForkLabels, WaitLabels, ExitLabels
    <3>2. CASE u # t
      BY <1>10, <3>2 DEF StepTake, Making
    <3> QED
      BY <3>1, <3>2
  <2>2. Making(u, d) /\ proc[d].vforkParent = u => proc'[d].vforkParent = u
    BY <1>0, <1>10 DEF StepTake
  <2>3. vforkChild'[u] = d => vforkChild[u] = d
    BY <1>0, <1>10 DEF StepTake
  <2>4. \A x \in ThreadsOf(d) : pc[x] = "unborn" => pc'[x] = "unborn"
    BY <1>0, <1>10 DEF StepTake, ThreadsOf, Ctl
  <2>5. CASE Making(u, d)
    BY <1>0, <2>1, <2>2, <2>3, <2>4, <2>5, MakingFrame
  <2>6. CASE ~Making(u, d)
    BY <2>1, <2>6 DEF MakingOk
  <2> QED
    BY <2>5, <2>6
<1>11. ASSUME NEW c \in Procs, StepEach(t, c)
      PROVE  \A d \in Procs, u \in Tasks : MakingOk(u, d)'
  <2> SUFFICES ASSUME NEW d \in Procs, NEW u \in Tasks
               PROVE  MakingOk(u, d)'
    OBVIOUS
  <2>1. Making(u, d)' => Making(u, d)
    <3>1. CASE u = t
      BY <1>0, <1>11, <3>1 DEF StepEach, Making, Ctl, ForkLabels, WaitLabels, ExitLabels
    <3>2. CASE u # t
      BY <1>11, <3>2 DEF StepEach, Making
    <3> QED
      BY <3>1, <3>2
  <2>2. Making(u, d) /\ proc[d].vforkParent = u => proc'[d].vforkParent = u
    BY <1>0, <1>11 DEF StepEach
  <2>3. vforkChild'[u] = d => vforkChild[u] = d
    BY <1>0, <1>11 DEF StepEach
  <2>4. \A x \in ThreadsOf(d) : pc[x] = "unborn" => pc'[x] = "unborn"
    BY <1>0, <1>11 DEF StepEach, ThreadsOf, Ctl
  <2>5. CASE Making(u, d)
    BY <1>0, <2>1, <2>2, <2>3, <2>4, <2>5, MakingFrame
  <2>6. CASE ~Making(u, d)
    BY <2>1, <2>6 DEF MakingOk
  <2> QED
    BY <2>5, <2>6
<1>12. ASSUME StepGive(t)
      PROVE  \A d \in Procs, u \in Tasks : MakingOk(u, d)'
  <2> SUFFICES ASSUME NEW d \in Procs, NEW u \in Tasks
               PROVE  MakingOk(u, d)'
    OBVIOUS
  <2>1. Making(u, d)' => Making(u, d)
    <3>1. CASE u = t
      BY <1>0, <1>12, <3>1
      DEF StepGive, Making, Ctl, ForkLabels, WaitLabels, ExitLabels, AfterReparent,
          AfterAdoption
    <3>2. CASE u # t
      BY <1>12, <3>2 DEF StepGive, Making
    <3> QED
      BY <3>1, <3>2
  <2>2. Making(u, d) /\ proc[d].vforkParent = u => proc'[d].vforkParent = u
    BY <1>0, <1>12 DEF StepGive
  <2>3. vforkChild'[u] = d => vforkChild[u] = d
    BY <1>0, <1>12 DEF StepGive
  <2>4. \A x \in ThreadsOf(d) : pc[x] = "unborn" => pc'[x] = "unborn"
    BY <1>0, <1>12 DEF StepGive, ThreadsOf, Ctl
  <2>5. CASE Making(u, d)
    BY <1>0, <2>1, <2>2, <2>3, <2>4, <2>5, MakingFrame
  <2>6. CASE ~Making(u, d)
    BY <2>1, <2>6 DEF MakingOk
  <2> QED
    BY <2>5, <2>6
<1>13. ASSUME StepInitPublish(t)
      PROVE  \A d \in Procs, u \in Tasks : MakingOk(u, d)'
  <2> SUFFICES ASSUME NEW d \in Procs, NEW u \in Tasks
               PROVE  MakingOk(u, d)'
    OBVIOUS
  <2>1. Making(u, d)' => Making(u, d)
    <3>1. CASE u = t
      BY <1>0, <1>13, <3>1
      DEF StepInitPublish, Making, Ctl, ForkLabels, WaitLabels, ExitLabels
    <3>2. CASE u # t
      BY <1>13, <3>2 DEF StepInitPublish, Making
    <3> QED
      BY <3>1, <3>2
  <2>2. Making(u, d) /\ proc[d].vforkParent = u => proc'[d].vforkParent = u
    BY <1>0, <1>13 DEF StepInitPublish
  <2>3. vforkChild'[u] = d => vforkChild[u] = d
    BY <1>0, <1>13 DEF StepInitPublish
  <2>4. \A x \in ThreadsOf(d) : pc[x] = "unborn" => pc'[x] = "unborn"
    BY <1>0, <1>13 DEF StepInitPublish, ThreadsOf, Ctl
  <2>5. CASE Making(u, d)
    BY <1>0, <2>1, <2>2, <2>3, <2>4, <2>5, MakingFrame
  <2>6. CASE ~Making(u, d)
    BY <2>1, <2>6 DEF MakingOk
  <2> QED
    BY <2>5, <2>6
<1>14. ASSUME NEW w \in SomeTask, StepInitWake(t, w)
      PROVE  \A d \in Procs, u \in Tasks : MakingOk(u, d)'
  <2> SUFFICES ASSUME NEW d \in Procs, NEW u \in Tasks
               PROVE  MakingOk(u, d)'
    OBVIOUS
  <2>1. Making(u, d)' => Making(u, d)
    <3>1. CASE u = t
      BY <1>0, <1>14, <3>1
      DEF StepInitWake, Making, Ctl, ForkLabels, WaitLabels, ExitLabels, AfterAdoption,
          Asleep, SomeTask
    <3>2. CASE u # t
      BY <1>14, <3>2 DEF StepInitWake, Making, SomeTask
    <3> QED
      BY <3>1, <3>2
  <2>2. Making(u, d) /\ proc[d].vforkParent = u => proc'[d].vforkParent = u
    BY <1>0, <1>14 DEF StepInitWake
  <2>3. vforkChild'[u] = d => vforkChild[u] = d
    BY <1>0, <1>14 DEF StepInitWake
  <2>4. \A x \in ThreadsOf(d) : pc[x] = "unborn" => pc'[x] = "unborn"
    BY <1>0, <1>14 DEF StepInitWake, ThreadsOf, Ctl, SomeTask
  <2>5. CASE Making(u, d)
    BY <1>0, <2>1, <2>2, <2>3, <2>4, <2>5, MakingFrame
  <2>6. CASE ~Making(u, d)
    BY <2>1, <2>6 DEF MakingOk
  <2> QED
    BY <2>5, <2>6
<1>15. ASSUME StepWaitSeq(t)
      PROVE  \A d \in Procs, u \in Tasks : MakingOk(u, d)'
  <2> SUFFICES ASSUME NEW d \in Procs, NEW u \in Tasks
               PROVE  MakingOk(u, d)'
    OBVIOUS
  <2>1. Making(u, d)' => Making(u, d)
    <3>1. CASE u = t
      BY <1>0, <1>15, <3>1 DEF StepWaitSeq, Making, Ctl, ForkLabels, WaitLabels, ExitLabels
    <3>2. CASE u # t
      BY <1>15, <3>2 DEF StepWaitSeq, Making
    <3> QED
      BY <3>1, <3>2
  <2>2. Making(u, d) /\ proc[d].vforkParent = u => proc'[d].vforkParent = u
    BY <1>0, <1>15 DEF StepWaitSeq
  <2>3. vforkChild'[u] = d => vforkChild[u] = d
    BY <1>0, <1>15 DEF StepWaitSeq
  <2>4. \A x \in ThreadsOf(d) : pc[x] = "unborn" => pc'[x] = "unborn"
    BY <1>0, <1>15 DEF StepWaitSeq, ThreadsOf, Ctl
  <2>5. CASE Making(u, d)
    BY <1>0, <2>1, <2>2, <2>3, <2>4, <2>5, MakingFrame
  <2>6. CASE ~Making(u, d)
    BY <2>1, <2>6 DEF MakingOk
  <2> QED
    BY <2>5, <2>6
<1>16. ASSUME StepWaitList(t)
      PROVE  \A d \in Procs, u \in Tasks : MakingOk(u, d)'
  <2> SUFFICES ASSUME NEW d \in Procs, NEW u \in Tasks
               PROVE  MakingOk(u, d)'
    OBVIOUS
  <2>1. Making(u, d)' => Making(u, d)
    <3>1. CASE u = t
      BY <1>0, <1>16, <3>1 DEF StepWaitList, Making, Ctl, ForkLabels, WaitLabels, ExitLabels
    <3>2. CASE u # t
      BY <1>16, <3>2 DEF StepWaitList, Making
    <3> QED
      BY <3>1, <3>2
  <2>2. Making(u, d) /\ proc[d].vforkParent = u => proc'[d].vforkParent = u
    BY <1>0, <1>16 DEF StepWaitList
  <2>3. vforkChild'[u] = d => vforkChild[u] = d
    BY <1>0, <1>16 DEF StepWaitList
  <2>4. \A x \in ThreadsOf(d) : pc[x] = "unborn" => pc'[x] = "unborn"
    BY <1>0, <1>16 DEF StepWaitList, ThreadsOf, Ctl
  <2>5. CASE Making(u, d)
    BY <1>0, <2>1, <2>2, <2>3, <2>4, <2>5, MakingFrame
  <2>6. CASE ~Making(u, d)
    BY <2>1, <2>6 DEF MakingOk
  <2> QED
    BY <2>5, <2>6
<1>17. ASSUME NEW c \in Procs, StepFound(t, c)
      PROVE  \A d \in Procs, u \in Tasks : MakingOk(u, d)'
  <2> SUFFICES ASSUME NEW d \in Procs, NEW u \in Tasks
               PROVE  MakingOk(u, d)'
    OBVIOUS
  <2>1. Making(u, d)' => Making(u, d)
    <3>1. CASE u = t
      BY <1>0, <1>17, <3>1 DEF StepFound, Making, Ctl, ForkLabels, WaitLabels, ExitLabels
    <3>2. CASE u # t
      BY <1>17, <3>2 DEF StepFound, Making
    <3> QED
      BY <3>1, <3>2
  <2>2. Making(u, d) /\ proc[d].vforkParent = u => proc'[d].vforkParent = u
    BY <1>0, <1>17 DEF StepFound
  <2>3. vforkChild'[u] = d => vforkChild[u] = d
    BY <1>0, <1>17 DEF StepFound
  <2>4. \A x \in ThreadsOf(d) : pc[x] = "unborn" => pc'[x] = "unborn"
    BY <1>0, <1>17 DEF StepFound, ThreadsOf, Ctl
  <2>5. CASE Making(u, d)
    BY <1>0, <2>1, <2>2, <2>3, <2>4, <2>5, MakingFrame
  <2>6. CASE ~Making(u, d)
    BY <2>1, <2>6 DEF MakingOk
  <2> QED
    BY <2>5, <2>6
<1>18. ASSUME NEW c \in Procs, StepPass(t, c)
      PROVE  \A d \in Procs, u \in Tasks : MakingOk(u, d)'
  <2> SUFFICES ASSUME NEW d \in Procs, NEW u \in Tasks
               PROVE  MakingOk(u, d)'
    OBVIOUS
  <2>1. Making(u, d)' => Making(u, d)
    <3>1. CASE u = t
      BY <1>0, <1>18, <3>1 DEF StepPass, Making, Ctl, ForkLabels, WaitLabels, ExitLabels
    <3>2. CASE u # t
      BY <1>18, <3>2 DEF StepPass, Making
    <3> QED
      BY <3>1, <3>2
  <2>2. Making(u, d) /\ proc[d].vforkParent = u => proc'[d].vforkParent = u
    BY <1>0, <1>18 DEF StepPass
  <2>3. vforkChild'[u] = d => vforkChild[u] = d
    BY <1>0, <1>18 DEF StepPass
  <2>4. \A x \in ThreadsOf(d) : pc[x] = "unborn" => pc'[x] = "unborn"
    BY <1>0, <1>18 DEF StepPass, ThreadsOf, Ctl
  <2>5. CASE Making(u, d)
    BY <1>0, <2>1, <2>2, <2>3, <2>4, <2>5, MakingFrame
  <2>6. CASE ~Making(u, d)
    BY <2>1, <2>6 DEF MakingOk
  <2> QED
    BY <2>5, <2>6
<1>19. ASSUME StepAgain(t)
      PROVE  \A d \in Procs, u \in Tasks : MakingOk(u, d)'
  <2> SUFFICES ASSUME NEW d \in Procs, NEW u \in Tasks
               PROVE  MakingOk(u, d)'
    OBVIOUS
  <2>1. Making(u, d)' => Making(u, d)
    <3>1. CASE u = t
      BY <1>0, <1>19, <3>1 DEF StepAgain, Making, Ctl, ForkLabels, WaitLabels, ExitLabels
    <3>2. CASE u # t
      BY <1>19, <3>2 DEF StepAgain, Making
    <3> QED
      BY <3>1, <3>2
  <2>2. Making(u, d) /\ proc[d].vforkParent = u => proc'[d].vforkParent = u
    BY <1>0, <1>19 DEF StepAgain
  <2>3. vforkChild'[u] = d => vforkChild[u] = d
    BY <1>0, <1>19 DEF StepAgain
  <2>4. \A x \in ThreadsOf(d) : pc[x] = "unborn" => pc'[x] = "unborn"
    BY <1>0, <1>19 DEF StepAgain, ThreadsOf, Ctl
  <2>5. CASE Making(u, d)
    BY <1>0, <2>1, <2>2, <2>3, <2>4, <2>5, MakingFrame
  <2>6. CASE ~Making(u, d)
    BY <2>1, <2>6 DEF MakingOk
  <2> QED
    BY <2>5, <2>6
<1>20. ASSUME StepWaitBlock(t)
      PROVE  \A d \in Procs, u \in Tasks : MakingOk(u, d)'
  <2> SUFFICES ASSUME NEW d \in Procs, NEW u \in Tasks
               PROVE  MakingOk(u, d)'
    OBVIOUS
  <2>1. Making(u, d)' => Making(u, d)
    <3>1. CASE u = t
      BY <1>0, <1>20, <3>1
      DEF StepWaitBlock, Making, Ctl, ForkLabels, WaitLabels, ExitLabels
    <3>2. CASE u # t
      BY <1>20, <3>2 DEF StepWaitBlock, Making
    <3> QED
      BY <3>1, <3>2
  <2>2. Making(u, d) /\ proc[d].vforkParent = u => proc'[d].vforkParent = u
    BY <1>0, <1>20 DEF StepWaitBlock
  <2>3. vforkChild'[u] = d => vforkChild[u] = d
    BY <1>0, <1>20 DEF StepWaitBlock
  <2>4. \A x \in ThreadsOf(d) : pc[x] = "unborn" => pc'[x] = "unborn"
    BY <1>0, <1>20 DEF StepWaitBlock, ThreadsOf, Ctl
  <2>5. CASE Making(u, d)
    BY <1>0, <2>1, <2>2, <2>3, <2>4, <2>5, MakingFrame
  <2>6. CASE ~Making(u, d)
    BY <2>1, <2>6 DEF MakingOk
  <2> QED
    BY <2>5, <2>6
<1>21. ASSUME StepWin(t)
      PROVE  \A d \in Procs, u \in Tasks : MakingOk(u, d)'
  <2> SUFFICES ASSUME NEW d \in Procs, NEW u \in Tasks
               PROVE  MakingOk(u, d)'
    OBVIOUS
  <2>1. Making(u, d)' => Making(u, d)
    <3>1. CASE u = t
      BY <1>0, <1>21, <3>1 DEF StepWin, Making, Ctl, ForkLabels, WaitLabels, ExitLabels
    <3>2. CASE u # t
      BY <1>21, <3>2 DEF StepWin, Making
    <3> QED
      BY <3>1, <3>2
  <2>2. Making(u, d) /\ proc[d].vforkParent = u => proc'[d].vforkParent = u
    BY <1>0, <1>21 DEF StepWin
  <2>3. vforkChild'[u] = d => vforkChild[u] = d
    BY <1>0, <1>21 DEF StepWin
  <2>4. \A x \in ThreadsOf(d) : pc[x] = "unborn" => pc'[x] = "unborn"
    BY <1>0, <1>21 DEF StepWin, ThreadsOf, Ctl
  <2>5. CASE Making(u, d)
    BY <1>0, <2>1, <2>2, <2>3, <2>4, <2>5, MakingFrame
  <2>6. CASE ~Making(u, d)
    BY <2>1, <2>6 DEF MakingOk
  <2> QED
    BY <2>5, <2>6
<1>22. ASSUME StepLose(t)
      PROVE  \A d \in Procs, u \in Tasks : MakingOk(u, d)'
  <2> SUFFICES ASSUME NEW d \in Procs, NEW u \in Tasks
               PROVE  MakingOk(u, d)'
    OBVIOUS
  <2>1. Making(u, d)' => Making(u, d)
    <3>1. CASE u = t
      BY <1>0, <1>22, <3>1 DEF StepLose, Making, Ctl, ForkLabels, WaitLabels, ExitLabels
    <3>2. CASE u # t
      BY <1>22, <3>2 DEF StepLose, Making
    <3> QED
      BY <3>1, <3>2
  <2>2. Making(u, d) /\ proc[d].vforkParent = u => proc'[d].vforkParent = u
    BY <1>0, <1>22 DEF StepLose
  <2>3. vforkChild'[u] = d => vforkChild[u] = d
    BY <1>0, <1>22 DEF StepLose
  <2>4. \A x \in ThreadsOf(d) : pc[x] = "unborn" => pc'[x] = "unborn"
    BY <1>0, <1>22 DEF StepLose, ThreadsOf, Ctl
  <2>5. CASE Making(u, d)
    BY <1>0, <2>1, <2>2, <2>3, <2>4, <2>5, MakingFrame
  <2>6. CASE ~Making(u, d)
    BY <2>1, <2>6 DEF MakingOk
  <2> QED
    BY <2>5, <2>6
<1>23. ASSUME StepFree(t)
      PROVE  \A d \in Procs, u \in Tasks : MakingOk(u, d)'
  <2> SUFFICES ASSUME NEW d \in Procs, NEW u \in Tasks
               PROVE  MakingOk(u, d)'
    OBVIOUS
  <2>1. Making(u, d)' => Making(u, d)
    <3>1. CASE u = t
      BY <1>0, <1>23, <3>1
      DEF StepFree, Making, Ctl, ForkLabels, WaitLabels, ExitLabels, AfterReturn
    <3>2. CASE u # t
      BY <1>23, <3>2 DEF StepFree, Making
    <3> QED
      BY <3>1, <3>2
  <2>2. Making(u, d) /\ proc[d].vforkParent = u => proc'[d].vforkParent = u
    BY <1>0, <1>23, MakingOther DEF StepFree
  <2>3. vforkChild'[u] = d => vforkChild[u] = d
    BY <1>0, <1>23 DEF StepFree
  <2>4. \A x \in ThreadsOf(d) : pc[x] = "unborn" => pc'[x] = "unborn"
    BY <1>0, <1>23 DEF StepFree, ThreadsOf, Ctl
  <2>5. CASE Making(u, d)
    BY <1>0, <2>1, <2>2, <2>3, <2>4, <2>5, MakingFrame
  <2>6. CASE ~Making(u, d)
    BY <2>1, <2>6 DEF MakingOk
  <2> QED
    BY <2>5, <2>6
<1>24. ASSUME StepCount(t)
      PROVE  \A d \in Procs, u \in Tasks : MakingOk(u, d)'
  <2> SUFFICES ASSUME NEW d \in Procs, NEW u \in Tasks
               PROVE  MakingOk(u, d)'
    OBVIOUS
  <2>1. Making(u, d)' => Making(u, d)
    <3>1. CASE u = t
      BY <1>0, <1>24, <3>1 DEF StepCount, Making, Ctl, ForkLabels, WaitLabels, ExitLabels
    <3>2. CASE u # t
      BY <1>24, <3>2 DEF StepCount, Making
    <3> QED
      BY <3>1, <3>2
  <2>2. Making(u, d) /\ proc[d].vforkParent = u => proc'[d].vforkParent = u
    BY <1>0, <1>24 DEF StepCount
  <2>3. vforkChild'[u] = d => vforkChild[u] = d
    BY <1>0, <1>24 DEF StepCount
  <2>4. \A x \in ThreadsOf(d) : pc[x] = "unborn" => pc'[x] = "unborn"
    BY <1>0, <1>24 DEF StepCount, ThreadsOf, Ctl
  <2>5. CASE Making(u, d)
    BY <1>0, <2>1, <2>2, <2>3, <2>4, <2>5, MakingFrame
  <2>6. CASE ~Making(u, d)
    BY <2>1, <2>6 DEF MakingOk
  <2> QED
    BY <2>5, <2>6
<1>25. ASSUME StepDetach(t)
      PROVE  \A d \in Procs, u \in Tasks : MakingOk(u, d)'
  <2> SUFFICES ASSUME NEW d \in Procs, NEW u \in Tasks
               PROVE  MakingOk(u, d)'
    OBVIOUS
  <2>1. Making(u, d)' => Making(u, d)
    <3>1. CASE u = t
      BY <1>0, <1>25, <3>1 DEF StepDetach, Making, Ctl, ForkLabels, WaitLabels, ExitLabels
    <3>2. CASE u # t
      BY <1>25, <3>2 DEF StepDetach, Making
    <3> QED
      BY <3>1, <3>2
  <2>2. Making(u, d) /\ proc[d].vforkParent = u => proc'[d].vforkParent = u
    BY <1>0, <1>25 DEF StepDetach
  <2>3. vforkChild'[u] = d => vforkChild[u] = d
    BY <1>0, <1>25 DEF StepDetach
  <2>4. \A x \in ThreadsOf(d) : pc[x] = "unborn" => pc'[x] = "unborn"
    BY <1>0, <1>25 DEF StepDetach, ThreadsOf, Ctl
  <2>5. CASE Making(u, d)
    BY <1>0, <2>1, <2>2, <2>3, <2>4, <2>5, MakingFrame
  <2>6. CASE ~Making(u, d)
    BY <2>1, <2>6 DEF MakingOk
  <2> QED
    BY <2>5, <2>6
<1>26. ASSUME StepParent(t)
      PROVE  \A d \in Procs, u \in Tasks : MakingOk(u, d)'
  <2> SUFFICES ASSUME NEW d \in Procs, NEW u \in Tasks
               PROVE  MakingOk(u, d)'
    OBVIOUS
  <2>1. Making(u, d)' => Making(u, d)
    <3>1. CASE u = t
      BY <1>0, <1>26, <3>1 DEF StepParent, Making, Ctl, ForkLabels, WaitLabels, ExitLabels
    <3>2. CASE u # t
      BY <1>26, <3>2 DEF StepParent, Making
    <3> QED
      BY <3>1, <3>2
  <2>2. Making(u, d) /\ proc[d].vforkParent = u => proc'[d].vforkParent = u
    BY <1>0, <1>26, MakingOther DEF StepParent
  <2>3. vforkChild'[u] = d => vforkChild[u] = d
    BY <1>0, <1>26 DEF StepParent
  <2>4. \A x \in ThreadsOf(d) : pc[x] = "unborn" => pc'[x] = "unborn"
    BY <1>0, <1>26 DEF StepParent, ThreadsOf, Ctl
  <2>5. CASE Making(u, d)
    BY <1>0, <2>1, <2>2, <2>3, <2>4, <2>5, MakingFrame
  <2>6. CASE ~Making(u, d)
    BY <2>1, <2>6 DEF MakingOk
  <2> QED
    BY <2>5, <2>6
<1>27. ASSUME StepDefer(t)
      PROVE  \A d \in Procs, u \in Tasks : MakingOk(u, d)'
  <2> SUFFICES ASSUME NEW d \in Procs, NEW u \in Tasks
               PROVE  MakingOk(u, d)'
    OBVIOUS
  <2>1. Making(u, d)' => Making(u, d)
    <3>1. CASE u = t
      BY <1>0, <1>27, <3>1 DEF StepDefer, Making, Ctl, ForkLabels, WaitLabels, ExitLabels
    <3>2. CASE u # t
      BY <1>27, <3>2 DEF StepDefer, Making
    <3> QED
      BY <3>1, <3>2
  <2>2. Making(u, d) /\ proc[d].vforkParent = u => proc'[d].vforkParent = u
    BY <1>0, <1>27 DEF StepDefer
  <2>3. vforkChild'[u] = d => vforkChild[u] = d
    BY <1>0, <1>27 DEF StepDefer
  <2>4. \A x \in ThreadsOf(d) : pc[x] = "unborn" => pc'[x] = "unborn"
    BY <1>0, <1>27 DEF StepDefer, ThreadsOf, Ctl
  <2>5. CASE Making(u, d)
    BY <1>0, <2>1, <2>2, <2>3, <2>4, <2>5, MakingFrame
  <2>6. CASE ~Making(u, d)
    BY <2>1, <2>6 DEF MakingOk
  <2> QED
    BY <2>5, <2>6
<1>28. ASSUME StepSwitch(t)
      PROVE  \A d \in Procs, u \in Tasks : MakingOk(u, d)'
  <2> SUFFICES ASSUME NEW d \in Procs, NEW u \in Tasks
               PROVE  MakingOk(u, d)'
    OBVIOUS
  <2>1. Making(u, d)' => Making(u, d)
    <3>1. CASE u = t
      BY <1>0, <1>28, <3>1 DEF StepSwitch, Making, Ctl, ForkLabels, WaitLabels, ExitLabels
    <3>2. CASE u # t
      BY <1>28, <3>2 DEF StepSwitch, Making
    <3> QED
      BY <3>1, <3>2
  <2>2. Making(u, d) /\ proc[d].vforkParent = u => proc'[d].vforkParent = u
    BY <1>0, <1>28 DEF StepSwitch
  <2>3. vforkChild'[u] = d => vforkChild[u] = d
    BY <1>0, <1>28 DEF StepSwitch
  <2>4. \A x \in ThreadsOf(d) : pc[x] = "unborn" => pc'[x] = "unborn"
    BY <1>0, <1>28 DEF StepSwitch, ThreadsOf, Ctl
  <2>5. CASE Making(u, d)
    BY <1>0, <2>1, <2>2, <2>3, <2>4, <2>5, MakingFrame
  <2>6. CASE ~Making(u, d)
    BY <2>1, <2>6 DEF MakingOk
  <2> QED
    BY <2>5, <2>6
<1>29. ASSUME StepGroup(t)
      PROVE  \A d \in Procs, u \in Tasks : MakingOk(u, d)'
  <2> SUFFICES ASSUME NEW d \in Procs, NEW u \in Tasks
               PROVE  MakingOk(u, d)'
    OBVIOUS
  <2>1. Making(u, d)' => Making(u, d)
    <3>1. CASE u = t
      BY <1>0, <1>29, <3>1 DEF StepGroup, Making, Ctl, ForkLabels, WaitLabels, ExitLabels
    <3>2. CASE u # t
      BY <1>29, <3>2 DEF StepGroup, Making
    <3> QED
      BY <3>1, <3>2
  <2>2. Making(u, d) /\ proc[d].vforkParent = u => proc'[d].vforkParent = u
    BY <1>0, <1>29 DEF StepGroup
  <2>3. vforkChild'[u] = d => vforkChild[u] = d
    BY <1>0, <1>29 DEF StepGroup
  <2>4. \A x \in ThreadsOf(d) : pc[x] = "unborn" => pc'[x] = "unborn"
    BY <1>0, <1>29 DEF StepGroup, ThreadsOf, Ctl
  <2>5. CASE Making(u, d)
    BY <1>0, <2>1, <2>2, <2>3, <2>4, <2>5, MakingFrame
  <2>6. CASE ~Making(u, d)
    BY <2>1, <2>6 DEF MakingOk
  <2> QED
    BY <2>5, <2>6
<1>30. ASSUME NEW k \in Procs, StepKill(t, k)
      PROVE  \A d \in Procs, u \in Tasks : MakingOk(u, d)'
  <2> SUFFICES ASSUME NEW d \in Procs, NEW u \in Tasks
               PROVE  MakingOk(u, d)'
    OBVIOUS
  <2>1. Making(u, d)' => Making(u, d)
    <3>1. CASE u = t
      BY <1>0, <1>30, <3>1 DEF StepKill, Making, Ctl, ForkLabels, WaitLabels, ExitLabels
    <3>2. CASE u # t
      BY <1>30, <3>2 DEF StepKill, Making
    <3> QED
      BY <3>1, <3>2
  <2>2. Making(u, d) /\ proc[d].vforkParent = u => proc'[d].vforkParent = u
    BY <1>0, <1>30 DEF StepKill
  <2>3. vforkChild'[u] = d => vforkChild[u] = d
    BY <1>0, <1>30 DEF StepKill
  <2>4. \A x \in ThreadsOf(d) : pc[x] = "unborn" => pc'[x] = "unborn"
    BY <1>0, <1>30 DEF StepKill, ThreadsOf, Ctl
  <2>5. CASE Making(u, d)
    BY <1>0, <2>1, <2>2, <2>3, <2>4, <2>5, MakingFrame
  <2>6. CASE ~Making(u, d)
    BY <2>1, <2>6 DEF MakingOk
  <2> QED
    BY <2>5, <2>6
<1>31. ASSUME NEW w \in Tasks, StepFlag(t, w)
      PROVE  \A d \in Procs, u \in Tasks : MakingOk(u, d)'
  <2> SUFFICES ASSUME NEW d \in Procs, NEW u \in Tasks
               PROVE  MakingOk(u, d)'
    OBVIOUS
  <2>1. Making(u, d)' => Making(u, d)
    <3>1. CASE u = t
      BY <1>0, <1>31, <3>1 DEF StepFlag, Making, Ctl, ForkLabels, WaitLabels, ExitLabels
    <3>2. CASE u # t
      BY <1>31, <3>2 DEF StepFlag, Making
    <3> QED
      BY <3>1, <3>2
  <2>2. Making(u, d) /\ proc[d].vforkParent = u => proc'[d].vforkParent = u
    BY <1>0, <1>31 DEF StepFlag
  <2>3. vforkChild'[u] = d => vforkChild[u] = d
    BY <1>0, <1>31 DEF StepFlag
  <2>4. \A x \in ThreadsOf(d) : pc[x] = "unborn" => pc'[x] = "unborn"
    BY <1>0, <1>31 DEF StepFlag, ThreadsOf, Ctl
  <2>5. CASE Making(u, d)
    BY <1>0, <2>1, <2>2, <2>3, <2>4, <2>5, MakingFrame
  <2>6. CASE ~Making(u, d)
    BY <2>1, <2>6 DEF MakingOk
  <2> QED
    BY <2>5, <2>6
<1>32. ASSUME NEW w \in Tasks, StepFlagOnly(t, w)
      PROVE  \A d \in Procs, u \in Tasks : MakingOk(u, d)'
  <2> SUFFICES ASSUME NEW d \in Procs, NEW u \in Tasks
               PROVE  MakingOk(u, d)'
    OBVIOUS
  <2>1. Making(u, d)' => Making(u, d)
    <3>1. CASE u = t
      BY <1>0, <1>32, <3>1 DEF StepFlagOnly, Making, Ctl, ForkLabels, WaitLabels, ExitLabels
    <3>2. CASE u # t
      BY <1>32, <3>2 DEF StepFlagOnly, Making
    <3> QED
      BY <3>1, <3>2
  <2>2. Making(u, d) /\ proc[d].vforkParent = u => proc'[d].vforkParent = u
    BY <1>0, <1>32 DEF StepFlagOnly
  <2>3. vforkChild'[u] = d => vforkChild[u] = d
    BY <1>0, <1>32 DEF StepFlagOnly
  <2>4. \A x \in ThreadsOf(d) : pc[x] = "unborn" => pc'[x] = "unborn"
    BY <1>0, <1>32 DEF StepFlagOnly, ThreadsOf, Ctl
  <2>5. CASE Making(u, d)
    BY <1>0, <2>1, <2>2, <2>3, <2>4, <2>5, MakingFrame
  <2>6. CASE ~Making(u, d)
    BY <2>1, <2>6 DEF MakingOk
  <2> QED
    BY <2>5, <2>6
<1>33. ASSUME StepNotify(t)
      PROVE  \A d \in Procs, u \in Tasks : MakingOk(u, d)'
  <2> SUFFICES ASSUME NEW d \in Procs, NEW u \in Tasks
               PROVE  MakingOk(u, d)'
    OBVIOUS
  <2>1. Making(u, d)' => Making(u, d)
    <3>1. CASE u = t
      BY <1>0, <1>33, <3>1 DEF StepNotify, Making, Ctl, ForkLabels, WaitLabels, ExitLabels
    <3>2. CASE u # t
      BY <1>33, <3>2 DEF StepNotify, Making
    <3> QED
      BY <3>1, <3>2
  <2>2. Making(u, d) /\ proc[d].vforkParent = u => proc'[d].vforkParent = u
    BY <1>0, <1>33 DEF StepNotify
  <2>3. vforkChild'[u] = d => vforkChild[u] = d
    BY <1>0, <1>33 DEF StepNotify
  <2>4. \A x \in ThreadsOf(d) : pc[x] = "unborn" => pc'[x] = "unborn"
    BY <1>0, <1>33 DEF StepNotify, ThreadsOf, Ctl
  <2>5. CASE Making(u, d)
    BY <1>0, <2>1, <2>2, <2>3, <2>4, <2>5, MakingFrame
  <2>6. CASE ~Making(u, d)
    BY <2>1, <2>6 DEF MakingOk
  <2> QED
    BY <2>5, <2>6
<1>34. ASSUME StepFinish(t)
      PROVE  \A d \in Procs, u \in Tasks : MakingOk(u, d)'
  <2> SUFFICES ASSUME NEW d \in Procs, NEW u \in Tasks
               PROVE  MakingOk(u, d)'
    OBVIOUS
  <2>1. Making(u, d)' => Making(u, d)
    <3>1. CASE u = t
      BY <1>0, <1>34, <3>1 DEF StepFinish, Making, Ctl, ForkLabels, WaitLabels, ExitLabels
    <3>2. CASE u # t
      BY <1>34, <3>2 DEF StepFinish, Making
    <3> QED
      BY <3>1, <3>2
  <2>2. Making(u, d) /\ proc[d].vforkParent = u => proc'[d].vforkParent = u
    BY <1>0, <1>34 DEF StepFinish
  <2>3. vforkChild'[u] = d => vforkChild[u] = d
    BY <1>0, <1>34 DEF StepFinish
  <2>4. \A x \in ThreadsOf(d) : pc[x] = "unborn" => pc'[x] = "unborn"
    BY <1>0, <1>34 DEF StepFinish, ThreadsOf, Ctl
  <2>5. CASE Making(u, d)
    BY <1>0, <2>1, <2>2, <2>3, <2>4, <2>5, MakingFrame
  <2>6. CASE ~Making(u, d)
    BY <2>1, <2>6 DEF MakingOk
  <2> QED
    BY <2>5, <2>6
<1>35. ASSUME StepEvent(t)
      PROVE  \A d \in Procs, u \in Tasks : MakingOk(u, d)'
  <2> SUFFICES ASSUME NEW d \in Procs, NEW u \in Tasks
               PROVE  MakingOk(u, d)'
    OBVIOUS
  <2>1. Making(u, d)' => Making(u, d)
    <3>1. CASE u = t
      BY <1>0, <1>35, <3>1 DEF StepEvent, Making, Ctl, ForkLabels, WaitLabels, ExitLabels
    <3>2. CASE u # t
      BY <1>35, <3>2 DEF StepEvent, Making
    <3> QED
      BY <3>1, <3>2
  <2>2. Making(u, d) /\ proc[d].vforkParent = u => proc'[d].vforkParent = u
    BY <1>0, <1>35 DEF StepEvent
  <2>3. vforkChild'[u] = d => vforkChild[u] = d
    BY <1>0, <1>35 DEF StepEvent
  <2>4. \A x \in ThreadsOf(d) : pc[x] = "unborn" => pc'[x] = "unborn"
    BY <1>0, <1>35 DEF StepEvent, ThreadsOf, Ctl
  <2>5. CASE Making(u, d)
    BY <1>0, <2>1, <2>2, <2>3, <2>4, <2>5, MakingFrame
  <2>6. CASE ~Making(u, d)
    BY <2>1, <2>6 DEF MakingOk
  <2> QED
    BY <2>5, <2>6
<1>36. ASSUME StepCollect(t)
      PROVE  \A d \in Procs, u \in Tasks : MakingOk(u, d)'
  <2> SUFFICES ASSUME NEW d \in Procs, NEW u \in Tasks
               PROVE  MakingOk(u, d)'
    OBVIOUS
  <2>1. Making(u, d)' => Making(u, d)
    <3>1. CASE u = t
      BY <1>0, <1>36, <3>1 DEF StepCollect, Making, Ctl, ForkLabels, WaitLabels, ExitLabels
    <3>2. CASE u # t
      BY <1>36, <3>2 DEF StepCollect, Making
    <3> QED
      BY <3>1, <3>2
  <2>2. Making(u, d) /\ proc[d].vforkParent = u => proc'[d].vforkParent = u
    BY <1>0, <1>36 DEF StepCollect
  <2>3. vforkChild'[u] = d => vforkChild[u] = d
    BY <1>0, <1>36 DEF StepCollect
  <2>4. \A x \in ThreadsOf(d) : pc[x] = "unborn" => pc'[x] = "unborn"
    BY <1>0, <1>36 DEF StepCollect, ThreadsOf, Ctl
  <2>5. CASE Making(u, d)
    BY <1>0, <2>1, <2>2, <2>3, <2>4, <2>5, MakingFrame
  <2>6. CASE ~Making(u, d)
    BY <2>1, <2>6 DEF MakingOk
  <2> QED
    BY <2>5, <2>6
<1>37. ASSUME NEW w \in Tasks, StepWakeOne(t, w)
      PROVE  \A d \in Procs, u \in Tasks : MakingOk(u, d)'
  <2> SUFFICES ASSUME NEW d \in Procs, NEW u \in Tasks
               PROVE  MakingOk(u, d)'
    OBVIOUS
  <2>1. Making(u, d)' => Making(u, d)
    <3>1. CASE u = t
      BY <1>0, <1>37, <3>1 DEF StepWakeOne, Making, Ctl, ForkLabels, WaitLabels, ExitLabels
    <3>2. CASE u # t
      BY <1>37, <3>2 DEF StepWakeOne, Making
    <3> QED
      BY <3>1, <3>2
  <2>2. Making(u, d) /\ proc[d].vforkParent = u => proc'[d].vforkParent = u
    BY <1>0, <1>37 DEF StepWakeOne
  <2>3. vforkChild'[u] = d => vforkChild[u] = d
    BY <1>0, <1>37 DEF StepWakeOne
  <2>4. \A x \in ThreadsOf(d) : pc[x] = "unborn" => pc'[x] = "unborn"
    BY <1>0, <1>37 DEF StepWakeOne, ThreadsOf, Ctl
  <2>5. CASE Making(u, d)
    BY <1>0, <2>1, <2>2, <2>3, <2>4, <2>5, MakingFrame
  <2>6. CASE ~Making(u, d)
    BY <2>1, <2>6 DEF MakingOk
  <2> QED
    BY <2>5, <2>6
<1>38. ASSUME StepWakesDone(t)
      PROVE  \A d \in Procs, u \in Tasks : MakingOk(u, d)'
  <2> SUFFICES ASSUME NEW d \in Procs, NEW u \in Tasks
               PROVE  MakingOk(u, d)'
    OBVIOUS
  <2>1. Making(u, d)' => Making(u, d)
    <3>1. CASE u = t
      BY <1>0, <1>38, <3>1
      DEF StepWakesDone, Making, Ctl, ForkLabels, WaitLabels, ExitLabels
    <3>2. CASE u # t
      BY <1>38, <3>2 DEF StepWakesDone, Making
    <3> QED
      BY <3>1, <3>2
  <2>2. Making(u, d) /\ proc[d].vforkParent = u => proc'[d].vforkParent = u
    BY <1>0, <1>38 DEF StepWakesDone
  <2>3. vforkChild'[u] = d => vforkChild[u] = d
    BY <1>0, <1>38 DEF StepWakesDone
  <2>4. \A x \in ThreadsOf(d) : pc[x] = "unborn" => pc'[x] = "unborn"
    BY <1>0, <1>38 DEF StepWakesDone, ThreadsOf, Ctl
  <2>5. CASE Making(u, d)
    BY <1>0, <2>1, <2>2, <2>3, <2>4, <2>5, MakingFrame
  <2>6. CASE ~Making(u, d)
    BY <2>1, <2>6 DEF MakingOk
  <2> QED
    BY <2>5, <2>6
<1> QED
  BY <1>1, <1>2, <1>3, <1>4, <1>5, <1>6, <1>7, <1>8, <1>9, <1>10, <1>11, <1>12, <1>13,
     <1>14, <1>15, <1>16, <1>17, <1>18, <1>19, <1>20, <1>21, <1>22, <1>23, <1>24, <1>25,
     <1>26, <1>27, <1>28, <1>29, <1>30, <1>31, <1>32, <1>33, <1>34, <1>35, <1>36, <1>37,
     <1>38
  DEF Step

\* A parent that waits keeps its debtor, or the thread that is clearing the debt.
LEMMA AwaitsFrame ==
  ASSUME NEW u \in Tasks, NEW c \in Procs, AwaitsOk(u, c), Awaits(u, c)' => Awaits(u, c),
         Awaits(u, c) /\ proc[c].vforkParent = u => proc'[c].vforkParent = u,
         \A w \in ThreadsOf(c) : Pays(w, u) => Pays(w, u)'
  PROVE  AwaitsOk(u, c)'
BY DEF AwaitsOk, ThreadsOf

\* Whoever is reaped has paid.
LEMMA FreedHasPaid ==
  ASSUME LifeInv, OwedInv, HandInv, NEW t \in Tasks, pc[t] = "waitFree", NEW u \in Tasks
  PROVE  ~Awaits(u, loc[t].of)
<1> DEFINE c == loc[t].of
<1>0. ControlInv /\ c \in Procs /\ Settled(c)
  BY FreeOther DEF LifeInv, ReapInv
<1> HIDE DEF c
<1>1. \A w \in ThreadsOf(c) : ~Pays(w, u)
  BY <1>0 DEF Settled, Pays
<1>2. LiveThreads(c) = {}
  BY <1>0 DEF LiveThreads, Settled, ThreadsOf, ControlInv, Ctl, ExitLabels
<1>3. proc[c].alive = 0
  BY <1>0, <1>2, FS_EmptySet DEF ControlInv, CountOk
<1>4. proc[c].life # "unborn"
  <2>1. Reaps(t, c)
    BY DEF c, Reaps, LifeInv, ReapInv, ControlInv, Ctl
  <2> QED
    BY <1>0, <2>1 DEF LifeInv, ReapInv, CustodyInv, Custody
<1>5. PICK w \in ThreadsOf(c) : IsLast(w)
  BY <1>0, <1>3, <1>4 DEF LifeInv, FamilyInv, LastExists
<1>6. w \in Tasks /\ ProcOf[w] = c /\ PastParent(w) /\ loc[w].last
  BY <1>0, <1>5 DEF ThreadsOf, Settled, IsLast, PastParent, ControlInv, Ctl
<1>7. proc[c].vforkParent = Nobody
  BY <1>6 DEF OwedInv, PaidOk
<1>8. AwaitsOk(u, c)
  BY <1>0 DEF HandInv
<1>9. ~Awaits(u, c)
  BY <1>1, <1>7, <1>8 DEF AwaitsOk
<1> QED
  BY <1>9 DEF c

\* Every step leaves a waiting parent its debtor or the thread that clears it.
LEMMA AwaitsStep ==
  ASSUME LifeInv, OwedInv, HandInv, NEW t \in Tasks, Step(t)
  PROVE  \A d \in Procs, u \in Tasks : AwaitsOk(u, d)'
<1>0. /\ ProcOf[t] \in Procs /\ Ctl(t)
      /\ \A u \in Tasks : ChildBorn(u) /\ \A d \in Procs : AwaitsOk(u, d) /\ MakingOk(u, d)
  BY DEF LifeInv, ReapInv, ControlInv, HandInv
<1>1. ASSUME StepReturn(t)
      PROVE  \A d \in Procs, u \in Tasks : AwaitsOk(u, d)'
  <2> SUFFICES ASSUME NEW d \in Procs, NEW u \in Tasks
               PROVE  AwaitsOk(u, d)'
    OBVIOUS
  <2>1. Awaits(u, d)' => Awaits(u, d)
    <3>1. CASE u = t
      BY <1>0, <1>1, <3>1
      DEF StepReturn, Awaits, VforkWaits, Ctl, ForkLabels, WaitLabels, ExitLabels,
          AfterReturn
    <3>2. CASE u # t
      BY <1>0, <1>1, <3>2 DEF StepReturn, Awaits, VforkWaits, Ctl
    <3> QED
      BY <3>1, <3>2
  <2>3. proc[d].vforkParent = u => proc'[d].vforkParent = u
    BY <1>0, <1>1 DEF StepReturn
  <2>4. \A x \in ThreadsOf(d) : Pays(x, u) => Pays(x, u)'
    BY <1>0, <1>1 DEF StepReturn, Pays, ThreadsOf, Ctl
  <2> QED
    BY <1>0, <2>1, <2>3, <2>4, AwaitsFrame
<1>2. ASSUME NEW c \in Procs, NEW v \in BOOLEAN, StepFork(t, c, v)
      PROVE  \A d \in Procs, u \in Tasks : AwaitsOk(u, d)'
  <2> SUFFICES ASSUME NEW d \in Procs, NEW u \in Tasks
               PROVE  AwaitsOk(u, d)'
    OBVIOUS
  <2>1. Awaits(u, d)' => u # t /\ Awaits(u, d)
    <3>1. u = t => ~Awaits(u, d)'
      BY <1>2 DEF StepFork, Awaits, VforkWaits
    <3>2. u # t => loc'[u] = loc[u] /\ vforkChild' = vforkChild /\ (pc'[u] = pc[u] \/ pc'[u] = "nascent")
      BY <1>2 DEF StepFork
    <3> QED
      BY <3>1, <3>2 DEF Awaits, VforkWaits
  <2>2. Awaits(u, d) => d # c
    BY <1>0, <1>2 DEF StepFork, Awaits, ChildBorn
  <2>3. d # c => proc'[d] = proc[d] /\ \A x \in ThreadsOf(d) : Pays(x, u) => Pays(x, u)'
    BY <1>2 DEF StepFork, Pays, ThreadsOf
  <2>4. CASE Awaits(u, d)'
    BY <1>0, <2>1, <2>2, <2>3, <2>4, AwaitsFrame
  <2>5. CASE ~Awaits(u, d)'
    BY <2>5 DEF AwaitsOk
  <2> QED
    BY <2>4, <2>5
<1>3. ASSUME StepPush(t)
      PROVE  \A d \in Procs, u \in Tasks : AwaitsOk(u, d)'
  <2> SUFFICES ASSUME NEW d \in Procs, NEW u \in Tasks
               PROVE  AwaitsOk(u, d)'
    OBVIOUS
  <2>1. Awaits(u, d)' => Awaits(u, d)
    <3>1. CASE u = t
      BY <1>0, <1>3, <3>1
      DEF StepPush, Awaits, VforkWaits, Ctl, ForkLabels, WaitLabels, ExitLabels
    <3>2. CASE u # t
      BY <1>0, <1>3, <3>2 DEF StepPush, Awaits, VforkWaits, Ctl
    <3> QED
      BY <3>1, <3>2
  <2>3. proc[d].vforkParent = u => proc'[d].vforkParent = u
    BY <1>0, <1>3 DEF StepPush
  <2>4. \A x \in ThreadsOf(d) : Pays(x, u) => Pays(x, u)'
    BY <1>0, <1>3 DEF StepPush, Pays, ThreadsOf, Ctl
  <2> QED
    BY <1>0, <2>1, <2>3, <2>4, AwaitsFrame
<1>4. ASSUME StepPublish(t)
      PROVE  \A d \in Procs, u \in Tasks : AwaitsOk(u, d)'
  <2> SUFFICES ASSUME NEW d \in Procs, NEW u \in Tasks
               PROVE  AwaitsOk(u, d)'
    OBVIOUS
  <2>1. CASE u = t
    <3>1. proc' = proc /\ loc' = loc /\ loc[t].why = "vfork" /\ pc[t] = "forkPublish"
      BY <1>0, <1>4 DEF StepPublish, Ctl
    <3>2. loc[t].of = d => proc[d].vforkParent = t
      BY <1>0, <3>1 DEF MakingOk, Making
    <3> QED
      BY <2>1, <3>1, <3>2 DEF AwaitsOk, Awaits
  <2>2. CASE u # t
    <3>1. Awaits(u, d)' => Awaits(u, d)
      BY <1>4, <2>2 DEF StepPublish, Awaits
    <3>2. proc' = proc /\ \A x \in ThreadsOf(d) : Pays(x, u) => Pays(x, u)'
      BY <1>4 DEF StepPublish, Pays, ThreadsOf
    <3> QED
      BY <1>0, <3>1, <3>2, AwaitsFrame
  <2> QED
    BY <2>1, <2>2
<1>5. ASSUME StepStart(t)
      PROVE  \A d \in Procs, u \in Tasks : AwaitsOk(u, d)'
  <2> SUFFICES ASSUME NEW d \in Procs, NEW u \in Tasks
               PROVE  AwaitsOk(u, d)'
    OBVIOUS
  <2>1. Awaits(u, d)' => Awaits(u, d)
    <3>1. CASE u = t
      BY <1>0, <1>5, <3>1
      DEF StepStart, Awaits, VforkWaits, Ctl, ForkLabels, WaitLabels, ExitLabels,
          AfterReturn
    <3>2. CASE u # t
      BY <1>0, <1>5, <3>2 DEF StepStart, Awaits, VforkWaits, Ctl
    <3> QED
      BY <3>1, <3>2
  <2>3. proc[d].vforkParent = u => proc'[d].vforkParent = u
    BY <1>0, <1>5 DEF StepStart
  <2>4. \A x \in ThreadsOf(d) : Pays(x, u) => Pays(x, u)'
    BY <1>0, <1>5 DEF StepStart, Pays, ThreadsOf, Ctl
  <2> QED
    BY <1>0, <2>1, <2>3, <2>4, AwaitsFrame
<1>6. ASSUME StepVforkBlock(t)
      PROVE  \A d \in Procs, u \in Tasks : AwaitsOk(u, d)'
  <2> SUFFICES ASSUME NEW d \in Procs, NEW u \in Tasks
               PROVE  AwaitsOk(u, d)'
    OBVIOUS
  <2>1. Awaits(u, d)' => Awaits(u, d)
    <3>1. CASE u = t
      BY <1>0, <1>6, <3>1
      DEF StepVforkBlock, Awaits, VforkWaits, Ctl, ForkLabels, WaitLabels, ExitLabels
    <3>2. CASE u # t
      BY <1>0, <1>6, <3>2 DEF StepVforkBlock, Awaits, VforkWaits, Ctl
    <3> QED
      BY <3>1, <3>2
  <2>3. proc[d].vforkParent = u => proc'[d].vforkParent = u
    BY <1>0, <1>6 DEF StepVforkBlock
  <2>4. \A x \in ThreadsOf(d) : Pays(x, u) => Pays(x, u)'
    BY <1>0, <1>6 DEF StepVforkBlock, Pays, ThreadsOf, Ctl
  <2> QED
    BY <1>0, <2>1, <2>3, <2>4, AwaitsFrame
<1>7. ASSUME StepExec(t)
      PROVE  \A d \in Procs, u \in Tasks : AwaitsOk(u, d)'
  <2> SUFFICES ASSUME NEW d \in Procs, NEW u \in Tasks
               PROVE  AwaitsOk(u, d)'
    OBVIOUS
  <2>1. Awaits(u, d)' => Awaits(u, d)
    <3>1. CASE u = t
      BY <1>0, <1>7, <3>1
      DEF StepExec, Awaits, VforkWaits, Ctl, ForkLabels, WaitLabels, ExitLabels,
          AfterReturn
    <3>2. CASE u # t
      BY <1>0, <1>7, <3>2 DEF StepExec, Awaits, VforkWaits, Ctl
    <3> QED
      BY <3>1, <3>2
  <2>2. CASE d = ProcOf[t] /\ proc[d].vforkParent = u
    <3>1. Pays(t, u)' /\ t \in ThreadsOf(d)
      BY <1>0, <1>7, <2>2 DEF StepExec, Pays, ThreadsOf
    <3> QED
      BY <3>1 DEF AwaitsOk, ThreadsOf
  <2>3. CASE ~(d = ProcOf[t] /\ proc[d].vforkParent = u)
    <3>1. proc[d].vforkParent = u => proc'[d].vforkParent = u
      BY <1>0, <1>7, <2>3 DEF StepExec
    <3>2. \A x \in ThreadsOf(d) : Pays(x, u) => Pays(x, u)'
      BY <1>7 DEF StepExec, Pays, ThreadsOf
    <3> QED
      BY <1>0, <2>1, <3>1, <3>2, AwaitsFrame
  <2> QED
    BY <2>2, <2>3
<1>8. ASSUME StepVforkClear(t)
      PROVE  \A d \in Procs, u \in Tasks : AwaitsOk(u, d)'
  <2> SUFFICES ASSUME NEW d \in Procs, NEW u \in Tasks
               PROVE  AwaitsOk(u, d)'
    OBVIOUS
  <2>1. Awaits(u, d)' => Awaits(u, d)
    <3>1. CASE u = t
      BY <1>0, <1>8, <3>1
      DEF StepVforkClear, Awaits, VforkWaits, Ctl, ForkLabels, WaitLabels, ExitLabels,
          AfterVfork, AfterReturn
    <3>2. CASE u # t
      <4>1. vforkChild'[u] \in {vforkChild[u], Nobody} /\ pc'[u] = pc[u] /\ loc'[u] = loc[u]
        BY <1>8, <3>2 DEF StepVforkClear
      <4> QED
        BY <4>1 DEF Awaits
    <3> QED
      BY <3>1, <3>2
  <2>2. proc' = proc
    BY <1>8 DEF StepVforkClear
  <2>3. ASSUME Awaits(u, d)', NEW x \in ThreadsOf(d), Pays(x, u)
        PROVE  Pays(x, u)'
    <3>1. x # t
      BY <1>0, <1>8, <2>3 DEF StepVforkClear, Pays, Awaits, ThreadsOf
    <3> QED
      BY <1>8, <2>3, <3>1 DEF StepVforkClear, Pays, ThreadsOf
  <2>4. CASE Awaits(u, d)'
    BY <1>0, <2>1, <2>2, <2>3, <2>4, AwaitsFrame
  <2>5. CASE ~Awaits(u, d)'
    BY <2>5 DEF AwaitsOk
  <2> QED
    BY <2>4, <2>5
<1>9. ASSUME StepVforkWake(t)
      PROVE  \A d \in Procs, u \in Tasks : AwaitsOk(u, d)'
  <2> SUFFICES ASSUME NEW d \in Procs, NEW u \in Tasks
               PROVE  AwaitsOk(u, d)'
    OBVIOUS
  <2>1. Awaits(u, d)' => Awaits(u, d)
    <3>1. CASE u = t
      BY <1>0, <1>9, <3>1
      DEF StepVforkWake, Awaits, VforkWaits, Ctl, ForkLabels, WaitLabels, ExitLabels,
          AfterVfork, AfterReturn
    <3>2. CASE u # t
      BY <1>0, <1>9, <3>2 DEF StepVforkWake, Awaits, VforkWaits, Ctl
    <3> QED
      BY <3>1, <3>2
  <2>3. proc[d].vforkParent = u => proc'[d].vforkParent = u
    BY <1>0, <1>9 DEF StepVforkWake
  <2>4. \A x \in ThreadsOf(d) : Pays(x, u) => Pays(x, u)'
    BY <1>0, <1>9 DEF StepVforkWake, Pays, ThreadsOf, Ctl
  <2> QED
    BY <1>0, <2>1, <2>3, <2>4, AwaitsFrame
<1>10. ASSUME StepTake(t)
      PROVE  \A d \in Procs, u \in Tasks : AwaitsOk(u, d)'
  <2> SUFFICES ASSUME NEW d \in Procs, NEW u \in Tasks
               PROVE  AwaitsOk(u, d)'
    OBVIOUS
  <2>1. Awaits(u, d)' => Awaits(u, d)
    <3>1. CASE u = t
      BY <1>0, <1>10, <3>1
      DEF StepTake, Awaits, VforkWaits, Ctl, ForkLabels, WaitLabels, ExitLabels
    <3>2. CASE u # t
      BY <1>0, <1>10, <3>2 DEF StepTake, Awaits, VforkWaits, Ctl
    <3> QED
      BY <3>1, <3>2
  <2>3. proc[d].vforkParent = u => proc'[d].vforkParent = u
    BY <1>0, <1>10 DEF StepTake
  <2>4. \A x \in ThreadsOf(d) : Pays(x, u) => Pays(x, u)'
    BY <1>0, <1>10 DEF StepTake, Pays, ThreadsOf, Ctl
  <2> QED
    BY <1>0, <2>1, <2>3, <2>4, AwaitsFrame
<1>11. ASSUME NEW c \in Procs, StepEach(t, c)
      PROVE  \A d \in Procs, u \in Tasks : AwaitsOk(u, d)'
  <2> SUFFICES ASSUME NEW d \in Procs, NEW u \in Tasks
               PROVE  AwaitsOk(u, d)'
    OBVIOUS
  <2>1. Awaits(u, d)' => Awaits(u, d)
    <3>1. CASE u = t
      BY <1>0, <1>11, <3>1
      DEF StepEach, Awaits, VforkWaits, Ctl, ForkLabels, WaitLabels, ExitLabels
    <3>2. CASE u # t
      BY <1>0, <1>11, <3>2 DEF StepEach, Awaits, VforkWaits, Ctl
    <3> QED
      BY <3>1, <3>2
  <2>3. proc[d].vforkParent = u => proc'[d].vforkParent = u
    BY <1>0, <1>11 DEF StepEach
  <2>4. \A x \in ThreadsOf(d) : Pays(x, u) => Pays(x, u)'
    BY <1>0, <1>11 DEF StepEach, Pays, ThreadsOf, Ctl
  <2> QED
    BY <1>0, <2>1, <2>3, <2>4, AwaitsFrame
<1>12. ASSUME StepGive(t)
      PROVE  \A d \in Procs, u \in Tasks : AwaitsOk(u, d)'
  <2> SUFFICES ASSUME NEW d \in Procs, NEW u \in Tasks
               PROVE  AwaitsOk(u, d)'
    OBVIOUS
  <2>1. Awaits(u, d)' => Awaits(u, d)
    <3>1. CASE u = t
      BY <1>0, <1>12, <3>1
      DEF StepGive, Awaits, VforkWaits, Ctl, ForkLabels, WaitLabels, ExitLabels,
          AfterReparent, AfterAdoption
    <3>2. CASE u # t
      BY <1>0, <1>12, <3>2 DEF StepGive, Awaits, VforkWaits, Ctl
    <3> QED
      BY <3>1, <3>2
  <2>3. proc[d].vforkParent = u => proc'[d].vforkParent = u
    BY <1>0, <1>12 DEF StepGive
  <2>4. \A x \in ThreadsOf(d) : Pays(x, u) => Pays(x, u)'
    BY <1>0, <1>12 DEF StepGive, Pays, ThreadsOf, Ctl
  <2> QED
    BY <1>0, <2>1, <2>3, <2>4, AwaitsFrame
<1>13. ASSUME StepInitPublish(t)
      PROVE  \A d \in Procs, u \in Tasks : AwaitsOk(u, d)'
  <2> SUFFICES ASSUME NEW d \in Procs, NEW u \in Tasks
               PROVE  AwaitsOk(u, d)'
    OBVIOUS
  <2>1. Awaits(u, d)' => Awaits(u, d)
    <3>1. CASE u = t
      BY <1>0, <1>13, <3>1
      DEF StepInitPublish, Awaits, VforkWaits, Ctl, ForkLabels, WaitLabels, ExitLabels
    <3>2. CASE u # t
      BY <1>0, <1>13, <3>2 DEF StepInitPublish, Awaits, VforkWaits, Ctl
    <3> QED
      BY <3>1, <3>2
  <2>3. proc[d].vforkParent = u => proc'[d].vforkParent = u
    BY <1>0, <1>13 DEF StepInitPublish
  <2>4. \A x \in ThreadsOf(d) : Pays(x, u) => Pays(x, u)'
    BY <1>0, <1>13 DEF StepInitPublish, Pays, ThreadsOf, Ctl
  <2> QED
    BY <1>0, <2>1, <2>3, <2>4, AwaitsFrame
<1>14. ASSUME NEW w \in SomeTask, StepInitWake(t, w)
      PROVE  \A d \in Procs, u \in Tasks : AwaitsOk(u, d)'
  <2> SUFFICES ASSUME NEW d \in Procs, NEW u \in Tasks
               PROVE  AwaitsOk(u, d)'
    OBVIOUS
  <2>1. Awaits(u, d)' => Awaits(u, d)
    <3>1. CASE u = t
      BY <1>0, <1>14, <3>1
      DEF StepInitWake, Awaits, VforkWaits, Ctl, ForkLabels, WaitLabels, ExitLabels,
          AfterAdoption, Asleep, SomeTask
    <3>2. CASE u # t
      BY <1>0, <1>14, <3>2 DEF StepInitWake, Awaits, VforkWaits, Ctl, SomeTask
    <3> QED
      BY <3>1, <3>2
  <2>3. proc[d].vforkParent = u => proc'[d].vforkParent = u
    BY <1>0, <1>14 DEF StepInitWake
  <2>4. \A x \in ThreadsOf(d) : Pays(x, u) => Pays(x, u)'
    BY <1>0, <1>14 DEF StepInitWake, Pays, ThreadsOf, Ctl, SomeTask
  <2> QED
    BY <1>0, <2>1, <2>3, <2>4, AwaitsFrame
<1>15. ASSUME StepWaitSeq(t)
      PROVE  \A d \in Procs, u \in Tasks : AwaitsOk(u, d)'
  <2> SUFFICES ASSUME NEW d \in Procs, NEW u \in Tasks
               PROVE  AwaitsOk(u, d)'
    OBVIOUS
  <2>1. Awaits(u, d)' => Awaits(u, d)
    <3>1. CASE u = t
      BY <1>0, <1>15, <3>1
      DEF StepWaitSeq, Awaits, VforkWaits, Ctl, ForkLabels, WaitLabels, ExitLabels
    <3>2. CASE u # t
      BY <1>0, <1>15, <3>2 DEF StepWaitSeq, Awaits, VforkWaits, Ctl
    <3> QED
      BY <3>1, <3>2
  <2>3. proc[d].vforkParent = u => proc'[d].vforkParent = u
    BY <1>0, <1>15 DEF StepWaitSeq
  <2>4. \A x \in ThreadsOf(d) : Pays(x, u) => Pays(x, u)'
    BY <1>0, <1>15 DEF StepWaitSeq, Pays, ThreadsOf, Ctl
  <2> QED
    BY <1>0, <2>1, <2>3, <2>4, AwaitsFrame
<1>16. ASSUME StepWaitList(t)
      PROVE  \A d \in Procs, u \in Tasks : AwaitsOk(u, d)'
  <2> SUFFICES ASSUME NEW d \in Procs, NEW u \in Tasks
               PROVE  AwaitsOk(u, d)'
    OBVIOUS
  <2>1. Awaits(u, d)' => Awaits(u, d)
    <3>1. CASE u = t
      BY <1>0, <1>16, <3>1
      DEF StepWaitList, Awaits, VforkWaits, Ctl, ForkLabels, WaitLabels, ExitLabels
    <3>2. CASE u # t
      BY <1>0, <1>16, <3>2 DEF StepWaitList, Awaits, VforkWaits, Ctl
    <3> QED
      BY <3>1, <3>2
  <2>3. proc[d].vforkParent = u => proc'[d].vforkParent = u
    BY <1>0, <1>16 DEF StepWaitList
  <2>4. \A x \in ThreadsOf(d) : Pays(x, u) => Pays(x, u)'
    BY <1>0, <1>16 DEF StepWaitList, Pays, ThreadsOf, Ctl
  <2> QED
    BY <1>0, <2>1, <2>3, <2>4, AwaitsFrame
<1>17. ASSUME NEW c \in Procs, StepFound(t, c)
      PROVE  \A d \in Procs, u \in Tasks : AwaitsOk(u, d)'
  <2> SUFFICES ASSUME NEW d \in Procs, NEW u \in Tasks
               PROVE  AwaitsOk(u, d)'
    OBVIOUS
  <2>1. Awaits(u, d)' => Awaits(u, d)
    <3>1. CASE u = t
      BY <1>0, <1>17, <3>1
      DEF StepFound, Awaits, VforkWaits, Ctl, ForkLabels, WaitLabels, ExitLabels
    <3>2. CASE u # t
      BY <1>0, <1>17, <3>2 DEF StepFound, Awaits, VforkWaits, Ctl
    <3> QED
      BY <3>1, <3>2
  <2>3. proc[d].vforkParent = u => proc'[d].vforkParent = u
    BY <1>0, <1>17 DEF StepFound
  <2>4. \A x \in ThreadsOf(d) : Pays(x, u) => Pays(x, u)'
    BY <1>0, <1>17 DEF StepFound, Pays, ThreadsOf, Ctl
  <2> QED
    BY <1>0, <2>1, <2>3, <2>4, AwaitsFrame
<1>18. ASSUME NEW c \in Procs, StepPass(t, c)
      PROVE  \A d \in Procs, u \in Tasks : AwaitsOk(u, d)'
  <2> SUFFICES ASSUME NEW d \in Procs, NEW u \in Tasks
               PROVE  AwaitsOk(u, d)'
    OBVIOUS
  <2>1. Awaits(u, d)' => Awaits(u, d)
    <3>1. CASE u = t
      BY <1>0, <1>18, <3>1
      DEF StepPass, Awaits, VforkWaits, Ctl, ForkLabels, WaitLabels, ExitLabels
    <3>2. CASE u # t
      BY <1>0, <1>18, <3>2 DEF StepPass, Awaits, VforkWaits, Ctl
    <3> QED
      BY <3>1, <3>2
  <2>3. proc[d].vforkParent = u => proc'[d].vforkParent = u
    BY <1>0, <1>18 DEF StepPass
  <2>4. \A x \in ThreadsOf(d) : Pays(x, u) => Pays(x, u)'
    BY <1>0, <1>18 DEF StepPass, Pays, ThreadsOf, Ctl
  <2> QED
    BY <1>0, <2>1, <2>3, <2>4, AwaitsFrame
<1>19. ASSUME StepAgain(t)
      PROVE  \A d \in Procs, u \in Tasks : AwaitsOk(u, d)'
  <2> SUFFICES ASSUME NEW d \in Procs, NEW u \in Tasks
               PROVE  AwaitsOk(u, d)'
    OBVIOUS
  <2>1. Awaits(u, d)' => Awaits(u, d)
    <3>1. CASE u = t
      BY <1>0, <1>19, <3>1
      DEF StepAgain, Awaits, VforkWaits, Ctl, ForkLabels, WaitLabels, ExitLabels
    <3>2. CASE u # t
      BY <1>0, <1>19, <3>2 DEF StepAgain, Awaits, VforkWaits, Ctl
    <3> QED
      BY <3>1, <3>2
  <2>3. proc[d].vforkParent = u => proc'[d].vforkParent = u
    BY <1>0, <1>19 DEF StepAgain
  <2>4. \A x \in ThreadsOf(d) : Pays(x, u) => Pays(x, u)'
    BY <1>0, <1>19 DEF StepAgain, Pays, ThreadsOf, Ctl
  <2> QED
    BY <1>0, <2>1, <2>3, <2>4, AwaitsFrame
<1>20. ASSUME StepWaitBlock(t)
      PROVE  \A d \in Procs, u \in Tasks : AwaitsOk(u, d)'
  <2> SUFFICES ASSUME NEW d \in Procs, NEW u \in Tasks
               PROVE  AwaitsOk(u, d)'
    OBVIOUS
  <2>1. Awaits(u, d)' => Awaits(u, d)
    <3>1. CASE u = t
      BY <1>0, <1>20, <3>1
      DEF StepWaitBlock, Awaits, VforkWaits, Ctl, ForkLabels, WaitLabels, ExitLabels
    <3>2. CASE u # t
      BY <1>0, <1>20, <3>2 DEF StepWaitBlock, Awaits, VforkWaits, Ctl
    <3> QED
      BY <3>1, <3>2
  <2>3. proc[d].vforkParent = u => proc'[d].vforkParent = u
    BY <1>0, <1>20 DEF StepWaitBlock
  <2>4. \A x \in ThreadsOf(d) : Pays(x, u) => Pays(x, u)'
    BY <1>0, <1>20 DEF StepWaitBlock, Pays, ThreadsOf, Ctl
  <2> QED
    BY <1>0, <2>1, <2>3, <2>4, AwaitsFrame
<1>21. ASSUME StepWin(t)
      PROVE  \A d \in Procs, u \in Tasks : AwaitsOk(u, d)'
  <2> SUFFICES ASSUME NEW d \in Procs, NEW u \in Tasks
               PROVE  AwaitsOk(u, d)'
    OBVIOUS
  <2>1. Awaits(u, d)' => Awaits(u, d)
    <3>1. CASE u = t
      BY <1>0, <1>21, <3>1
      DEF StepWin, Awaits, VforkWaits, Ctl, ForkLabels, WaitLabels, ExitLabels
    <3>2. CASE u # t
      BY <1>0, <1>21, <3>2 DEF StepWin, Awaits, VforkWaits, Ctl
    <3> QED
      BY <3>1, <3>2
  <2>3. proc[d].vforkParent = u => proc'[d].vforkParent = u
    BY <1>0, <1>21 DEF StepWin
  <2>4. \A x \in ThreadsOf(d) : Pays(x, u) => Pays(x, u)'
    BY <1>0, <1>21 DEF StepWin, Pays, ThreadsOf, Ctl
  <2> QED
    BY <1>0, <2>1, <2>3, <2>4, AwaitsFrame
<1>22. ASSUME StepLose(t)
      PROVE  \A d \in Procs, u \in Tasks : AwaitsOk(u, d)'
  <2> SUFFICES ASSUME NEW d \in Procs, NEW u \in Tasks
               PROVE  AwaitsOk(u, d)'
    OBVIOUS
  <2>1. Awaits(u, d)' => Awaits(u, d)
    <3>1. CASE u = t
      BY <1>0, <1>22, <3>1
      DEF StepLose, Awaits, VforkWaits, Ctl, ForkLabels, WaitLabels, ExitLabels
    <3>2. CASE u # t
      BY <1>0, <1>22, <3>2 DEF StepLose, Awaits, VforkWaits, Ctl
    <3> QED
      BY <3>1, <3>2
  <2>3. proc[d].vforkParent = u => proc'[d].vforkParent = u
    BY <1>0, <1>22 DEF StepLose
  <2>4. \A x \in ThreadsOf(d) : Pays(x, u) => Pays(x, u)'
    BY <1>0, <1>22 DEF StepLose, Pays, ThreadsOf, Ctl
  <2> QED
    BY <1>0, <2>1, <2>3, <2>4, AwaitsFrame
<1>23. ASSUME StepFree(t)
      PROVE  \A d \in Procs, u \in Tasks : AwaitsOk(u, d)'
  <2> SUFFICES ASSUME NEW d \in Procs, NEW u \in Tasks
               PROVE  AwaitsOk(u, d)'
    OBVIOUS
  <2>1. Awaits(u, d)' => Awaits(u, d)
    <3>1. CASE u = t
      BY <1>0, <1>23, <3>1
      DEF StepFree, Awaits, VforkWaits, Ctl, ForkLabels, WaitLabels, ExitLabels,
          AfterReturn
    <3>2. CASE u # t
      BY <1>0, <1>23, <3>2 DEF StepFree, Awaits, VforkWaits, Ctl
    <3> QED
      BY <3>1, <3>2
  <2>2. Awaits(u, d) => d # loc[t].of
    BY <1>23, FreedHasPaid DEF StepFree
  <2>3. Awaits(u, d) /\ proc[d].vforkParent = u => proc'[d].vforkParent = u
    BY <1>23, <2>2 DEF StepFree
  <2>4. \A x \in ThreadsOf(d) : Pays(x, u) => Pays(x, u)'
    BY <1>0, <1>23 DEF StepFree, Pays, ThreadsOf, Ctl
  <2> QED
    BY <1>0, <2>1, <2>3, <2>4, AwaitsFrame
<1>24. ASSUME StepCount(t)
      PROVE  \A d \in Procs, u \in Tasks : AwaitsOk(u, d)'
  <2> SUFFICES ASSUME NEW d \in Procs, NEW u \in Tasks
               PROVE  AwaitsOk(u, d)'
    OBVIOUS
  <2>1. Awaits(u, d)' => Awaits(u, d)
    <3>1. CASE u = t
      BY <1>0, <1>24, <3>1
      DEF StepCount, Awaits, VforkWaits, Ctl, ForkLabels, WaitLabels, ExitLabels
    <3>2. CASE u # t
      BY <1>0, <1>24, <3>2 DEF StepCount, Awaits, VforkWaits, Ctl
    <3> QED
      BY <3>1, <3>2
  <2>3. proc[d].vforkParent = u => proc'[d].vforkParent = u
    BY <1>0, <1>24 DEF StepCount
  <2>4. \A x \in ThreadsOf(d) : Pays(x, u) => Pays(x, u)'
    BY <1>0, <1>24 DEF StepCount, Pays, ThreadsOf, Ctl
  <2> QED
    BY <1>0, <2>1, <2>3, <2>4, AwaitsFrame
<1>25. ASSUME StepDetach(t)
      PROVE  \A d \in Procs, u \in Tasks : AwaitsOk(u, d)'
  <2> SUFFICES ASSUME NEW d \in Procs, NEW u \in Tasks
               PROVE  AwaitsOk(u, d)'
    OBVIOUS
  <2>1. Awaits(u, d)' => Awaits(u, d)
    <3>1. CASE u = t
      BY <1>0, <1>25, <3>1
      DEF StepDetach, Awaits, VforkWaits, Ctl, ForkLabels, WaitLabels, ExitLabels
    <3>2. CASE u # t
      BY <1>0, <1>25, <3>2 DEF StepDetach, Awaits, VforkWaits, Ctl
    <3> QED
      BY <3>1, <3>2
  <2>3. proc[d].vforkParent = u => proc'[d].vforkParent = u
    BY <1>0, <1>25 DEF StepDetach
  <2>4. \A x \in ThreadsOf(d) : Pays(x, u) => Pays(x, u)'
    BY <1>0, <1>25 DEF StepDetach, Pays, ThreadsOf, Ctl
  <2> QED
    BY <1>0, <2>1, <2>3, <2>4, AwaitsFrame
<1>26. ASSUME StepParent(t)
      PROVE  \A d \in Procs, u \in Tasks : AwaitsOk(u, d)'
  <2> SUFFICES ASSUME NEW d \in Procs, NEW u \in Tasks
               PROVE  AwaitsOk(u, d)'
    OBVIOUS
  <2>1. Awaits(u, d)' => Awaits(u, d)
    <3>1. CASE u = t
      BY <1>0, <1>26, <3>1
      DEF StepParent, Awaits, VforkWaits, Ctl, ForkLabels, WaitLabels, ExitLabels
    <3>2. CASE u # t
      BY <1>0, <1>26, <3>2 DEF StepParent, Awaits, VforkWaits, Ctl
    <3> QED
      BY <3>1, <3>2
  <2>2. CASE d = ProcOf[t] /\ proc[d].vforkParent = u
    <3>1. Pays(t, u)' /\ t \in ThreadsOf(d)
      BY <1>0, <1>26, <2>2 DEF StepParent, Pays, ThreadsOf
    <3> QED
      BY <3>1 DEF AwaitsOk, ThreadsOf
  <2>3. CASE ~(d = ProcOf[t] /\ proc[d].vforkParent = u)
    <3>1. proc[d].vforkParent = u => proc'[d].vforkParent = u
      BY <1>0, <1>26, <2>3 DEF StepParent
    <3>2. \A x \in ThreadsOf(d) : Pays(x, u) => Pays(x, u)'
      BY <1>26 DEF StepParent, Pays, ThreadsOf
    <3> QED
      BY <1>0, <2>1, <3>1, <3>2, AwaitsFrame
  <2> QED
    BY <2>2, <2>3
<1>27. ASSUME StepDefer(t)
      PROVE  \A d \in Procs, u \in Tasks : AwaitsOk(u, d)'
  <2> SUFFICES ASSUME NEW d \in Procs, NEW u \in Tasks
               PROVE  AwaitsOk(u, d)'
    OBVIOUS
  <2>1. Awaits(u, d)' => Awaits(u, d)
    <3>1. CASE u = t
      BY <1>0, <1>27, <3>1
      DEF StepDefer, Awaits, VforkWaits, Ctl, ForkLabels, WaitLabels, ExitLabels
    <3>2. CASE u # t
      BY <1>0, <1>27, <3>2 DEF StepDefer, Awaits, VforkWaits, Ctl
    <3> QED
      BY <3>1, <3>2
  <2>3. proc[d].vforkParent = u => proc'[d].vforkParent = u
    BY <1>0, <1>27 DEF StepDefer
  <2>4. \A x \in ThreadsOf(d) : Pays(x, u) => Pays(x, u)'
    BY <1>0, <1>27 DEF StepDefer, Pays, ThreadsOf, Ctl
  <2> QED
    BY <1>0, <2>1, <2>3, <2>4, AwaitsFrame
<1>28. ASSUME StepSwitch(t)
      PROVE  \A d \in Procs, u \in Tasks : AwaitsOk(u, d)'
  <2> SUFFICES ASSUME NEW d \in Procs, NEW u \in Tasks
               PROVE  AwaitsOk(u, d)'
    OBVIOUS
  <2>1. Awaits(u, d)' => Awaits(u, d)
    <3>1. CASE u = t
      BY <1>0, <1>28, <3>1
      DEF StepSwitch, Awaits, VforkWaits, Ctl, ForkLabels, WaitLabels, ExitLabels
    <3>2. CASE u # t
      BY <1>0, <1>28, <3>2 DEF StepSwitch, Awaits, VforkWaits, Ctl
    <3> QED
      BY <3>1, <3>2
  <2>3. proc[d].vforkParent = u => proc'[d].vforkParent = u
    BY <1>0, <1>28 DEF StepSwitch
  <2>4. \A x \in ThreadsOf(d) : Pays(x, u) => Pays(x, u)'
    BY <1>0, <1>28 DEF StepSwitch, Pays, ThreadsOf, Ctl
  <2> QED
    BY <1>0, <2>1, <2>3, <2>4, AwaitsFrame
<1>29. ASSUME StepGroup(t)
      PROVE  \A d \in Procs, u \in Tasks : AwaitsOk(u, d)'
  <2> SUFFICES ASSUME NEW d \in Procs, NEW u \in Tasks
               PROVE  AwaitsOk(u, d)'
    OBVIOUS
  <2>1. Awaits(u, d)' => Awaits(u, d)
    <3>1. CASE u = t
      BY <1>0, <1>29, <3>1
      DEF StepGroup, Awaits, VforkWaits, Ctl, ForkLabels, WaitLabels, ExitLabels
    <3>2. CASE u # t
      BY <1>0, <1>29, <3>2 DEF StepGroup, Awaits, VforkWaits, Ctl
    <3> QED
      BY <3>1, <3>2
  <2>3. proc[d].vforkParent = u => proc'[d].vforkParent = u
    BY <1>0, <1>29 DEF StepGroup
  <2>4. \A x \in ThreadsOf(d) : Pays(x, u) => Pays(x, u)'
    BY <1>0, <1>29 DEF StepGroup, Pays, ThreadsOf, Ctl
  <2> QED
    BY <1>0, <2>1, <2>3, <2>4, AwaitsFrame
<1>30. ASSUME NEW k \in Procs, StepKill(t, k)
      PROVE  \A d \in Procs, u \in Tasks : AwaitsOk(u, d)'
  <2> SUFFICES ASSUME NEW d \in Procs, NEW u \in Tasks
               PROVE  AwaitsOk(u, d)'
    OBVIOUS
  <2>1. Awaits(u, d)' => Awaits(u, d)
    <3>1. CASE u = t
      BY <1>0, <1>30, <3>1
      DEF StepKill, Awaits, VforkWaits, Ctl, ForkLabels, WaitLabels, ExitLabels
    <3>2. CASE u # t
      BY <1>0, <1>30, <3>2 DEF StepKill, Awaits, VforkWaits, Ctl
    <3> QED
      BY <3>1, <3>2
  <2>3. proc[d].vforkParent = u => proc'[d].vforkParent = u
    BY <1>0, <1>30 DEF StepKill
  <2>4. \A x \in ThreadsOf(d) : Pays(x, u) => Pays(x, u)'
    BY <1>0, <1>30 DEF StepKill, Pays, ThreadsOf, Ctl
  <2> QED
    BY <1>0, <2>1, <2>3, <2>4, AwaitsFrame
<1>31. ASSUME NEW w \in Tasks, StepFlag(t, w)
      PROVE  \A d \in Procs, u \in Tasks : AwaitsOk(u, d)'
  <2> SUFFICES ASSUME NEW d \in Procs, NEW u \in Tasks
               PROVE  AwaitsOk(u, d)'
    OBVIOUS
  <2>1. Awaits(u, d)' => Awaits(u, d)
    <3>1. CASE u = t
      BY <1>0, <1>31, <3>1
      DEF StepFlag, Awaits, VforkWaits, Ctl, ForkLabels, WaitLabels, ExitLabels
    <3>2. CASE u # t
      BY <1>0, <1>31, <3>2 DEF StepFlag, Awaits, VforkWaits, Ctl
    <3> QED
      BY <3>1, <3>2
  <2>3. proc[d].vforkParent = u => proc'[d].vforkParent = u
    BY <1>0, <1>31 DEF StepFlag
  <2>4. \A x \in ThreadsOf(d) : Pays(x, u) => Pays(x, u)'
    BY <1>0, <1>31 DEF StepFlag, Pays, ThreadsOf, Ctl
  <2> QED
    BY <1>0, <2>1, <2>3, <2>4, AwaitsFrame
<1>32. ASSUME NEW w \in Tasks, StepFlagOnly(t, w)
      PROVE  \A d \in Procs, u \in Tasks : AwaitsOk(u, d)'
  <2> SUFFICES ASSUME NEW d \in Procs, NEW u \in Tasks
               PROVE  AwaitsOk(u, d)'
    OBVIOUS
  <2>1. Awaits(u, d)' => Awaits(u, d)
    <3>1. CASE u = t
      BY <1>0, <1>32, <3>1
      DEF StepFlagOnly, Awaits, VforkWaits, Ctl, ForkLabels, WaitLabels, ExitLabels
    <3>2. CASE u # t
      BY <1>0, <1>32, <3>2 DEF StepFlagOnly, Awaits, VforkWaits, Ctl
    <3> QED
      BY <3>1, <3>2
  <2>3. proc[d].vforkParent = u => proc'[d].vforkParent = u
    BY <1>0, <1>32 DEF StepFlagOnly
  <2>4. \A x \in ThreadsOf(d) : Pays(x, u) => Pays(x, u)'
    BY <1>0, <1>32 DEF StepFlagOnly, Pays, ThreadsOf, Ctl
  <2> QED
    BY <1>0, <2>1, <2>3, <2>4, AwaitsFrame
<1>33. ASSUME StepNotify(t)
      PROVE  \A d \in Procs, u \in Tasks : AwaitsOk(u, d)'
  <2> SUFFICES ASSUME NEW d \in Procs, NEW u \in Tasks
               PROVE  AwaitsOk(u, d)'
    OBVIOUS
  <2>1. Awaits(u, d)' => Awaits(u, d)
    <3>1. CASE u = t
      BY <1>0, <1>33, <3>1
      DEF StepNotify, Awaits, VforkWaits, Ctl, ForkLabels, WaitLabels, ExitLabels
    <3>2. CASE u # t
      BY <1>0, <1>33, <3>2 DEF StepNotify, Awaits, VforkWaits, Ctl
    <3> QED
      BY <3>1, <3>2
  <2>3. proc[d].vforkParent = u => proc'[d].vforkParent = u
    BY <1>0, <1>33 DEF StepNotify
  <2>4. \A x \in ThreadsOf(d) : Pays(x, u) => Pays(x, u)'
    BY <1>0, <1>33 DEF StepNotify, Pays, ThreadsOf, Ctl
  <2> QED
    BY <1>0, <2>1, <2>3, <2>4, AwaitsFrame
<1>34. ASSUME StepFinish(t)
      PROVE  \A d \in Procs, u \in Tasks : AwaitsOk(u, d)'
  <2> SUFFICES ASSUME NEW d \in Procs, NEW u \in Tasks
               PROVE  AwaitsOk(u, d)'
    OBVIOUS
  <2>1. Awaits(u, d)' => Awaits(u, d)
    <3>1. CASE u = t
      BY <1>0, <1>34, <3>1
      DEF StepFinish, Awaits, VforkWaits, Ctl, ForkLabels, WaitLabels, ExitLabels
    <3>2. CASE u # t
      BY <1>0, <1>34, <3>2 DEF StepFinish, Awaits, VforkWaits, Ctl
    <3> QED
      BY <3>1, <3>2
  <2>3. proc[d].vforkParent = u => proc'[d].vforkParent = u
    BY <1>0, <1>34 DEF StepFinish
  <2>4. \A x \in ThreadsOf(d) : Pays(x, u) => Pays(x, u)'
    BY <1>0, <1>34 DEF StepFinish, Pays, ThreadsOf, Ctl
  <2> QED
    BY <1>0, <2>1, <2>3, <2>4, AwaitsFrame
<1>35. ASSUME StepEvent(t)
      PROVE  \A d \in Procs, u \in Tasks : AwaitsOk(u, d)'
  <2> SUFFICES ASSUME NEW d \in Procs, NEW u \in Tasks
               PROVE  AwaitsOk(u, d)'
    OBVIOUS
  <2>1. Awaits(u, d)' => Awaits(u, d)
    <3>1. CASE u = t
      BY <1>0, <1>35, <3>1
      DEF StepEvent, Awaits, VforkWaits, Ctl, ForkLabels, WaitLabels, ExitLabels
    <3>2. CASE u # t
      BY <1>0, <1>35, <3>2 DEF StepEvent, Awaits, VforkWaits, Ctl
    <3> QED
      BY <3>1, <3>2
  <2>3. proc[d].vforkParent = u => proc'[d].vforkParent = u
    BY <1>0, <1>35 DEF StepEvent
  <2>4. \A x \in ThreadsOf(d) : Pays(x, u) => Pays(x, u)'
    BY <1>0, <1>35 DEF StepEvent, Pays, ThreadsOf, Ctl
  <2> QED
    BY <1>0, <2>1, <2>3, <2>4, AwaitsFrame
<1>36. ASSUME StepCollect(t)
      PROVE  \A d \in Procs, u \in Tasks : AwaitsOk(u, d)'
  <2> SUFFICES ASSUME NEW d \in Procs, NEW u \in Tasks
               PROVE  AwaitsOk(u, d)'
    OBVIOUS
  <2>1. Awaits(u, d)' => Awaits(u, d)
    <3>1. CASE u = t
      BY <1>0, <1>36, <3>1
      DEF StepCollect, Awaits, VforkWaits, Ctl, ForkLabels, WaitLabels, ExitLabels
    <3>2. CASE u # t
      BY <1>0, <1>36, <3>2 DEF StepCollect, Awaits, VforkWaits, Ctl
    <3> QED
      BY <3>1, <3>2
  <2>3. proc[d].vforkParent = u => proc'[d].vforkParent = u
    BY <1>0, <1>36 DEF StepCollect
  <2>4. \A x \in ThreadsOf(d) : Pays(x, u) => Pays(x, u)'
    BY <1>0, <1>36 DEF StepCollect, Pays, ThreadsOf, Ctl
  <2> QED
    BY <1>0, <2>1, <2>3, <2>4, AwaitsFrame
<1>37. ASSUME NEW w \in Tasks, StepWakeOne(t, w)
      PROVE  \A d \in Procs, u \in Tasks : AwaitsOk(u, d)'
  <2> SUFFICES ASSUME NEW d \in Procs, NEW u \in Tasks
               PROVE  AwaitsOk(u, d)'
    OBVIOUS
  <2>1. Awaits(u, d)' => Awaits(u, d)
    <3>1. CASE u = t
      BY <1>0, <1>37, <3>1
      DEF StepWakeOne, Awaits, VforkWaits, Ctl, ForkLabels, WaitLabels, ExitLabels
    <3>2. CASE u # t
      BY <1>0, <1>37, <3>2 DEF StepWakeOne, Awaits, VforkWaits, Ctl
    <3> QED
      BY <3>1, <3>2
  <2>3. proc[d].vforkParent = u => proc'[d].vforkParent = u
    BY <1>0, <1>37 DEF StepWakeOne
  <2>4. \A x \in ThreadsOf(d) : Pays(x, u) => Pays(x, u)'
    BY <1>0, <1>37 DEF StepWakeOne, Pays, ThreadsOf, Ctl
  <2> QED
    BY <1>0, <2>1, <2>3, <2>4, AwaitsFrame
<1>38. ASSUME StepWakesDone(t)
      PROVE  \A d \in Procs, u \in Tasks : AwaitsOk(u, d)'
  <2> SUFFICES ASSUME NEW d \in Procs, NEW u \in Tasks
               PROVE  AwaitsOk(u, d)'
    OBVIOUS
  <2>1. Awaits(u, d)' => Awaits(u, d)
    <3>1. CASE u = t
      BY <1>0, <1>38, <3>1
      DEF StepWakesDone, Awaits, VforkWaits, Ctl, ForkLabels, WaitLabels, ExitLabels
    <3>2. CASE u # t
      BY <1>0, <1>38, <3>2 DEF StepWakesDone, Awaits, VforkWaits, Ctl
    <3> QED
      BY <3>1, <3>2
  <2>3. proc[d].vforkParent = u => proc'[d].vforkParent = u
    BY <1>0, <1>38 DEF StepWakesDone
  <2>4. \A x \in ThreadsOf(d) : Pays(x, u) => Pays(x, u)'
    BY <1>0, <1>38 DEF StepWakesDone, Pays, ThreadsOf, Ctl
  <2> QED
    BY <1>0, <2>1, <2>3, <2>4, AwaitsFrame
<1> QED
  BY <1>1, <1>2, <1>3, <1>4, <1>5, <1>6, <1>7, <1>8, <1>9, <1>10, <1>11, <1>12, <1>13,
     <1>14, <1>15, <1>16, <1>17, <1>18, <1>19, <1>20, <1>21, <1>22, <1>23, <1>24, <1>25,
     <1>26, <1>27, <1>28, <1>29, <1>30, <1>31, <1>32, <1>33, <1>34, <1>35, <1>36, <1>37,
     <1>38
  DEF Step

\* Every step that clears a sleeping parent goes on to wake it.
LEMMA AsleepStep ==
  ASSUME LifeInv, HandInv, NEW t \in Tasks, Step(t)
  PROVE  \A u \in Tasks : AsleepOk(u)'
<1>0. ProcOf[t] \in Procs /\ Ctl(t) /\ \A u \in Tasks : AsleepOk(u)
  BY DEF LifeInv, ReapInv, ControlInv, HandInv
<1>a. ASSUME NEW u \in Tasks, pc'[u] = "vforkAsleep" => pc[u] = "vforkAsleep" /\ loc'[u] = loc[u]
                                                       /\ vforkChild'[u] = vforkChild[u],
             \A x \in Tasks : pc[x] = "vforkWake" => pc'[x] = "vforkWake" /\ loc'[x] = loc[x]
      PROVE  AsleepOk(u)'
  <2> SUFFICES ASSUME pc'[u] = "vforkAsleep", vforkChild'[u] # loc'[u].of
               PROVE  \E x \in Tasks : pc'[x] = "vforkWake" /\ loc'[x].vforkParent = u
    BY DEF AsleepOk
  <2>1. PICK x \in Tasks : pc[x] = "vforkWake" /\ loc[x].vforkParent = u
    BY <1>0, <1>a DEF AsleepOk
  <2>2. loc'[x] = loc[x] /\ pc'[x] = "vforkWake"
    BY <1>a, <2>1
  <2>3. loc'[x].vforkParent = u
    BY <2>1, <2>2
  <2> QED
    BY <2>2, <2>3
<1>1. ASSUME StepReturn(t)
      PROVE  \A u \in Tasks : AsleepOk(u)'
  <2> SUFFICES ASSUME NEW u \in Tasks
               PROVE  AsleepOk(u)'
    OBVIOUS
  <2>1. pc'[u] = "vforkAsleep" => /\ pc[u] = "vforkAsleep" /\ loc'[u] = loc[u]
                                  /\ vforkChild'[u] = vforkChild[u]
    <3>1. CASE u = t
      BY <1>0, <1>1, <3>1 DEF StepReturn, Ctl, AfterReturn
    <3>2. CASE u # t
      BY <1>0, <1>1, <3>2 DEF StepReturn, Ctl
    <3> QED
      BY <3>1, <3>2
  <2>2. \A x \in Tasks : pc[x] = "vforkWake" => pc'[x] = "vforkWake" /\ loc'[x] = loc[x]
    BY <1>0, <1>1 DEF StepReturn, Ctl
  <2> QED
    BY <1>a, <2>1, <2>2
<1>2. ASSUME NEW c \in Procs, NEW v \in BOOLEAN, StepFork(t, c, v)
      PROVE  \A u \in Tasks : AsleepOk(u)'
  <2> SUFFICES ASSUME NEW u \in Tasks
               PROVE  AsleepOk(u)'
    OBVIOUS
  <2>1. pc'[u] = "vforkAsleep" => /\ pc[u] = "vforkAsleep" /\ loc'[u] = loc[u]
                                  /\ vforkChild'[u] = vforkChild[u]
    <3>1. CASE u = t
      BY <1>0, <1>2, <3>1 DEF StepFork, Ctl
    <3>2. CASE u # t
      BY <1>0, <1>2, <3>2 DEF StepFork, Ctl
    <3> QED
      BY <3>1, <3>2
  <2>2. \A x \in Tasks : pc[x] = "vforkWake" => pc'[x] = "vforkWake" /\ loc'[x] = loc[x]
    <3>1. pc[Leader[c]] = "unborn"
      BY <1>2 DEF StepFork, LifeInv, ReapInv, ControlInv, CountOk, ThreadsOf
    <3> QED
      BY <1>2, <3>1 DEF StepFork
  <2> QED
    BY <1>a, <2>1, <2>2
<1>3. ASSUME StepPush(t)
      PROVE  \A u \in Tasks : AsleepOk(u)'
  <2> SUFFICES ASSUME NEW u \in Tasks
               PROVE  AsleepOk(u)'
    OBVIOUS
  <2>1. pc'[u] = "vforkAsleep" => /\ pc[u] = "vforkAsleep" /\ loc'[u] = loc[u]
                                  /\ vforkChild'[u] = vforkChild[u]
    <3>1. CASE u = t
      BY <1>0, <1>3, <3>1 DEF StepPush, Ctl
    <3>2. CASE u # t
      BY <1>0, <1>3, <3>2 DEF StepPush, Ctl
    <3> QED
      BY <3>1, <3>2
  <2>2. \A x \in Tasks : pc[x] = "vforkWake" => pc'[x] = "vforkWake" /\ loc'[x] = loc[x]
    BY <1>0, <1>3 DEF StepPush, Ctl
  <2> QED
    BY <1>a, <2>1, <2>2
<1>4. ASSUME StepPublish(t)
      PROVE  \A u \in Tasks : AsleepOk(u)'
  <2> SUFFICES ASSUME NEW u \in Tasks
               PROVE  AsleepOk(u)'
    OBVIOUS
  <2>1. pc'[u] = "vforkAsleep" => /\ pc[u] = "vforkAsleep" /\ loc'[u] = loc[u]
                                  /\ vforkChild'[u] = vforkChild[u]
    <3>1. CASE u = t
      BY <1>0, <1>4, <3>1 DEF StepPublish, Ctl
    <3>2. CASE u # t
      BY <1>0, <1>4, <3>2 DEF StepPublish, Ctl
    <3> QED
      BY <3>1, <3>2
  <2>2. \A x \in Tasks : pc[x] = "vforkWake" => pc'[x] = "vforkWake" /\ loc'[x] = loc[x]
    BY <1>0, <1>4 DEF StepPublish, Ctl
  <2> QED
    BY <1>a, <2>1, <2>2
<1>5. ASSUME StepStart(t)
      PROVE  \A u \in Tasks : AsleepOk(u)'
  <2> SUFFICES ASSUME NEW u \in Tasks
               PROVE  AsleepOk(u)'
    OBVIOUS
  <2>1. pc'[u] = "vforkAsleep" => /\ pc[u] = "vforkAsleep" /\ loc'[u] = loc[u]
                                  /\ vforkChild'[u] = vforkChild[u]
    <3>1. CASE u = t
      BY <1>0, <1>5, <3>1 DEF StepStart, Ctl, AfterReturn
    <3>2. CASE u # t
      BY <1>0, <1>5, <3>2 DEF StepStart, Ctl
    <3> QED
      BY <3>1, <3>2
  <2>2. \A x \in Tasks : pc[x] = "vforkWake" => pc'[x] = "vforkWake" /\ loc'[x] = loc[x]
    BY <1>0, <1>5 DEF StepStart, Ctl
  <2> QED
    BY <1>a, <2>1, <2>2
<1>6. ASSUME StepVforkBlock(t)
      PROVE  \A u \in Tasks : AsleepOk(u)'
  <2> SUFFICES ASSUME NEW u \in Tasks
               PROVE  AsleepOk(u)'
    OBVIOUS
  <2>1. CASE u = t
    BY <1>6, <2>1 DEF StepVforkBlock, AsleepOk
  <2>2. CASE u # t
    BY <1>a, <1>6, <2>2 DEF StepVforkBlock
  <2> QED
    BY <2>1, <2>2
<1>7. ASSUME StepExec(t)
      PROVE  \A u \in Tasks : AsleepOk(u)'
  <2> SUFFICES ASSUME NEW u \in Tasks
               PROVE  AsleepOk(u)'
    OBVIOUS
  <2>1. pc'[u] = "vforkAsleep" => /\ pc[u] = "vforkAsleep" /\ loc'[u] = loc[u]
                                  /\ vforkChild'[u] = vforkChild[u]
    <3>1. CASE u = t
      BY <1>0, <1>7, <3>1 DEF StepExec, Ctl, AfterReturn
    <3>2. CASE u # t
      BY <1>0, <1>7, <3>2 DEF StepExec, Ctl
    <3> QED
      BY <3>1, <3>2
  <2>2. \A x \in Tasks : pc[x] = "vforkWake" => pc'[x] = "vforkWake" /\ loc'[x] = loc[x]
    BY <1>0, <1>7 DEF StepExec, Ctl
  <2> QED
    BY <1>a, <2>1, <2>2
<1>8. ASSUME StepVforkClear(t)
      PROVE  \A u \in Tasks : AsleepOk(u)'
  <2> SUFFICES ASSUME NEW u \in Tasks
               PROVE  AsleepOk(u)'
    OBVIOUS
  <2>0. \A x \in Tasks : pc[x] = "vforkWake" => pc'[x] = "vforkWake" /\ loc'[x] = loc[x]
    BY <1>8 DEF StepVforkClear
  <2>1. pc'[u] = "vforkAsleep" => pc[u] = "vforkAsleep" /\ u # t /\ loc'[u] = loc[u]
    BY <1>8 DEF StepVforkClear, AfterVfork, AfterReturn
  <2>2. CASE pc[u] = "vforkAsleep" /\ u = loc[t].vforkParent /\ vforkChild[u] = ProcOf[t]
    <3>1. pc'[t] = "vforkWake" /\ loc' = loc
      BY <1>8, <2>2 DEF StepVforkClear, Asleep
    <3> QED
      BY <2>2, <3>1 DEF AsleepOk
  <2>3. CASE ~(pc[u] = "vforkAsleep" /\ u = loc[t].vforkParent /\ vforkChild[u] = ProcOf[t])
    <3>1. pc[u] = "vforkAsleep" => vforkChild'[u] = vforkChild[u]
      BY <1>8, <2>3 DEF StepVforkClear
    <3> QED
      BY <1>a, <2>0, <2>1, <3>1
  <2> QED
    BY <2>2, <2>3
<1>9. ASSUME StepVforkWake(t)
      PROVE  \A u \in Tasks : AsleepOk(u)'
  <2> SUFFICES ASSUME NEW u \in Tasks
               PROVE  AsleepOk(u)'
    OBVIOUS
  <2>1. CASE u = loc[t].vforkParent
    BY <1>9, <2>1 DEF StepVforkWake, AsleepOk, AfterVfork, AfterReturn
  <2>2. CASE u # loc[t].vforkParent
    <3>1. /\ pc'[u] = "vforkAsleep" => pc[u] = "vforkAsleep" /\ u # t /\ loc'[u] = loc[u]
          /\ vforkChild' = vforkChild
      BY <1>9, <2>2 DEF StepVforkWake, AfterVfork, AfterReturn
    <3>2. ASSUME NEW x \in Tasks, pc[x] = "vforkWake", loc[x].vforkParent = u
          PROVE  pc'[x] = "vforkWake" /\ loc'[x] = loc[x]
      BY <1>9, <2>2, <3>2 DEF StepVforkWake
    <3> QED
      BY <1>0, <3>1, <3>2 DEF AsleepOk
  <2> QED
    BY <2>1, <2>2
<1>10. ASSUME StepTake(t)
      PROVE  \A u \in Tasks : AsleepOk(u)'
  <2> SUFFICES ASSUME NEW u \in Tasks
               PROVE  AsleepOk(u)'
    OBVIOUS
  <2>1. pc'[u] = "vforkAsleep" => /\ pc[u] = "vforkAsleep" /\ loc'[u] = loc[u]
                                  /\ vforkChild'[u] = vforkChild[u]
    <3>1. CASE u = t
      BY <1>0, <1>10, <3>1 DEF StepTake, Ctl
    <3>2. CASE u # t
      BY <1>0, <1>10, <3>2 DEF StepTake, Ctl
    <3> QED
      BY <3>1, <3>2
  <2>2. \A x \in Tasks : pc[x] = "vforkWake" => pc'[x] = "vforkWake" /\ loc'[x] = loc[x]
    BY <1>0, <1>10 DEF StepTake, Ctl
  <2> QED
    BY <1>a, <2>1, <2>2
<1>11. ASSUME NEW c \in Procs, StepEach(t, c)
      PROVE  \A u \in Tasks : AsleepOk(u)'
  <2> SUFFICES ASSUME NEW u \in Tasks
               PROVE  AsleepOk(u)'
    OBVIOUS
  <2>1. pc'[u] = "vforkAsleep" => /\ pc[u] = "vforkAsleep" /\ loc'[u] = loc[u]
                                  /\ vforkChild'[u] = vforkChild[u]
    <3>1. CASE u = t
      BY <1>0, <1>11, <3>1 DEF StepEach, Ctl
    <3>2. CASE u # t
      BY <1>0, <1>11, <3>2 DEF StepEach, Ctl
    <3> QED
      BY <3>1, <3>2
  <2>2. \A x \in Tasks : pc[x] = "vforkWake" => pc'[x] = "vforkWake" /\ loc'[x] = loc[x]
    BY <1>0, <1>11 DEF StepEach, Ctl
  <2> QED
    BY <1>a, <2>1, <2>2
<1>12. ASSUME StepGive(t)
      PROVE  \A u \in Tasks : AsleepOk(u)'
  <2> SUFFICES ASSUME NEW u \in Tasks
               PROVE  AsleepOk(u)'
    OBVIOUS
  <2>1. pc'[u] = "vforkAsleep" => /\ pc[u] = "vforkAsleep" /\ loc'[u] = loc[u]
                                  /\ vforkChild'[u] = vforkChild[u]
    <3>1. CASE u = t
      BY <1>0, <1>12, <3>1 DEF StepGive, Ctl, AfterReparent, AfterAdoption
    <3>2. CASE u # t
      BY <1>0, <1>12, <3>2 DEF StepGive, Ctl
    <3> QED
      BY <3>1, <3>2
  <2>2. \A x \in Tasks : pc[x] = "vforkWake" => pc'[x] = "vforkWake" /\ loc'[x] = loc[x]
    BY <1>0, <1>12 DEF StepGive, Ctl
  <2> QED
    BY <1>a, <2>1, <2>2
<1>13. ASSUME StepInitPublish(t)
      PROVE  \A u \in Tasks : AsleepOk(u)'
  <2> SUFFICES ASSUME NEW u \in Tasks
               PROVE  AsleepOk(u)'
    OBVIOUS
  <2>1. pc'[u] = "vforkAsleep" => /\ pc[u] = "vforkAsleep" /\ loc'[u] = loc[u]
                                  /\ vforkChild'[u] = vforkChild[u]
    <3>1. CASE u = t
      BY <1>0, <1>13, <3>1 DEF StepInitPublish, Ctl
    <3>2. CASE u # t
      BY <1>0, <1>13, <3>2 DEF StepInitPublish, Ctl
    <3> QED
      BY <3>1, <3>2
  <2>2. \A x \in Tasks : pc[x] = "vforkWake" => pc'[x] = "vforkWake" /\ loc'[x] = loc[x]
    BY <1>0, <1>13 DEF StepInitPublish, Ctl
  <2> QED
    BY <1>a, <2>1, <2>2
<1>14. ASSUME NEW w \in SomeTask, StepInitWake(t, w)
      PROVE  \A u \in Tasks : AsleepOk(u)'
  <2> SUFFICES ASSUME NEW u \in Tasks
               PROVE  AsleepOk(u)'
    OBVIOUS
  <2>1. pc'[u] = "vforkAsleep" => /\ pc[u] = "vforkAsleep" /\ loc'[u] = loc[u]
                                  /\ vforkChild'[u] = vforkChild[u]
    <3>1. CASE u = t
      BY <1>0, <1>14, <3>1 DEF StepInitWake, Ctl, AfterAdoption, Asleep, SomeTask
    <3>2. CASE u # t
      BY <1>0, <1>14, <3>2 DEF StepInitWake, Ctl, SomeTask
    <3> QED
      BY <3>1, <3>2
  <2>2. \A x \in Tasks : pc[x] = "vforkWake" => pc'[x] = "vforkWake" /\ loc'[x] = loc[x]
    BY <1>0, <1>14 DEF StepInitWake, Ctl, SomeTask
  <2> QED
    BY <1>a, <2>1, <2>2
<1>15. ASSUME StepWaitSeq(t)
      PROVE  \A u \in Tasks : AsleepOk(u)'
  <2> SUFFICES ASSUME NEW u \in Tasks
               PROVE  AsleepOk(u)'
    OBVIOUS
  <2>1. pc'[u] = "vforkAsleep" => /\ pc[u] = "vforkAsleep" /\ loc'[u] = loc[u]
                                  /\ vforkChild'[u] = vforkChild[u]
    <3>1. CASE u = t
      BY <1>0, <1>15, <3>1 DEF StepWaitSeq, Ctl
    <3>2. CASE u # t
      BY <1>0, <1>15, <3>2 DEF StepWaitSeq, Ctl
    <3> QED
      BY <3>1, <3>2
  <2>2. \A x \in Tasks : pc[x] = "vforkWake" => pc'[x] = "vforkWake" /\ loc'[x] = loc[x]
    BY <1>0, <1>15 DEF StepWaitSeq, Ctl
  <2> QED
    BY <1>a, <2>1, <2>2
<1>16. ASSUME StepWaitList(t)
      PROVE  \A u \in Tasks : AsleepOk(u)'
  <2> SUFFICES ASSUME NEW u \in Tasks
               PROVE  AsleepOk(u)'
    OBVIOUS
  <2>1. pc'[u] = "vforkAsleep" => /\ pc[u] = "vforkAsleep" /\ loc'[u] = loc[u]
                                  /\ vforkChild'[u] = vforkChild[u]
    <3>1. CASE u = t
      BY <1>0, <1>16, <3>1 DEF StepWaitList, Ctl
    <3>2. CASE u # t
      BY <1>0, <1>16, <3>2 DEF StepWaitList, Ctl
    <3> QED
      BY <3>1, <3>2
  <2>2. \A x \in Tasks : pc[x] = "vforkWake" => pc'[x] = "vforkWake" /\ loc'[x] = loc[x]
    BY <1>0, <1>16 DEF StepWaitList, Ctl
  <2> QED
    BY <1>a, <2>1, <2>2
<1>17. ASSUME NEW c \in Procs, StepFound(t, c)
      PROVE  \A u \in Tasks : AsleepOk(u)'
  <2> SUFFICES ASSUME NEW u \in Tasks
               PROVE  AsleepOk(u)'
    OBVIOUS
  <2>1. pc'[u] = "vforkAsleep" => /\ pc[u] = "vforkAsleep" /\ loc'[u] = loc[u]
                                  /\ vforkChild'[u] = vforkChild[u]
    <3>1. CASE u = t
      BY <1>0, <1>17, <3>1 DEF StepFound, Ctl
    <3>2. CASE u # t
      BY <1>0, <1>17, <3>2 DEF StepFound, Ctl
    <3> QED
      BY <3>1, <3>2
  <2>2. \A x \in Tasks : pc[x] = "vforkWake" => pc'[x] = "vforkWake" /\ loc'[x] = loc[x]
    BY <1>0, <1>17 DEF StepFound, Ctl
  <2> QED
    BY <1>a, <2>1, <2>2
<1>18. ASSUME NEW c \in Procs, StepPass(t, c)
      PROVE  \A u \in Tasks : AsleepOk(u)'
  <2> SUFFICES ASSUME NEW u \in Tasks
               PROVE  AsleepOk(u)'
    OBVIOUS
  <2>1. pc'[u] = "vforkAsleep" => /\ pc[u] = "vforkAsleep" /\ loc'[u] = loc[u]
                                  /\ vforkChild'[u] = vforkChild[u]
    <3>1. CASE u = t
      BY <1>0, <1>18, <3>1 DEF StepPass, Ctl
    <3>2. CASE u # t
      BY <1>0, <1>18, <3>2 DEF StepPass, Ctl
    <3> QED
      BY <3>1, <3>2
  <2>2. \A x \in Tasks : pc[x] = "vforkWake" => pc'[x] = "vforkWake" /\ loc'[x] = loc[x]
    BY <1>0, <1>18 DEF StepPass, Ctl
  <2> QED
    BY <1>a, <2>1, <2>2
<1>19. ASSUME StepAgain(t)
      PROVE  \A u \in Tasks : AsleepOk(u)'
  <2> SUFFICES ASSUME NEW u \in Tasks
               PROVE  AsleepOk(u)'
    OBVIOUS
  <2>1. pc'[u] = "vforkAsleep" => /\ pc[u] = "vforkAsleep" /\ loc'[u] = loc[u]
                                  /\ vforkChild'[u] = vforkChild[u]
    <3>1. CASE u = t
      BY <1>0, <1>19, <3>1 DEF StepAgain, Ctl
    <3>2. CASE u # t
      BY <1>0, <1>19, <3>2 DEF StepAgain, Ctl
    <3> QED
      BY <3>1, <3>2
  <2>2. \A x \in Tasks : pc[x] = "vforkWake" => pc'[x] = "vforkWake" /\ loc'[x] = loc[x]
    BY <1>0, <1>19 DEF StepAgain, Ctl
  <2> QED
    BY <1>a, <2>1, <2>2
<1>20. ASSUME StepWaitBlock(t)
      PROVE  \A u \in Tasks : AsleepOk(u)'
  <2> SUFFICES ASSUME NEW u \in Tasks
               PROVE  AsleepOk(u)'
    OBVIOUS
  <2>1. pc'[u] = "vforkAsleep" => /\ pc[u] = "vforkAsleep" /\ loc'[u] = loc[u]
                                  /\ vforkChild'[u] = vforkChild[u]
    <3>1. CASE u = t
      BY <1>0, <1>20, <3>1 DEF StepWaitBlock, Ctl
    <3>2. CASE u # t
      BY <1>0, <1>20, <3>2 DEF StepWaitBlock, Ctl
    <3> QED
      BY <3>1, <3>2
  <2>2. \A x \in Tasks : pc[x] = "vforkWake" => pc'[x] = "vforkWake" /\ loc'[x] = loc[x]
    BY <1>0, <1>20 DEF StepWaitBlock, Ctl
  <2> QED
    BY <1>a, <2>1, <2>2
<1>21. ASSUME StepWin(t)
      PROVE  \A u \in Tasks : AsleepOk(u)'
  <2> SUFFICES ASSUME NEW u \in Tasks
               PROVE  AsleepOk(u)'
    OBVIOUS
  <2>1. pc'[u] = "vforkAsleep" => /\ pc[u] = "vforkAsleep" /\ loc'[u] = loc[u]
                                  /\ vforkChild'[u] = vforkChild[u]
    <3>1. CASE u = t
      BY <1>0, <1>21, <3>1 DEF StepWin, Ctl
    <3>2. CASE u # t
      BY <1>0, <1>21, <3>2 DEF StepWin, Ctl
    <3> QED
      BY <3>1, <3>2
  <2>2. \A x \in Tasks : pc[x] = "vforkWake" => pc'[x] = "vforkWake" /\ loc'[x] = loc[x]
    BY <1>0, <1>21 DEF StepWin, Ctl
  <2> QED
    BY <1>a, <2>1, <2>2
<1>22. ASSUME StepLose(t)
      PROVE  \A u \in Tasks : AsleepOk(u)'
  <2> SUFFICES ASSUME NEW u \in Tasks
               PROVE  AsleepOk(u)'
    OBVIOUS
  <2>1. pc'[u] = "vforkAsleep" => /\ pc[u] = "vforkAsleep" /\ loc'[u] = loc[u]
                                  /\ vforkChild'[u] = vforkChild[u]
    <3>1. CASE u = t
      BY <1>0, <1>22, <3>1 DEF StepLose, Ctl
    <3>2. CASE u # t
      BY <1>0, <1>22, <3>2 DEF StepLose, Ctl
    <3> QED
      BY <3>1, <3>2
  <2>2. \A x \in Tasks : pc[x] = "vforkWake" => pc'[x] = "vforkWake" /\ loc'[x] = loc[x]
    BY <1>0, <1>22 DEF StepLose, Ctl
  <2> QED
    BY <1>a, <2>1, <2>2
<1>23. ASSUME StepFree(t)
      PROVE  \A u \in Tasks : AsleepOk(u)'
  <2> SUFFICES ASSUME NEW u \in Tasks
               PROVE  AsleepOk(u)'
    OBVIOUS
  <2>1. pc'[u] = "vforkAsleep" => /\ pc[u] = "vforkAsleep" /\ loc'[u] = loc[u]
                                  /\ vforkChild'[u] = vforkChild[u]
    <3>1. CASE u = t
      BY <1>0, <1>23, <3>1 DEF StepFree, Ctl, AfterReturn
    <3>2. CASE u # t
      BY <1>0, <1>23, <3>2 DEF StepFree, Ctl
    <3> QED
      BY <3>1, <3>2
  <2>2. \A x \in Tasks : pc[x] = "vforkWake" => pc'[x] = "vforkWake" /\ loc'[x] = loc[x]
    BY <1>0, <1>23 DEF StepFree, Ctl
  <2> QED
    BY <1>a, <2>1, <2>2
<1>24. ASSUME StepCount(t)
      PROVE  \A u \in Tasks : AsleepOk(u)'
  <2> SUFFICES ASSUME NEW u \in Tasks
               PROVE  AsleepOk(u)'
    OBVIOUS
  <2>1. pc'[u] = "vforkAsleep" => /\ pc[u] = "vforkAsleep" /\ loc'[u] = loc[u]
                                  /\ vforkChild'[u] = vforkChild[u]
    <3>1. CASE u = t
      BY <1>0, <1>24, <3>1 DEF StepCount, Ctl
    <3>2. CASE u # t
      BY <1>0, <1>24, <3>2 DEF StepCount, Ctl
    <3> QED
      BY <3>1, <3>2
  <2>2. \A x \in Tasks : pc[x] = "vforkWake" => pc'[x] = "vforkWake" /\ loc'[x] = loc[x]
    BY <1>0, <1>24 DEF StepCount, Ctl
  <2> QED
    BY <1>a, <2>1, <2>2
<1>25. ASSUME StepDetach(t)
      PROVE  \A u \in Tasks : AsleepOk(u)'
  <2> SUFFICES ASSUME NEW u \in Tasks
               PROVE  AsleepOk(u)'
    OBVIOUS
  <2>1. pc'[u] = "vforkAsleep" => /\ pc[u] = "vforkAsleep" /\ loc'[u] = loc[u]
                                  /\ vforkChild'[u] = vforkChild[u]
    <3>1. CASE u = t
      BY <1>0, <1>25, <3>1 DEF StepDetach, Ctl
    <3>2. CASE u # t
      BY <1>0, <1>25, <3>2 DEF StepDetach, Ctl
    <3> QED
      BY <3>1, <3>2
  <2>2. \A x \in Tasks : pc[x] = "vforkWake" => pc'[x] = "vforkWake" /\ loc'[x] = loc[x]
    BY <1>0, <1>25 DEF StepDetach, Ctl
  <2> QED
    BY <1>a, <2>1, <2>2
<1>26. ASSUME StepParent(t)
      PROVE  \A u \in Tasks : AsleepOk(u)'
  <2> SUFFICES ASSUME NEW u \in Tasks
               PROVE  AsleepOk(u)'
    OBVIOUS
  <2>1. pc'[u] = "vforkAsleep" => /\ pc[u] = "vforkAsleep" /\ loc'[u] = loc[u]
                                  /\ vforkChild'[u] = vforkChild[u]
    <3>1. CASE u = t
      BY <1>0, <1>26, <3>1 DEF StepParent, Ctl
    <3>2. CASE u # t
      BY <1>0, <1>26, <3>2 DEF StepParent, Ctl
    <3> QED
      BY <3>1, <3>2
  <2>2. \A x \in Tasks : pc[x] = "vforkWake" => pc'[x] = "vforkWake" /\ loc'[x] = loc[x]
    BY <1>0, <1>26 DEF StepParent, Ctl
  <2> QED
    BY <1>a, <2>1, <2>2
<1>27. ASSUME StepDefer(t)
      PROVE  \A u \in Tasks : AsleepOk(u)'
  <2> SUFFICES ASSUME NEW u \in Tasks
               PROVE  AsleepOk(u)'
    OBVIOUS
  <2>1. pc'[u] = "vforkAsleep" => /\ pc[u] = "vforkAsleep" /\ loc'[u] = loc[u]
                                  /\ vforkChild'[u] = vforkChild[u]
    <3>1. CASE u = t
      BY <1>0, <1>27, <3>1 DEF StepDefer, Ctl
    <3>2. CASE u # t
      BY <1>0, <1>27, <3>2 DEF StepDefer, Ctl
    <3> QED
      BY <3>1, <3>2
  <2>2. \A x \in Tasks : pc[x] = "vforkWake" => pc'[x] = "vforkWake" /\ loc'[x] = loc[x]
    BY <1>0, <1>27 DEF StepDefer, Ctl
  <2> QED
    BY <1>a, <2>1, <2>2
<1>28. ASSUME StepSwitch(t)
      PROVE  \A u \in Tasks : AsleepOk(u)'
  <2> SUFFICES ASSUME NEW u \in Tasks
               PROVE  AsleepOk(u)'
    OBVIOUS
  <2>1. pc'[u] = "vforkAsleep" => /\ pc[u] = "vforkAsleep" /\ loc'[u] = loc[u]
                                  /\ vforkChild'[u] = vforkChild[u]
    <3>1. CASE u = t
      BY <1>0, <1>28, <3>1 DEF StepSwitch, Ctl
    <3>2. CASE u # t
      BY <1>0, <1>28, <3>2 DEF StepSwitch, Ctl
    <3> QED
      BY <3>1, <3>2
  <2>2. \A x \in Tasks : pc[x] = "vforkWake" => pc'[x] = "vforkWake" /\ loc'[x] = loc[x]
    BY <1>0, <1>28 DEF StepSwitch, Ctl
  <2> QED
    BY <1>a, <2>1, <2>2
<1>29. ASSUME StepGroup(t)
      PROVE  \A u \in Tasks : AsleepOk(u)'
  <2> SUFFICES ASSUME NEW u \in Tasks
               PROVE  AsleepOk(u)'
    OBVIOUS
  <2>1. pc'[u] = "vforkAsleep" => /\ pc[u] = "vforkAsleep" /\ loc'[u] = loc[u]
                                  /\ vforkChild'[u] = vforkChild[u]
    <3>1. CASE u = t
      BY <1>0, <1>29, <3>1 DEF StepGroup, Ctl
    <3>2. CASE u # t
      BY <1>0, <1>29, <3>2 DEF StepGroup, Ctl
    <3> QED
      BY <3>1, <3>2
  <2>2. \A x \in Tasks : pc[x] = "vforkWake" => pc'[x] = "vforkWake" /\ loc'[x] = loc[x]
    BY <1>0, <1>29 DEF StepGroup, Ctl
  <2> QED
    BY <1>a, <2>1, <2>2
<1>30. ASSUME NEW k \in Procs, StepKill(t, k)
      PROVE  \A u \in Tasks : AsleepOk(u)'
  <2> SUFFICES ASSUME NEW u \in Tasks
               PROVE  AsleepOk(u)'
    OBVIOUS
  <2>1. pc'[u] = "vforkAsleep" => /\ pc[u] = "vforkAsleep" /\ loc'[u] = loc[u]
                                  /\ vforkChild'[u] = vforkChild[u]
    <3>1. CASE u = t
      BY <1>0, <1>30, <3>1 DEF StepKill, Ctl
    <3>2. CASE u # t
      BY <1>0, <1>30, <3>2 DEF StepKill, Ctl
    <3> QED
      BY <3>1, <3>2
  <2>2. \A x \in Tasks : pc[x] = "vforkWake" => pc'[x] = "vforkWake" /\ loc'[x] = loc[x]
    BY <1>0, <1>30 DEF StepKill, Ctl
  <2> QED
    BY <1>a, <2>1, <2>2
<1>31. ASSUME NEW w \in Tasks, StepFlag(t, w)
      PROVE  \A u \in Tasks : AsleepOk(u)'
  <2> SUFFICES ASSUME NEW u \in Tasks
               PROVE  AsleepOk(u)'
    OBVIOUS
  <2>1. pc'[u] = "vforkAsleep" => /\ pc[u] = "vforkAsleep" /\ loc'[u] = loc[u]
                                  /\ vforkChild'[u] = vforkChild[u]
    <3>1. CASE u = t
      BY <1>0, <1>31, <3>1 DEF StepFlag, Ctl
    <3>2. CASE u # t
      BY <1>0, <1>31, <3>2 DEF StepFlag, Ctl
    <3> QED
      BY <3>1, <3>2
  <2>2. \A x \in Tasks : pc[x] = "vforkWake" => pc'[x] = "vforkWake" /\ loc'[x] = loc[x]
    BY <1>0, <1>31 DEF StepFlag, Ctl
  <2> QED
    BY <1>a, <2>1, <2>2
<1>32. ASSUME NEW w \in Tasks, StepFlagOnly(t, w)
      PROVE  \A u \in Tasks : AsleepOk(u)'
  <2> SUFFICES ASSUME NEW u \in Tasks
               PROVE  AsleepOk(u)'
    OBVIOUS
  <2>1. pc'[u] = "vforkAsleep" => /\ pc[u] = "vforkAsleep" /\ loc'[u] = loc[u]
                                  /\ vforkChild'[u] = vforkChild[u]
    <3>1. CASE u = t
      BY <1>0, <1>32, <3>1 DEF StepFlagOnly, Ctl
    <3>2. CASE u # t
      BY <1>0, <1>32, <3>2 DEF StepFlagOnly, Ctl
    <3> QED
      BY <3>1, <3>2
  <2>2. \A x \in Tasks : pc[x] = "vforkWake" => pc'[x] = "vforkWake" /\ loc'[x] = loc[x]
    BY <1>0, <1>32 DEF StepFlagOnly, Ctl
  <2> QED
    BY <1>a, <2>1, <2>2
<1>33. ASSUME StepNotify(t)
      PROVE  \A u \in Tasks : AsleepOk(u)'
  <2> SUFFICES ASSUME NEW u \in Tasks
               PROVE  AsleepOk(u)'
    OBVIOUS
  <2>1. pc'[u] = "vforkAsleep" => /\ pc[u] = "vforkAsleep" /\ loc'[u] = loc[u]
                                  /\ vforkChild'[u] = vforkChild[u]
    <3>1. CASE u = t
      BY <1>0, <1>33, <3>1 DEF StepNotify, Ctl
    <3>2. CASE u # t
      BY <1>0, <1>33, <3>2 DEF StepNotify, Ctl
    <3> QED
      BY <3>1, <3>2
  <2>2. \A x \in Tasks : pc[x] = "vforkWake" => pc'[x] = "vforkWake" /\ loc'[x] = loc[x]
    BY <1>0, <1>33 DEF StepNotify, Ctl
  <2> QED
    BY <1>a, <2>1, <2>2
<1>34. ASSUME StepFinish(t)
      PROVE  \A u \in Tasks : AsleepOk(u)'
  <2> SUFFICES ASSUME NEW u \in Tasks
               PROVE  AsleepOk(u)'
    OBVIOUS
  <2>1. pc'[u] = "vforkAsleep" => /\ pc[u] = "vforkAsleep" /\ loc'[u] = loc[u]
                                  /\ vforkChild'[u] = vforkChild[u]
    <3>1. CASE u = t
      BY <1>0, <1>34, <3>1 DEF StepFinish, Ctl
    <3>2. CASE u # t
      BY <1>0, <1>34, <3>2 DEF StepFinish, Ctl
    <3> QED
      BY <3>1, <3>2
  <2>2. \A x \in Tasks : pc[x] = "vforkWake" => pc'[x] = "vforkWake" /\ loc'[x] = loc[x]
    BY <1>0, <1>34 DEF StepFinish, Ctl
  <2> QED
    BY <1>a, <2>1, <2>2
<1>35. ASSUME StepEvent(t)
      PROVE  \A u \in Tasks : AsleepOk(u)'
  <2> SUFFICES ASSUME NEW u \in Tasks
               PROVE  AsleepOk(u)'
    OBVIOUS
  <2>1. pc'[u] = "vforkAsleep" => /\ pc[u] = "vforkAsleep" /\ loc'[u] = loc[u]
                                  /\ vforkChild'[u] = vforkChild[u]
    <3>1. CASE u = t
      BY <1>0, <1>35, <3>1 DEF StepEvent, Ctl
    <3>2. CASE u # t
      BY <1>0, <1>35, <3>2 DEF StepEvent, Ctl
    <3> QED
      BY <3>1, <3>2
  <2>2. \A x \in Tasks : pc[x] = "vforkWake" => pc'[x] = "vforkWake" /\ loc'[x] = loc[x]
    BY <1>0, <1>35 DEF StepEvent, Ctl
  <2> QED
    BY <1>a, <2>1, <2>2
<1>36. ASSUME StepCollect(t)
      PROVE  \A u \in Tasks : AsleepOk(u)'
  <2> SUFFICES ASSUME NEW u \in Tasks
               PROVE  AsleepOk(u)'
    OBVIOUS
  <2>1. pc'[u] = "vforkAsleep" => /\ pc[u] = "vforkAsleep" /\ loc'[u] = loc[u]
                                  /\ vforkChild'[u] = vforkChild[u]
    <3>1. CASE u = t
      BY <1>0, <1>36, <3>1 DEF StepCollect, Ctl
    <3>2. CASE u # t
      BY <1>0, <1>36, <3>2 DEF StepCollect, Ctl
    <3> QED
      BY <3>1, <3>2
  <2>2. \A x \in Tasks : pc[x] = "vforkWake" => pc'[x] = "vforkWake" /\ loc'[x] = loc[x]
    BY <1>0, <1>36 DEF StepCollect, Ctl
  <2> QED
    BY <1>a, <2>1, <2>2
<1>37. ASSUME NEW w \in Tasks, StepWakeOne(t, w)
      PROVE  \A u \in Tasks : AsleepOk(u)'
  <2> SUFFICES ASSUME NEW u \in Tasks
               PROVE  AsleepOk(u)'
    OBVIOUS
  <2>1. pc'[u] = "vforkAsleep" => /\ pc[u] = "vforkAsleep" /\ loc'[u] = loc[u]
                                  /\ vforkChild'[u] = vforkChild[u]
    <3>1. CASE u = t
      BY <1>0, <1>37, <3>1 DEF StepWakeOne, Ctl
    <3>2. CASE u # t
      BY <1>0, <1>37, <3>2 DEF StepWakeOne, Ctl
    <3> QED
      BY <3>1, <3>2
  <2>2. \A x \in Tasks : pc[x] = "vforkWake" => pc'[x] = "vforkWake" /\ loc'[x] = loc[x]
    BY <1>0, <1>37 DEF StepWakeOne, Ctl
  <2> QED
    BY <1>a, <2>1, <2>2
<1>38. ASSUME StepWakesDone(t)
      PROVE  \A u \in Tasks : AsleepOk(u)'
  <2> SUFFICES ASSUME NEW u \in Tasks
               PROVE  AsleepOk(u)'
    OBVIOUS
  <2>1. pc'[u] = "vforkAsleep" => /\ pc[u] = "vforkAsleep" /\ loc'[u] = loc[u]
                                  /\ vforkChild'[u] = vforkChild[u]
    <3>1. CASE u = t
      BY <1>0, <1>38, <3>1 DEF StepWakesDone, Ctl
    <3>2. CASE u # t
      BY <1>0, <1>38, <3>2 DEF StepWakesDone, Ctl
    <3> QED
      BY <3>1, <3>2
  <2>2. \A x \in Tasks : pc[x] = "vforkWake" => pc'[x] = "vforkWake" /\ loc'[x] = loc[x]
    BY <1>0, <1>38 DEF StepWakesDone, Ctl
  <2> QED
    BY <1>a, <2>1, <2>2
<1> QED
  BY <1>1, <1>2, <1>3, <1>4, <1>5, <1>6, <1>7, <1>8, <1>9, <1>10, <1>11, <1>12, <1>13,
     <1>14, <1>15, <1>16, <1>17, <1>18, <1>19, <1>20, <1>21, <1>22, <1>23, <1>24, <1>25,
     <1>26, <1>27, <1>28, <1>29, <1>30, <1>31, <1>32, <1>33, <1>34, <1>35, <1>36, <1>37,
     <1>38
  DEF Step

\* Initially nobody is in vfork.
LEMMA HandInit ==
  ASSUME Init
  PROVE  HandInv
<1>1. \A t \in Tasks : pc[t] \in {"user", "unborn"} /\ vforkChild[t] = Nobody
  BY InitFacts
<1> QED
  BY <1>1 DEF HandInv, ChildBorn, AsleepOk, MakingOk, Making, AwaitsOk, Awaits, VforkWaits

\* HandInv is kept as long as a child is published before it is runnable,
LEMMA HandNext ==
  ASSUME LifeInv, OwedInv, HandInv, [Next]_vars, PublishedBeforeRunnable'
  PROVE  HandInv'
<1>1. CASE UNCHANGED vars
  <2>1. proc' = proc /\ pc' = pc /\ loc' = loc /\ vforkChild' = vforkChild
    BY <1>1 DEF vars
  <2>2. ASSUME NEW t \in Tasks
        PROVE  ChildBorn(t)' /\ AsleepOk(t)'
    BY <2>1 DEF HandInv, ChildBorn, AsleepOk
  <2>3. ASSUME NEW t \in Tasks, NEW c \in Procs
        PROVE  MakingOk(t, c)' /\ AwaitsOk(t, c)'
    BY <2>1 DEF HandInv, MakingOk, Making, AwaitsOk, Awaits, VforkWaits, Pays, ThreadsOf
  <2> QED
    BY <2>2, <2>3 DEF HandInv
<1>2. ASSUME NEW t \in Tasks, Step(t)
      PROVE  HandInv'
  BY <1>2, ChildBornStep, MakingStep, AwaitsStep, AsleepStep DEF HandInv
<1> QED
  BY <1>1, <1>2, NextIsStep DEF LifeInv, ReapInv

\* and is the handshake.
LEMMA HandImpliesHandshake ==
  ASSUME LifeInv, OwedInv, HandInv
  PROVE  VforkHandshake
<1>1. VforkSuspends
  BY OwedImpliesVforkSuspends
<1>2. ASSUME NEW t \in Tasks, pc[t] = "vforkAsleep"
      PROVE  \/ proc[loc[t].of].vforkParent = t
             \/ \E u \in Tasks : CompletesVfork(u, t)
  <2>1. loc[t].of \in Procs /\ loc[t].why = "vfork"
    BY <1>2 DEF LifeInv, ReapInv, ControlInv, Ctl, ForkLabels
  <2>2. AwaitsOk(t, loc[t].of) /\ AsleepOk(t)
    BY <2>1 DEF HandInv
  <2>3. CASE vforkChild[t] = loc[t].of
    <3>1. Awaits(t, loc[t].of)
      BY <1>2, <2>1, <2>3 DEF Awaits, VforkWaits
    <3> QED
      BY <2>2, <3>1 DEF AwaitsOk, Pays, CompletesVfork, ThreadsOf
  <2>4. CASE vforkChild[t] # loc[t].of
    BY <1>2, <2>2, <2>4 DEF AsleepOk, CompletesVfork
  <2> QED
    BY <2>3, <2>4
<1> QED
  BY <1>1, <1>2 DEF VforkHandshake, VforkSuspends

(* The whole of the vfork handshake rests on the order the code announces:    *)
(* in a behaviour where the parent's vfork_child_pid is always published      *)
(* before the child becomes runnable, no parent of a vfork sleeps after the   *)
(* child has exec'ed or exited, unless the child is on its way to wake it.    *)
(* (A signal can make the child runnable before; a run shows it.)             *)
THEOREM PublishedVforkIsCompleted == Spec /\ []PublishedBeforeRunnable => []VforkHandshake
<1>1. Init => HandInv
  BY HandInit
<1>2. LifeInv /\ OwedInv /\ HandInv /\ [Next]_vars /\ PublishedBeforeRunnable' => HandInv'
  BY HandNext
<1>3. LifeInv /\ OwedInv /\ HandInv => VforkHandshake
  BY HandImpliesHandshake
<1> QED
  BY <1>1, <1>2, <1>3, LifeInvariant, OwedInvariant, PTL DEF Spec

=============================================================================
