---------------------------- MODULE ProcessSteps -----------------------------
(***************************************************************************)
(* What each step of Process does, component by component.  The actions of *)
(* Process update records inside functions; the invariants speak of single *)
(* fields.  Every action is taken apart here once, into one or two         *)
(* elementary steps that say what becomes of each field, and keeps its     *)
(* types; the proofs about Process (modules ProcessProofs and              *)
(* ProcessWaitProofs) then reason about the elementary steps alone.        *)
(***************************************************************************)
EXTENDS Process, FiniteSetTheorems, TLAPS

USE ProcessAssumption

-----------------------------------------------------------------------------
(* Types *)

Life == {"unborn", "made", "live", "reaped"}
Stage == {"none", "queued", "publish", "collect", "wake", "done"}
SomeProc == Procs \cup {Nobody}
SomeTask == Tasks \cup {Nobody}

ProcRecord ==
  [life : Life, zombie : BOOLEAN, alive : Nat, pending : BOOLEAN, parent : SomeProc,
   children : SUBSET Procs, seq : Nat, vforkParent : SomeTask, tasks : SUBSET Tasks]

LocalRecord ==
  [why : Why, of : SomeProc, seq : Nat, todo : SUBSET Procs, found : BOOLEAN,
   switching : BOOLEAN, moved : SUBSET Procs, wakeInit : BOOLEAN,
   threads : SUBSET Tasks, last : BOOLEAN, parent : SomeProc,
   vforkParent : SomeTask, who : SomeTask]

EntryRecord ==
  [st : Stage, final : BOOLEAN, parent : SomeProc, waiters : SUBSET Tasks]

Types ==
  /\ proc \in [Procs -> ProcRecord] /\ pc \in [Tasks -> Labels]
  /\ prog \in [Tasks -> Seq(Calls)] /\ loc \in [Tasks -> LocalRecord]
  /\ token \in [Tasks -> BOOLEAN] /\ flag \in [Tasks -> BOOLEAN]
  /\ vforkChild \in [Tasks -> SomeProc] /\ deferred \in [Tasks -> EntryRecord]
  /\ adopted \in SUBSET Procs

-----------------------------------------------------------------------------
(* Control: what a task's locals hold, by where it is *)

ForkLabels == {"forkPush", "forkPublish", "forkStart", "vforkBlock", "vforkAsleep"}
WaitLabels == {"waitSeq", "waitList", "waitScan", "waitBlock", "waitAsleep", "waitRemove"}
ExitLabels == {"exitDetach", "exitParent", "exitDefer", "exitSwitch", "gone", "rerun"}

Ctl(t) ==
  /\ pc[t] \in {"unborn", "nascent", "user", "exitCount"} => loc[t].why = "call"
  /\ pc[t] \in ForkLabels => loc[t].why \in {"fork", "vfork"}
                             /\ loc[t].of \in Procs \ {ProcOf[t]}
  /\ pc[t] \in {"forkPublish", "vforkBlock", "vforkAsleep"} => loc[t].why = "vfork"
  /\ pc[t] \in WaitLabels => loc[t].why = "wait"
  /\ pc[t] = "waitFree" => loc[t].why = "reap"
  /\ pc[t] \in {"rpTake", "rpEach"} => loc[t].why \in {"kill", "exit", "reap"}
  /\ pc[t] \in {"rpTake", "rpEach", "waitFree", "waitRemove"} => loc[t].of \in Procs
  /\ pc[t] \in {"initPublish", "initWake"} => loc[t].why \in {"kill", "exit"}
  /\ pc[t] \in {"vforkClear", "vforkWake"} =>
       loc[t].why \in {"call", "exit"} /\ loc[t].vforkParent \in Tasks
  /\ pc[t] \in ExitLabels => loc[t].why = "exit"
  /\ pc[t] \in {"notify", "notifyWake"} => loc[t].why \in {"kill", "group"}
  /\ pc[t] = "notifyWake" => loc[t].who \in Tasks
  /\ deferred[t].st \in {"publish", "collect"} => deferred[t].parent \in Procs
  /\ deferred[t].st # "none" => pc[t] \in {"exitSwitch", "gone", "rerun"}
  /\ deferred[t].st \notin {"none", "queued"} => pc[t] \in {"gone", "rerun"}

\* The threads that alive_thread_count counts.
LiveThreads(p) == {t \in ThreadsOf(p) : pc[t] # "unborn" /\ loc[t].why # "exit"}

CountOk(p) ==
  /\ proc[p].tasks \subseteq ThreadsOf(p)
  /\ proc[p].life = "unborn" => \A t \in ThreadsOf(p) : pc[t] = "unborn"
  /\ proc[p].alive = Cardinality(LiveThreads(p))
  /\ proc[p].pending => Dead(p)

ControlInv ==
  /\ Types
  /\ \A t \in Tasks : Ctl(t)
  /\ \A p \in Procs : CountOk(p)

-----------------------------------------------------------------------------
(* The parts of a step *)

PcOthers(t) == \A u \in Tasks \ {t} : pc'[u] = pc[u]
PcTo(t, label) == pc'[t] = label /\ PcOthers(t)

\* The place of a task after a wakeup, or after the enqueue at the end of the
\* fork that created it.
WokenTo(u) ==
  /\ pc[u] = "vforkAsleep" => pc'[u] = "vforkBlock"
  /\ pc[u] = "waitAsleep" => pc'[u] = "waitSeq"
  /\ pc[u] = "nascent" => pc'[u] = "user"
  /\ pc[u] = "gone" => pc'[u] \in {"gone", "rerun"}
  /\ pc[u] \notin {"vforkAsleep", "waitAsleep", "nascent", "gone"} => pc'[u] = pc[u]

PcWakes(t, label, u) ==
  /\ pc'[t] = label
  /\ \A x \in Tasks \ {t, u} : pc'[x] = pc[x]
  /\ u \in Tasks \ {t} => WokenTo(u)

LocOthers(t) == \A u \in Tasks \ {t} : loc'[u] = loc[u]
KeepJob(t)   == loc'[t].why = loc[t].why /\ loc'[t].of = loc[t].of
KeepScan(t)  == loc'[t].seq = loc[t].seq /\ loc'[t].todo = loc[t].todo
                /\ loc'[t].switching = loc[t].switching
KeepMoved(t) == loc'[t].moved = loc[t].moved
KeepExit(t)  == loc'[t].last = loc[t].last /\ loc'[t].parent = loc[t].parent
KeepVfork(t) == loc'[t].vforkParent = loc[t].vforkParent
KeepKill(t)  == loc'[t].threads = loc[t].threads /\ loc'[t].who = loc[t].who

\* The locals of a call that begins, or is over.
Fresh(t) ==
  /\ loc'[t].todo = {} /\ loc'[t].switching = FALSE /\ loc'[t].moved = {}
  /\ loc'[t].threads = {} /\ loc'[t].who = Nobody
  /\ loc'[t].parent = Nobody /\ loc'[t].vforkParent = Nobody

Reset(t) ==
  /\ loc'[t].why = "call" /\ loc'[t].of = Nobody /\ loc'[t].seq = 0 /\ loc'[t].last = FALSE
  /\ Fresh(t) /\ LocOthers(t)

ProcOthers(p) == \A q \in Procs \ {p} : proc'[q] = proc[q]
KeepLife(p)   == proc'[p].life = proc[p].life
KeepCount(p)  == proc'[p].zombie = proc[p].zombie /\ proc'[p].alive = proc[p].alive
KeepPending(p) == proc'[p].pending = proc[p].pending
KeepFamily(p) == proc'[p].parent = proc[p].parent /\ proc'[p].children = proc[p].children
KeepSeq(p)    == proc'[p].seq = proc[p].seq
KeepVparent(p) == proc'[p].vforkParent = proc[p].vforkParent
KeepSlots(p)  == proc'[p].tasks = proc[p].tasks

SetChildren(p, new) ==
  /\ proc'[p].children = new /\ proc'[p].parent = proc[p].parent
  /\ KeepLife(p) /\ KeepCount(p) /\ KeepPending(p) /\ KeepSeq(p) /\ KeepVparent(p)
  /\ KeepSlots(p) /\ ProcOthers(p)

SetParent(p, new) ==
  /\ proc'[p].parent = new /\ proc'[p].children = proc[p].children
  /\ KeepLife(p) /\ KeepCount(p) /\ KeepPending(p) /\ KeepSeq(p) /\ KeepVparent(p)
  /\ KeepSlots(p) /\ ProcOthers(p)

NextSeq(p) ==
  /\ proc'[p].seq = proc[p].seq + 1
  /\ KeepLife(p) /\ KeepCount(p) /\ KeepPending(p) /\ KeepFamily(p) /\ KeepVparent(p)
  /\ KeepSlots(p) /\ ProcOthers(p)

ClearVparent(p) ==
  /\ proc'[p].vforkParent = Nobody
  /\ KeepLife(p) /\ KeepCount(p) /\ KeepPending(p) /\ KeepFamily(p) /\ KeepSeq(p)
  /\ KeepSlots(p) /\ ProcOthers(p)

SetZombie(p) ==
  /\ proc'[p].zombie = TRUE /\ proc'[p].alive = proc[p].alive
  /\ KeepLife(p) /\ KeepPending(p) /\ KeepFamily(p) /\ KeepSeq(p) /\ KeepVparent(p)
  /\ KeepSlots(p) /\ ProcOthers(p)

SetSlots(p, new) ==
  /\ proc'[p].tasks = new
  /\ KeepLife(p) /\ KeepCount(p) /\ KeepPending(p) /\ KeepFamily(p) /\ KeepSeq(p)
  /\ KeepVparent(p) /\ ProcOthers(p)

SetPending(p, new) ==
  /\ proc'[p].pending <=> new
  /\ KeepLife(p) /\ KeepCount(p) /\ KeepFamily(p) /\ KeepSeq(p) /\ KeepVparent(p)
  /\ KeepSlots(p) /\ ProcOthers(p)

EntryOthers(t) == \A u \in Tasks \ {t} : deferred'[u] = deferred[u]

SetStage(t, new) ==
  /\ deferred'[t].st = new /\ deferred'[t].final = deferred[t].final
  /\ deferred'[t].parent = deferred[t].parent /\ deferred'[t].waiters = deferred[t].waiters
  /\ EntryOthers(t)

ProgOthers(t) == \A u \in Tasks \ {t} : prog'[u] = prog[u]

-----------------------------------------------------------------------------
(* The elementary steps *)

\* The end of a system call.
StepReturn(t) ==
  /\ \/ pc[t] \in {"user", "waitScan", "notify"}
     \/ pc[t] = "vforkBlock" /\ (vforkChild[t] # loc[t].of \/ proc[ProcOf[t]].zombie)
  /\ PcTo(t, AfterReturn(t)) /\ Reset(t) /\ ProgOthers(t)
  /\ UNCHANGED <<proc, vforkChild, deferred, adopted>>

\* The child and its leader are made.
StepFork(t, c, v) ==
  /\ c \in Procs /\ v \in BOOLEAN /\ pc[t] = "user" /\ proc[c].life = "unborn"
  /\ t # Leader[c] /\ ProcOf[t] # c
  /\ proc'[c].life = "made" /\ proc'[c].zombie = FALSE /\ proc'[c].alive = 1
  /\ proc'[c].pending = FALSE /\ proc'[c].parent = ProcOf[t] /\ proc'[c].children = {}
  /\ proc'[c].vforkParent = (IF v THEN t ELSE Nobody) /\ proc'[c].tasks = {Leader[c]}
  /\ ProcOthers(c)
  /\ pc'[t] = "forkPush" /\ pc'[Leader[c]] = "nascent"
  /\ \A u \in Tasks \ {t, Leader[c]} : pc'[u] = pc[u]
  /\ loc'[t].of = c /\ loc'[t].why = (IF v THEN "vfork" ELSE "fork")
  /\ KeepScan(t) /\ KeepMoved(t) /\ KeepExit(t) /\ KeepVfork(t) /\ KeepKill(t) /\ LocOthers(t)
  /\ ProgOthers(t) /\ UNCHANGED <<vforkChild, deferred, adopted>>

\* The child becomes visible.
StepPush(t) ==
  /\ pc[t] = "forkPush"
  /\ \A q \in Procs :
       /\ proc'[q].children = IF q = ProcOf[t] THEN proc[q].children \cup {loc[t].of}
                                               ELSE proc[q].children
       /\ proc'[q].life = IF q = loc[t].of THEN "live" ELSE proc[q].life
       /\ proc'[q].parent = proc[q].parent
       /\ KeepCount(q) /\ KeepPending(q) /\ KeepSeq(q) /\ KeepVparent(q) /\ KeepSlots(q)
  /\ PcTo(t, IF loc[t].why = "vfork" THEN "forkPublish" ELSE "forkStart")
  /\ UNCHANGED <<prog, loc, vforkChild, deferred, adopted>>

\* vfork_child_pid is set.
StepPublish(t) ==
  /\ pc[t] = "forkPublish"
  /\ vforkChild'[t] = loc[t].of /\ \A u \in Tasks \ {t} : vforkChild'[u] = vforkChild[u]
  /\ PcTo(t, "forkStart")
  /\ UNCHANGED <<proc, prog, loc, deferred, adopted>>

\* The child is made runnable.
StepStart(t) ==
  /\ pc[t] = "forkStart" /\ t # Leader[loc[t].of]
  /\ pc'[t] = (IF loc[t].why = "vfork" THEN "vforkBlock" ELSE AfterReturn(t))
  /\ \A u \in Tasks \ {t, Leader[loc[t].of]} : pc'[u] = pc[u]
  /\ pc[Leader[loc[t].of]] = "nascent" => pc'[Leader[loc[t].of]] = "user"
  /\ pc[Leader[loc[t].of]] = "gone" => pc'[Leader[loc[t].of]] = "rerun"
  /\ pc[Leader[loc[t].of]] \notin {"nascent", "gone"}
       => pc'[Leader[loc[t].of]] = pc[Leader[loc[t].of]]
  /\ IF loc[t].why = "vfork" THEN loc' = loc ELSE Reset(t)
  /\ UNCHANGED <<proc, prog, vforkChild, deferred, adopted>>

\* The parent of a vfork goes to sleep, or finds a wakeup.
StepVforkBlock(t) ==
  /\ pc[t] = "vforkBlock" /\ vforkChild[t] = loc[t].of
  /\ pc'[t] \in {"vforkBlock", "vforkAsleep"} /\ PcOthers(t)
  /\ UNCHANGED <<proc, prog, loc, vforkChild, deferred, adopted>>

\* exec takes the PCB's vfork_parent.
StepExec(t) ==
  /\ pc[t] = "user" /\ ClearVparent(ProcOf[t])
  /\ PcTo(t, IF proc[ProcOf[t]].vforkParent = Nobody THEN AfterReturn(t) ELSE "vforkClear")
  /\ loc'[t].vforkParent = proc[ProcOf[t]].vforkParent
  /\ KeepJob(t) /\ KeepScan(t) /\ KeepMoved(t) /\ KeepExit(t) /\ KeepKill(t) /\ LocOthers(t)
  /\ ProgOthers(t) /\ UNCHANGED <<vforkChild, deferred, adopted>>

\* The parent's vfork_child_pid is cleared, if it is this child.
StepVforkClear(t) ==
  /\ pc[t] = "vforkClear"
  /\ LET v == loc[t].vforkParent
         matched == vforkChild[v] = ProcOf[t]
     IN  /\ vforkChild'[v] = (IF matched THEN Nobody ELSE vforkChild[v])
         /\ \A u \in Tasks \ {v} : vforkChild'[u] = vforkChild[u]
         /\ IF matched /\ Asleep(v) THEN PcTo(t, "vforkWake") /\ loc' = loc
            ELSE /\ PcTo(t, AfterVfork(t))
                 /\ IF loc[t].why = "exit" THEN loc' = loc ELSE Reset(t)
  /\ UNCHANGED <<proc, prog, deferred, adopted>>

\* The parent of a vfork is woken.
StepVforkWake(t) ==
  /\ pc[t] = "vforkWake" /\ PcWakes(t, AfterVfork(t), loc[t].vforkParent)
  /\ IF loc[t].why = "exit" THEN loc' = loc ELSE Reset(t)
  /\ UNCHANGED <<proc, prog, vforkChild, deferred, adopted>>

\* The children of a process are taken from it.
StepTake(t) ==
  /\ pc[t] = "rpTake" /\ SetChildren(loc[t].of, {}) /\ PcTo(t, "rpEach")
  /\ loc'[t].todo = proc[loc[t].of].children /\ loc'[t].moved = {}
  /\ loc'[t].seq = loc[t].seq /\ loc'[t].switching = loc[t].switching
  /\ KeepJob(t) /\ KeepExit(t) /\ KeepVfork(t) /\ KeepKill(t) /\ LocOthers(t)
  /\ UNCHANGED <<prog, vforkChild, deferred, adopted>>

\* One child gets init as its parent.
StepEach(t, c) ==
  /\ pc[t] = "rpEach" /\ c \in loc[t].todo /\ c \in Procs /\ SetParent(c, InitProc)
  /\ loc'[t].todo = loc[t].todo \ {c} /\ loc'[t].moved = loc[t].moved \cup {c}
  /\ loc'[t].seq = loc[t].seq /\ loc'[t].switching = loc[t].switching
  /\ KeepJob(t) /\ KeepExit(t) /\ KeepVfork(t) /\ KeepKill(t) /\ LocOthers(t)
  /\ adopted' = adopted \cup {c}
  /\ UNCHANGED <<pc, prog, vforkChild, deferred>>

\* Init gets the children.
StepGive(t) ==
  /\ pc[t] = "rpEach" /\ loc[t].todo = {}
  /\ SetChildren(InitProc, proc[InitProc].children \cup loc[t].moved)
  /\ PcTo(t, AfterReparent(t))
  /\ UNCHANGED <<prog, loc, vforkChild, deferred, adopted>>

\* Init's event number.
StepInitPublish(t) ==
  /\ pc[t] = "initPublish" /\ NextSeq(InitProc) /\ PcTo(t, "initWake")
  /\ UNCHANGED <<prog, loc, vforkChild, deferred, adopted>>

\* One sleeping thread of init is woken, or there is none.
StepInitWake(t, u) ==
  /\ pc[t] = "initWake" /\ u \in SomeTask /\ (u # Nobody => Asleep(u))
  /\ PcWakes(t, AfterAdoption(t), u)
  /\ UNCHANGED <<proc, prog, loc, vforkChild, deferred, adopted>>

\* wait4 reads the event number.
StepWaitSeq(t) ==
  /\ pc[t] \in {"user", "waitSeq"} /\ PcTo(t, "waitList")
  /\ loc'[t].why = "wait" /\ loc'[t].of = Nobody /\ loc'[t].seq = proc[ProcOf[t]].seq
  /\ loc'[t].last = FALSE /\ Fresh(t) /\ LocOthers(t)
  /\ UNCHANGED <<proc, prog, vforkChild, deferred, adopted>>

\* It reads the list of children.
StepWaitList(t) ==
  /\ pc[t] = "waitList" /\ PcTo(t, "waitScan")
  /\ loc'[t].todo = proc[ProcOf[t]].children
  /\ loc'[t].seq = loc[t].seq /\ loc'[t].switching = loc[t].switching
  /\ KeepJob(t) /\ KeepMoved(t) /\ KeepExit(t) /\ KeepVfork(t) /\ KeepKill(t) /\ LocOthers(t)
  /\ UNCHANGED <<proc, prog, vforkChild, deferred, adopted>>

\* A child that can be reaped.
StepFound(t, c) ==
  /\ pc[t] = "waitScan" /\ c \in loc[t].todo /\ c \in Procs /\ Dead(c) /\ TasksQuiescent(c)
  /\ PcTo(t, "waitRemove") /\ loc'[t].of = c /\ loc'[t].why = loc[t].why
  /\ KeepScan(t) /\ KeepMoved(t) /\ KeepExit(t) /\ KeepVfork(t) /\ KeepKill(t) /\ LocOthers(t)
  /\ UNCHANGED <<proc, prog, vforkChild, deferred, adopted>>

\* A child that cannot be reaped yet.
StepPass(t, c) ==
  /\ pc[t] = "waitScan" /\ c \in loc[t].todo /\ c \in Procs
  /\ loc'[t].todo = loc[t].todo \ {c} /\ loc'[t].seq = loc[t].seq
  /\ loc'[t].switching <=> (loc[t].switching \/ (Wanted(t, c) /\ Dead(c)))
  /\ KeepJob(t) /\ KeepMoved(t) /\ KeepExit(t) /\ KeepVfork(t) /\ KeepKill(t) /\ LocOthers(t)
  /\ UNCHANGED <<proc, pc, prog, vforkChild, deferred, adopted>>

\* Nothing found: wait4 starts again or is about to block.
StepAgain(t) ==
  /\ pc[t] = "waitScan" /\ loc[t].todo = {}
  /\ PcTo(t, IF loc[t].switching THEN "waitSeq" ELSE "waitBlock")
  /\ UNCHANGED <<proc, prog, loc, vforkChild, deferred, adopted>>

\* wait4 goes to sleep, unless something has happened.
StepWaitBlock(t) ==
  /\ pc[t] = "waitBlock" /\ pc'[t] \in {"waitSeq", "waitAsleep"} /\ PcOthers(t)
  /\ pc'[t] = "waitAsleep" => loc[t].seq = proc[ProcOf[t]].seq
  /\ UNCHANGED <<proc, prog, loc, vforkChild, deferred, adopted>>

\* This thread removes the child and will reap it.
StepWin(t) ==
  /\ pc[t] = "waitRemove" /\ loc[t].of \in proc[ProcOf[t]].children
  /\ SetChildren(ProcOf[t], proc[ProcOf[t]].children \ {loc[t].of})
  /\ PcTo(t, "rpTake") /\ loc'[t].why = "reap" /\ loc'[t].of = loc[t].of
  /\ KeepScan(t) /\ KeepMoved(t) /\ KeepExit(t) /\ KeepVfork(t) /\ KeepKill(t) /\ LocOthers(t)
  /\ UNCHANGED <<prog, vforkChild, deferred, adopted>>

\* Another thread was faster.
StepLose(t) ==
  /\ pc[t] = "waitRemove" /\ PcTo(t, "waitSeq")
  /\ UNCHANGED <<proc, prog, loc, vforkChild, deferred, adopted>>

\* The rest of reap_zombie_child.
StepFree(t) ==
  /\ pc[t] = "waitFree"
  /\ LET c == loc[t].of
     IN  /\ proc'[c].life = "reaped" /\ proc'[c].tasks = {} /\ proc'[c].children = {}
         /\ proc'[c].vforkParent = Nobody /\ proc'[c].parent = proc[c].parent
         /\ KeepCount(c) /\ KeepPending(c) /\ KeepSeq(c) /\ ProcOthers(c)
  /\ PcTo(t, AfterReturn(t)) /\ Reset(t) /\ ProgOthers(t)
  /\ UNCHANGED <<vforkChild, deferred, adopted>>

\* A thread counts itself out.
StepCount(t) ==
  /\ pc[t] \in {"user", "exitCount"}
  /\ LET p == ProcOf[t]
         last == proc[p].alive = 1
     IN  /\ proc'[p].alive = proc[p].alive - 1
         /\ proc'[p].pending <=> (proc[p].pending \/ last)
         /\ proc'[p].zombie <=> (proc[p].zombie \/ last)
         /\ KeepLife(p) /\ KeepFamily(p) /\ KeepSeq(p) /\ KeepVparent(p) /\ KeepSlots(p)
         /\ ProcOthers(p)
         /\ loc'[t].why = "exit" /\ loc'[t].of = p /\ (loc'[t].last <=> last)
         /\ loc'[t].seq = 0 /\ Fresh(t) /\ LocOthers(t)
         /\ PcTo(t, IF last /\ ~proc[p].zombie /\ p # InitProc THEN "rpTake" ELSE "exitDetach")
  /\ UNCHANGED <<prog, vforkChild, deferred, adopted>>

\* A thread gives up its slot.
StepDetach(t) ==
  /\ pc[t] = "exitDetach"
  /\ SetSlots(ProcOf[t], IF DetachNow(t) THEN proc[ProcOf[t]].tasks \ {t}
                                         ELSE proc[ProcOf[t]].tasks)
  /\ pc'[t] \in {"exitParent", "exitDefer", "exitSwitch"} /\ PcOthers(t)
  /\ pc'[t] = "exitParent" <=> loc[t].last /\ Dead(ProcOf[t])
  /\ UNCHANGED <<prog, loc, vforkChild, deferred, adopted>>

\* The last thread reads who its parent is.
StepParent(t) ==
  /\ pc[t] = "exitParent" /\ ClearVparent(ProcOf[t])
  /\ loc'[t].parent = proc[ProcOf[t]].parent /\ loc'[t].last = loc[t].last
  /\ loc'[t].vforkParent = proc[ProcOf[t]].vforkParent
  /\ KeepJob(t) /\ KeepScan(t) /\ KeepMoved(t) /\ KeepKill(t) /\ LocOthers(t)
  /\ PcTo(t, IF proc[ProcOf[t]].vforkParent = Nobody THEN "exitDefer" ELSE "vforkClear")
  /\ UNCHANGED <<prog, vforkChild, deferred, adopted>>

\* Its entry of the deferred list.
StepDefer(t) ==
  /\ pc[t] = "exitDefer" /\ PcTo(t, "exitSwitch")
  /\ deferred'[t].st = "queued" /\ deferred'[t].final = loc[t].last
  /\ deferred'[t].parent = loc[t].parent /\ deferred'[t].waiters = {} /\ EntryOthers(t)
  /\ UNCHANGED <<proc, prog, loc, vforkChild, adopted>>

\* It leaves its stack.
StepSwitch(t) ==
  /\ pc[t] = "exitSwitch" /\ PcTo(t, "gone")
  /\ UNCHANGED <<proc, prog, loc, vforkChild, deferred, adopted>>

\* exit_group marks the process.
StepGroup(t) ==
  /\ pc[t] = "user" /\ SetZombie(ProcOf[t]) /\ PcTo(t, "notify")
  /\ loc'[t].why = "group" /\ loc'[t].of = loc[t].of
  /\ loc'[t].threads = proc[ProcOf[t]].tasks \ {t} /\ loc'[t].who = loc[t].who
  /\ KeepScan(t) /\ KeepMoved(t) /\ KeepExit(t) /\ KeepVfork(t) /\ LocOthers(t)
  /\ ProgOthers(t) /\ UNCHANGED <<vforkChild, deferred, adopted>>

\* SIGKILL marks a process that was alive.
StepKill(t, p) ==
  /\ pc[t] = "user" /\ p \in Procs /\ proc[p].life = "live" /\ SetZombie(p)
  /\ PcTo(t, IF p = InitProc THEN "notify" ELSE "rpTake")
  /\ loc'[t].why = "kill" /\ loc'[t].of = p
  /\ loc'[t].threads = proc[p].tasks /\ loc'[t].who = loc[t].who
  /\ KeepScan(t) /\ KeepMoved(t) /\ KeepExit(t) /\ KeepVfork(t) /\ LocOthers(t)
  /\ ProgOthers(t) /\ UNCHANGED <<vforkChild, deferred, adopted>>

\* A thread is told to die, and will be woken.
StepFlag(t, u) ==
  /\ pc[t] = "notify" /\ u \in loc[t].threads /\ u \in Tasks /\ PcTo(t, "notifyWake")
  /\ loc'[t].who = u /\ loc'[t].threads = loc[t].threads
  /\ KeepJob(t) /\ KeepScan(t) /\ KeepMoved(t) /\ KeepExit(t) /\ KeepVfork(t) /\ LocOthers(t)
  /\ UNCHANGED <<proc, prog, vforkChild, deferred, adopted>>

\* A thread is told to die, and is running.
StepFlagOnly(t, u) ==
  /\ pc[t] = "notify"
  /\ loc'[t].threads = loc[t].threads \ {u} /\ loc'[t].who = loc[t].who
  /\ KeepJob(t) /\ KeepScan(t) /\ KeepMoved(t) /\ KeepExit(t) /\ KeepVfork(t) /\ LocOthers(t)
  /\ UNCHANGED <<proc, pc, prog, vforkChild, deferred, adopted>>

\* It is woken.
StepNotify(t) ==
  /\ pc[t] = "notifyWake" /\ PcWakes(t, "notify", loc[t].who)
  /\ loc'[t].threads = loc[t].threads \ {loc[t].who} /\ loc'[t].who = Nobody
  /\ KeepJob(t) /\ KeepScan(t) /\ KeepMoved(t) /\ KeepExit(t) /\ KeepVfork(t) /\ LocOthers(t)
  /\ UNCHANGED <<proc, prog, vforkChild, deferred, adopted>>

\* The scheduler loop sees that a task is off its stack.
StepFinish(t) ==
  /\ deferred[t].st = "queued" /\ pc[t] = "gone"
  /\ SetPending(ProcOf[t], proc[ProcOf[t]].pending /\ ~deferred[t].final)
  /\ SetStage(t, IF deferred[t].final /\ deferred[t].parent # Nobody
                 THEN "publish" ELSE "done")
  /\ UNCHANGED <<pc, prog, loc, vforkChild, adopted>>

\* The parent's event number.
StepEvent(t) ==
  /\ deferred[t].st = "publish" /\ NextSeq(deferred[t].parent) /\ SetStage(t, "collect")
  /\ UNCHANGED <<pc, prog, loc, vforkChild, adopted>>

\* The threads of the parent.
StepCollect(t) ==
  /\ deferred[t].st = "collect" /\ deferred'[t].st = "wake"
  /\ deferred'[t].final = deferred[t].final /\ deferred'[t].parent = deferred[t].parent
  /\ deferred'[t].waiters = proc[deferred[t].parent].tasks /\ EntryOthers(t)
  /\ UNCHANGED <<proc, pc, prog, loc, vforkChild, adopted>>

\* One of them is woken.
StepWakeOne(t, u) ==
  /\ deferred[t].st = "wake" /\ u \in deferred[t].waiters /\ u \in Tasks
  /\ PcWakes(t, pc[t], u)
  /\ deferred'[t].st = "wake" /\ deferred'[t].final = deferred[t].final
  /\ deferred'[t].parent = deferred[t].parent
  /\ deferred'[t].waiters = deferred[t].waiters \ {u} /\ EntryOthers(t)
  /\ UNCHANGED <<proc, prog, loc, vforkChild, adopted>>

\* All of them are.
StepWakesDone(t) ==
  /\ deferred[t].st = "wake" /\ deferred[t].waiters = {} /\ SetStage(t, "done")
  /\ UNCHANGED <<proc, pc, prog, loc, vforkChild, adopted>>

-----------------------------------------------------------------------------
(* Facts the actions rest on *)

\* An update of one thread's locals with values of the right types is well typed.
LEMMA LocalUpdates ==
  ASSUME NEW r \in LocalRecord
  PROVE  /\ \A c \in SomeProc : [r EXCEPT !.of = c] \in LocalRecord
         /\ \A w \in Why : [r EXCEPT !.why = w] \in LocalRecord
         /\ \A v \in SomeTask : [r EXCEPT !.vforkParent = v] \in LocalRecord
         /\ \A v \in SomeTask : [r EXCEPT !.who = v] \in LocalRecord
         /\ \A s \in SUBSET Procs : [r EXCEPT !.todo = s] \in LocalRecord
         /\ \A s \in SUBSET Tasks : [r EXCEPT !.threads = s] \in LocalRecord
         /\ \A c \in SomeProc, w \in Why : [r EXCEPT !.of = c, !.why = w] \in LocalRecord
         /\ \A s, m \in SUBSET Procs, b \in BOOLEAN :
              [r EXCEPT !.todo = s, !.moved = m, !.wakeInit = b] \in LocalRecord
         /\ \A s \in SUBSET Procs, f, b \in BOOLEAN :
              [r EXCEPT !.todo = s, !.found = f, !.switching = b] \in LocalRecord
         /\ \A c \in SomeProc, v \in SomeTask :
              [r EXCEPT !.parent = c, !.vforkParent = v] \in LocalRecord
         /\ \A w \in Why, s \in SUBSET Tasks : [r EXCEPT !.why = w, !.threads = s] \in LocalRecord
         /\ \A w \in Why, c \in SomeProc, s \in SUBSET Tasks :
              [r EXCEPT !.why = w, !.of = c, !.threads = s] \in LocalRecord
         /\ \A s \in SUBSET Tasks, v \in SomeTask :
              [r EXCEPT !.threads = s, !.who = v] \in LocalRecord
BY DEF LocalRecord

\* The same for the fields of a PCB,
LEMMA ProcUpdates ==
  ASSUME NEW r \in ProcRecord
  PROVE  /\ \A s \in SUBSET Procs : [r EXCEPT !.children = s] \in ProcRecord
         /\ \A s \in SUBSET Tasks : [r EXCEPT !.tasks = s] \in ProcRecord
         /\ \A l \in Life : [r EXCEPT !.life = l] \in ProcRecord
         /\ \A p \in SomeProc : [r EXCEPT !.parent = p] \in ProcRecord
         /\ \A v \in SomeTask : [r EXCEPT !.vforkParent = v] \in ProcRecord
         /\ \A b \in BOOLEAN : [r EXCEPT !.zombie = b] \in ProcRecord
         /\ \A b \in BOOLEAN : [r EXCEPT !.pending = b] \in ProcRecord
         /\ \A n \in Nat : [r EXCEPT !.seq = n] \in ProcRecord
         /\ \A n \in Nat, b, z \in BOOLEAN :
              [r EXCEPT !.alive = n, !.pending = b, !.zombie = z] \in ProcRecord
BY DEF ProcRecord

\* and for an entry of the deferred-exit list.
LEMMA EntryUpdates ==
  ASSUME NEW r \in EntryRecord
  PROVE  /\ \A s \in Stage : [r EXCEPT !.st = s] \in EntryRecord
         /\ \A w \in SUBSET Tasks : [r EXCEPT !.waiters = w] \in EntryRecord
         /\ \A s \in Stage, w \in SUBSET Tasks : [r EXCEPT !.st = s, !.waiters = w] \in EntryRecord
BY DEF EntryRecord

\* The arguments a call comes with.
LEMMA CallFields ==
  ASSUME NEW c \in Calls
  PROVE  /\ c.op = "fork" => c.child \in Procs /\ c.vfork \in BOOLEAN
         /\ c.op = "kill" => c.target \in Procs
BY DEF Calls

\* The arguments of the call at the head of a thread's program.
LEMMA CallsTyped ==
  ASSUME Types, NEW t \in Tasks
  PROVE  /\ At(t, "fork") => Arg(t).child \in Procs /\ Arg(t).vfork \in BOOLEAN
         /\ At(t, "kill") => Arg(t).target \in Procs
<1>1. prog[t] \in Seq(Calls)
  BY DEF Types
<1>2. prog[t] # <<>> => Head(prog[t]) \in Calls
  BY <1>1
<1> QED
  BY <1>2, CallFields DEF At, Arg

\* Taking the head off a program leaves a program.
LEMMA TakenTyped ==
  ASSUME Types, NEW t \in Tasks, Taken(t)
  PROVE  prog' \in [Tasks -> Seq(Calls)] /\ ProgOthers(t)
BY DEF Types, Taken, ProgOthers

\* The locals outside a call.
LEMMA NoLocalsTyped == NoLocals \in LocalRecord
BY DEF NoLocals, LocalRecord, Why, SomeProc, SomeTask

\* The end of a call: the thread is in user code, or on its way out, without locals.
LEMMA ReturnTyped ==
  ASSUME Types, NEW t \in Tasks, Return(t)
  PROVE  /\ pc' \in [Tasks -> Labels] /\ loc' \in [Tasks -> LocalRecord]
         /\ PcTo(t, AfterReturn(t)) /\ Reset(t)
BY NoLocalsTyped
DEF Types, Return, Goto, AfterReturn, Labels, Exiting, PcTo, PcOthers, Reset, LocOthers,
       Fresh, NoLocals

\* A step that only moves its own thread.
LEMMA GotoTyped ==
  ASSUME Types, NEW t \in Tasks, NEW label \in Labels, Goto(t, label)
  PROVE  pc' \in [Tasks -> Labels] /\ PcTo(t, label)
BY DEF Types, Goto, PcTo, PcOthers

\* wakeup_task moves the caller, ends a sleep or leaves a token, and nothing else.
LEMMA WakeupTyped ==
  ASSUME Types, NEW t \in Tasks, NEW u, NEW label \in Labels, Wakeup(u, t, label)
  PROVE  /\ pc' \in [Tasks -> Labels] /\ token' \in [Tasks -> BOOLEAN]
         /\ PcWakes(t, label, u)
<1>1. pc' \in [Tasks -> Labels]
  BY DEF Types, Wakeup, Labels
<1>2. token' \in [Tasks -> BOOLEAN]
  BY DEF Types, Wakeup
<1>3. PcWakes(t, label, u)
  BY DEF Types, Wakeup, PcWakes, WokenTo
<1> QED
  BY <1>1, <1>2, <1>3

\* A thread that has not counted itself out is counted.
LEMMA CountedAlive ==
  ASSUME ControlInv, NEW t \in Tasks, pc[t] # "unborn", loc[t].why # "exit"
  PROVE  proc[ProcOf[t]].alive \in Nat \ {0} /\ proc[ProcOf[t]].life # "unborn"
<1> DEFINE p == ProcOf[t]
<1>1. p \in Procs /\ CountOk(p) /\ t \in ThreadsOf(p)
  BY DEF ControlInv, ThreadsOf
<1>2. proc[p].life # "unborn"
  BY <1>1 DEF CountOk
<1>3. LiveThreads(p) \subseteq Tasks /\ t \in LiveThreads(p)
  BY <1>1 DEF LiveThreads, ThreadsOf
<1>4. IsFiniteSet(LiveThreads(p))
  BY <1>3, FS_Subset
<1>5. Cardinality(LiveThreads(p)) # 0
  BY <1>3, <1>4, FS_EmptySet
<1>6. Cardinality(LiveThreads(p)) \in Nat
  BY <1>4, FS_CardinalityType
<1> QED
  BY <1>1, <1>2, <1>5, <1>6 DEF CountOk

-----------------------------------------------------------------------------
(* Each action is such a step, and keeps the types *)

\* Fork makes the child's PCB and its first thread, and nobody else sees them.
LEMMA ForkEffect ==
  ASSUME ControlInv, NEW t \in Tasks, Fork(t)
  PROVE  Types' /\ StepFork(t, Arg(t).child, Arg(t).vfork)
<1>0. Types /\ Ctl(t) /\ ProcOf[t] \in Procs
  BY DEF ControlInv
<1> DEFINE c == Arg(t).child
<1> DEFINE v == Arg(t).vfork
<1>a. c \in Procs /\ v \in BOOLEAN
  BY <1>0, CallsTyped DEF Fork
<1>b. proc[c].life = "unborn" /\ pc[t] = "user" /\ ProcOf[t] # c /\ Leader[c] \in Tasks
      /\ t # Leader[c]
  BY <1>0, <1>a DEF Fork, At, ControlInv, CountOk, ThreadsOf
<1>c. Cardinality({Leader[c]}) = 1
  BY FS_Singleton
<1>1. proc' \in [Procs -> ProcRecord]
  <2>1. NewProc(ProcOf[t], {Leader[c]}, IF v THEN t ELSE Nobody, "made") \in ProcRecord
    BY <1>0, <1>a, <1>b, <1>c DEF NewProc, ProcRecord, Life, SomeProc, SomeTask
  <2> QED
    BY <1>0, <1>a, <2>1 DEF Types, Fork
<1>2. loc' \in [Tasks -> LocalRecord]
  <2>1. loc[t] \in LocalRecord
    BY <1>0, <1>a DEF Types
  <2>2. (c) \in SomeProc /\ (IF v THEN "vfork" ELSE "fork") \in Why
    BY <1>0, <1>a, <2>1 DEF LocalRecord, Why, Life, Stage, SomeProc, SomeTask
  <2>3. [loc[t] EXCEPT !.of = c, !.why = IF v THEN "vfork" ELSE "fork"] \in LocalRecord
    BY <2>1, <2>2, LocalUpdates
  <2>4. loc' = [loc EXCEPT ![t] = [loc[t] EXCEPT !.of = c,
                                                 !.why = IF v THEN "vfork" ELSE "fork"]]
    BY <1>0, <1>a DEF Types, Fork
  <2> QED
    BY <1>0, <1>a, <2>3, <2>4 DEF Types
<1>3. pc' \in [Tasks -> Labels]
  BY <1>0, <1>a, <1>b DEF Types, Fork, Labels
<1>4. prog' \in [Tasks -> Seq(Calls)] /\ ProgOthers(t)
  BY <1>0, TakenTyped DEF Fork
<1>5. Types'
  BY <1>0, <1>1, <1>2, <1>3, <1>4 DEF Types, Fork
<1>6. StepFork(t, c, v)
  <2>1. /\ proc'[c].life = "made" /\ proc'[c].zombie = FALSE /\ proc'[c].alive = 1
        /\ proc'[c].pending = FALSE /\ proc'[c].parent = ProcOf[t] /\ proc'[c].children = {}
        /\ proc'[c].vforkParent = (IF v THEN t ELSE Nobody) /\ proc'[c].tasks = {Leader[c]}
        /\ ProcOthers(c)
    BY <1>0, <1>a, <1>c DEF Fork, Types, NewProc, ProcOthers
  <2>2. /\ pc'[t] = "forkPush" /\ pc'[Leader[c]] = "nascent"
        /\ \A u \in Tasks \ {t, Leader[c]} : pc'[u] = pc[u]
    BY <1>0, <1>a, <1>b DEF Fork, Types
  <2>3. /\ loc'[t].of = c /\ loc'[t].why = (IF v THEN "vfork" ELSE "fork")
        /\ KeepScan(t) /\ KeepMoved(t) /\ KeepExit(t) /\ KeepVfork(t) /\ KeepKill(t) /\ LocOthers(t)
    BY <1>0, <1>a
    DEF Fork, Types, LocalRecord, PcTo, PcOthers, LocOthers, KeepJob, KeepScan,
        KeepMoved, KeepExit, KeepVfork, KeepKill
  <2> QED
    BY <1>a, <1>b, <1>4, <2>1, <2>2, <2>3 DEF Fork, StepFork
<1> QED
  BY <1>5, <1>6

\* ForkPush puts the child into the pid table and its parent's list.
LEMMA ForkPushEffect ==
  ASSUME ControlInv, NEW t \in Tasks, ForkPush(t)
  PROVE  Types' /\ StepPush(t)
<1>0. Types /\ Ctl(t) /\ ProcOf[t] \in Procs
  BY DEF ControlInv
<1> DEFINE c == loc[t].of
<1> DEFINE p == ProcOf[t]
<1>a. pc[t] = "forkPush" /\ c \in Procs /\ p # c
  BY <1>0 DEF ForkPush, Ctl, ForkLabels
<1>1. proc' \in [Procs -> ProcRecord]
  <2>1. proc[p] \in ProcRecord /\ proc[c] \in ProcRecord
    BY <1>0, <1>a DEF Types
  <2>2. proc[p].children \cup {c} \in SUBSET Procs /\ "live" \in Life
    BY <1>a, <2>1 DEF ProcRecord, Life
  <2>3. [proc[p] EXCEPT !.children = proc[p].children \cup {c}] \in ProcRecord
    BY <2>1, <2>2, ProcUpdates
  <2>4. [proc[c] EXCEPT !.life = "live"] \in ProcRecord
    BY <2>1, <2>2, ProcUpdates
  <2>5. proc' = [proc EXCEPT ![p] = [proc[p] EXCEPT !.children = proc[p].children \cup {c}],
                             ![c] = [proc[c] EXCEPT !.life = "live"]]
    BY <1>0, <1>a DEF Types, ForkPush
  <2> QED
    BY <1>0, <1>a, <2>3, <2>4, <2>5 DEF Types
<1>2. pc' \in [Tasks -> Labels]
  BY <1>0
  DEF Types, ForkPush, Goto, Labels, Exiting, AfterReturn, AfterVfork, AfterReparent,
      AfterAdoption
<1>3. Types'
  BY <1>0, <1>1, <1>2 DEF Types, ForkPush
<1>4. StepPush(t)
  <2>1. ASSUME NEW q \in Procs
        PROVE  /\ proc'[q].children = IF q = p THEN proc[q].children \cup {c} ELSE proc[q].children
               /\ proc'[q].life = IF q = c THEN "live" ELSE proc[q].life
               /\ proc'[q].parent = proc[q].parent
               /\ KeepCount(q) /\ KeepPending(q) /\ KeepSeq(q) /\ KeepVparent(q) /\ KeepSlots(q)
    <3>1. CASE q = p
      BY <1>0, <1>a, <3>1
      DEF ForkPush, Types, ProcRecord, ProcOthers, KeepLife, KeepCount, KeepPending,
          KeepFamily, KeepSeq, KeepVparent, KeepSlots
    <3>2. CASE q = c
      BY <1>0, <1>a, <3>2
      DEF ForkPush, Types, ProcRecord, ProcOthers, KeepLife, KeepCount, KeepPending,
          KeepFamily, KeepSeq, KeepVparent, KeepSlots
    <3>3. CASE q # p /\ q # c
      BY <1>0, <1>a, <3>3
      DEF ForkPush, Types, ProcOthers, KeepLife, KeepCount, KeepPending, KeepFamily,
          KeepSeq, KeepVparent, KeepSlots
    <3> QED
      BY <3>1, <3>2, <3>3
  <2>2. PcTo(t, IF loc[t].why = "vfork" THEN "forkPublish" ELSE "forkStart")
    BY <1>0 DEF ForkPush, Goto, Types, PcTo, PcOthers
  <2> QED
    BY <1>a, <2>1, <2>2 DEF ForkPush, StepPush
<1> QED
  BY <1>3, <1>4

\* ForkPublish stores the child a vfork waits for.
LEMMA ForkPublishEffect ==
  ASSUME ControlInv, NEW t \in Tasks, ForkPublish(t)
  PROVE  Types' /\ StepPublish(t)
<1>0. Types /\ Ctl(t) /\ ProcOf[t] \in Procs
  BY DEF ControlInv
<1>1. vforkChild' \in [Tasks -> SomeProc]
  BY <1>0 DEF Types, LocalRecord, ForkPublish
<1>2. pc' \in [Tasks -> Labels]
  BY <1>0
  DEF Types, ForkPublish, Goto, Labels, Exiting, AfterReturn, AfterVfork, AfterReparent,
      AfterAdoption
<1>3. Types'
  BY <1>0, <1>1, <1>2 DEF Types, ForkPublish
<1>4. StepPublish(t)
  BY <1>0
  DEF ForkPublish, Types, Goto, PcTo, PcOthers, LocOthers, KeepJob, KeepScan, KeepMoved,
      KeepExit, KeepVfork, KeepKill, ProcOthers, KeepLife, KeepCount, KeepPending,
      KeepFamily, KeepSeq, KeepVparent, KeepSlots, ProcRecord, LocalRecord, StepPublish,
      Ctl, ForkLabels
<1> QED
  BY <1>3, <1>4

\* ForkStart makes the child runnable.
LEMMA ForkStartEffect ==
  ASSUME ControlInv, NEW t \in Tasks, ForkStart(t)
  PROVE  Types' /\ StepStart(t)
<1>0. Types /\ Ctl(t) /\ ProcOf[t] \in Procs
  BY DEF ControlInv
<1>a. loc[t].of \in Procs /\ t # Leader[loc[t].of] /\ Leader[loc[t].of] \in Tasks
  BY <1>0 DEF ForkStart, Ctl, ForkLabels
<1>1. loc' \in [Tasks -> LocalRecord]
  BY <1>0, NoLocalsTyped DEF Types, ForkStart
<1>2. pc' \in [Tasks -> Labels]
  <2>1. AfterReturn(t) \in Labels /\ {"vforkBlock", "user", "rerun"} \subseteq Labels
    BY DEF AfterReturn, Labels, Exiting
  <2> QED
    BY <1>0, <1>a, <2>1 DEF Types, ForkStart, Started
<1>3. Types'
  BY <1>0, <1>1, <1>2 DEF Types, ForkStart
<1>4. StepStart(t)
  BY <1>0, <1>a DEF ForkStart, Started, Types, Reset, LocOthers, Fresh, NoLocals, StepStart
<1> QED
  BY <1>3, <1>4

\* VforkBlock ends the call or goes to sleep.
LEMMA VforkBlockEffect ==
  ASSUME ControlInv, NEW t \in Tasks, VforkBlock(t)
  PROVE  Types' /\ (StepReturn(t) \/ StepVforkBlock(t))
<1>0. Types /\ Ctl(t) /\ ProcOf[t] \in Procs
  BY DEF ControlInv
<1>a. MustNotBlock(t) => Return(t)
  BY DEF VforkBlock
<1>1. loc' \in [Tasks -> LocalRecord]
  BY <1>0, <1>a, ReturnTyped DEF Types, VforkBlock
<1>2. pc' \in [Tasks -> Labels]
  <2>1. {"vforkBlock", "vforkAsleep"} \subseteq Labels
    BY DEF Labels
  <2>2. CASE MustNotBlock(t)
    BY <1>0, <1>a, <2>2, ReturnTyped
  <2>3. CASE ~MustNotBlock(t)
    BY <1>0, <2>1, <2>3, GotoTyped DEF VforkBlock
  <2> QED
    BY <2>2, <2>3
<1>3. token' \in [Tasks -> BOOLEAN]
  BY <1>0 DEF Types, VforkBlock
<1>4. Types'
  BY <1>0, <1>1, <1>2, <1>3 DEF Types, VforkBlock
<1>5. StepReturn(t) \/ StepVforkBlock(t)
  <2>1. CASE MustNotBlock(t)
    BY <1>0, <1>a, <2>1, ReturnTyped
    DEF VforkBlock, StepReturn, MustNotBlock, Cancelled, ProgOthers
  <2>2. CASE ~MustNotBlock(t)
    BY <1>0, <2>2
    DEF VforkBlock, StepVforkBlock, MustNotBlock, Cancelled, Types, Goto, PcOthers
  <2> QED
    BY <2>1, <2>2
<1> QED
  BY <1>4, <1>5

\* Exec takes the debt of a vfork out of the PCB.
LEMMA ExecEffect ==
  ASSUME ControlInv, NEW t \in Tasks, Exec(t)
  PROVE  Types' /\ StepExec(t)
<1>0. Types /\ Ctl(t) /\ ProcOf[t] \in Procs
  BY DEF ControlInv
<1>1. proc' \in [Procs -> ProcRecord]
  <2>1. proc[ProcOf[t]] \in ProcRecord
    BY <1>0 DEF Types
  <2>2. (Nobody) \in SomeTask
    BY <1>0, <2>1 DEF ProcRecord, Why, Life, Stage, SomeProc, SomeTask
  <2>3. [proc[ProcOf[t]] EXCEPT !.vforkParent = Nobody] \in ProcRecord
    BY <2>1, <2>2, ProcUpdates
  <2>4. proc' = [proc EXCEPT ![ProcOf[t]] = [proc[ProcOf[t]] EXCEPT !.vforkParent = Nobody]]
    BY <1>0 DEF Types, Exec
  <2> QED
    BY <1>0, <2>3, <2>4 DEF Types
<1>2. loc' \in [Tasks -> LocalRecord]
  <2>1. loc[t] \in LocalRecord
    BY <1>0 DEF Types
  <2>2. (proc[ProcOf[t]].vforkParent) \in SomeTask
    BY <1>0, <2>1 DEF LocalRecord, Why, Life, Stage, SomeProc, SomeTask, Types, ProcRecord
  <2>3. [loc[t] EXCEPT !.vforkParent = proc[ProcOf[t]].vforkParent] \in LocalRecord
    BY <2>1, <2>2, LocalUpdates
  <2>4. loc' = [loc EXCEPT ![t] =
          [loc[t] EXCEPT !.vforkParent = proc[ProcOf[t]].vforkParent]]
    BY <1>0 DEF Types, Exec
  <2> QED
    BY <1>0, <2>3, <2>4 DEF Types
<1>3. pc' \in [Tasks -> Labels]
  BY <1>0
  DEF Types, Exec, Goto, Labels, Exiting, AfterReturn, AfterVfork, AfterReparent,
      AfterAdoption
<1>4. prog' \in [Tasks -> Seq(Calls)] /\ ProgOthers(t)
  BY <1>0, TakenTyped DEF Exec
<1>5. Types'
  BY <1>0, <1>1, <1>2, <1>3, <1>4 DEF Types, Exec
<1>6. StepExec(t)
  BY <1>0, <1>4
  DEF Exec, Types, Goto, PcTo, PcOthers, LocOthers, KeepJob, KeepScan, KeepMoved,
      KeepExit, KeepVfork, KeepKill, ProcOthers, KeepLife, KeepCount, KeepPending,
      KeepFamily, KeepSeq, KeepVparent, KeepSlots, ProcRecord, LocalRecord, StepExec,
      ClearVparent, At
<1> QED
  BY <1>5, <1>6

\* VforkClear writes the parent's TCB, and only if it waits for this child.
LEMMA VforkClearEffect ==
  ASSUME ControlInv, NEW t \in Tasks, VforkClear(t)
  PROVE  Types' /\ StepVforkClear(t)
<1>0. Types /\ Ctl(t) /\ ProcOf[t] \in Procs
  BY DEF ControlInv
<1>a. loc[t].vforkParent \in Tasks /\ pc[t] = "vforkClear"
  BY <1>0 DEF VforkClear, Ctl
<1>1. vforkChild' \in [Tasks -> SomeProc]
  BY <1>0, <1>a DEF Types, VforkClear, SomeProc
<1>2. loc' \in [Tasks -> LocalRecord]
  <2>1. LeaveVfork(t) => loc' \in [Tasks -> LocalRecord]
    BY <1>0, NoLocalsTyped DEF Types, LeaveVfork
  <2> QED
    BY <1>0, <2>1 DEF Types, VforkClear
<1>3. pc' \in [Tasks -> Labels]
  <2>1. AfterVfork(t) \in Labels /\ "vforkWake" \in Labels
    BY DEF AfterVfork, AfterReturn, Labels, Exiting
  <2> QED
    BY <1>0, <2>1, GotoTyped DEF VforkClear
<1>4. Types'
  BY <1>0, <1>1, <1>2, <1>3 DEF Types, VforkClear
<1>5. StepVforkClear(t)
  BY <1>0, <1>a
  DEF VforkClear, Types, Goto, PcTo, PcOthers, Reset, LocOthers, Fresh, NoLocals,
      StepVforkClear, LeaveVfork
<1> QED
  BY <1>4, <1>5

\* VforkWake wakes the parent of the vfork.
LEMMA VforkWakeEffect ==
  ASSUME ControlInv, NEW t \in Tasks, VforkWake(t)
  PROVE  Types' /\ StepVforkWake(t)
<1>0. Types /\ Ctl(t) /\ ProcOf[t] \in Procs
  BY DEF ControlInv
<1>a. AfterVfork(t) \in Labels
  BY DEF AfterVfork, AfterReturn, Labels, Exiting
<1>1. loc' \in [Tasks -> LocalRecord]
  BY <1>0, NoLocalsTyped DEF Types, VforkWake, LeaveVfork
<1>2. /\ pc' \in [Tasks -> Labels]
      /\ token' \in [Tasks -> BOOLEAN]
      /\ PcWakes(t, AfterVfork(t), loc[t].vforkParent)
  BY <1>0, <1>a, WakeupTyped DEF VforkWake
<1>3. Types'
  BY <1>0, <1>1, <1>2 DEF Types, VforkWake
<1>4. StepVforkWake(t)
  BY <1>0, <1>2
  DEF VforkWake, Types, Reset, LocOthers, Fresh, NoLocals, StepVforkWake, LeaveVfork
<1> QED
  BY <1>3, <1>4

\* ReparentTake empties one list of children into the hands of its caller.
LEMMA ReparentTakeEffect ==
  ASSUME ControlInv, NEW t \in Tasks, ReparentTake(t)
  PROVE  Types' /\ StepTake(t)
<1>0. Types /\ Ctl(t) /\ ProcOf[t] \in Procs
  BY DEF ControlInv
<1>a. loc[t].of \in Procs /\ pc[t] = "rpTake"
  BY <1>0 DEF ReparentTake, Ctl
<1>b. proc[loc[t].of].children \in SUBSET Procs
  BY <1>0, <1>a DEF Types, ProcRecord
<1>1. proc' \in [Procs -> ProcRecord]
  <2>1. proc[loc[t].of] \in ProcRecord
    BY <1>0, <1>a DEF Types
  <2>2. ({}) \in SUBSET Procs
    BY <1>0, <1>a, <2>1 DEF ProcRecord, Why, Life, Stage, SomeProc, SomeTask
  <2>3. [proc[loc[t].of] EXCEPT !.children = {}] \in ProcRecord
    BY <2>1, <2>2, ProcUpdates
  <2>4. proc' = [proc EXCEPT ![loc[t].of] = [proc[loc[t].of] EXCEPT !.children = {}]]
    BY <1>0, <1>a DEF Types, ReparentTake
  <2> QED
    BY <1>0, <1>a, <2>3, <2>4 DEF Types
<1>2. loc' \in [Tasks -> LocalRecord]
  <2>1. loc[t] \in LocalRecord
    BY <1>0, <1>b DEF Types
  <2>2. /\ (proc[loc[t].of].children) \in SUBSET Procs
        /\ ({}) \in SUBSET Procs
        /\ (FALSE) \in BOOLEAN
    BY <1>0, <1>b, <2>1 DEF LocalRecord, Why, Life, Stage, SomeProc, SomeTask
  <2>3. [loc[t] EXCEPT !.todo = proc[loc[t].of].children,
                       !.moved = {},
                       !.wakeInit = FALSE] \in LocalRecord
    BY <2>1, <2>2, LocalUpdates
  <2>4. loc' = [loc EXCEPT ![t] = [loc[t] EXCEPT !.todo = proc[loc[t].of].children,
                                                 !.moved = {},
                                                 !.wakeInit = FALSE]]
    BY <1>0, <1>b DEF Types, ReparentTake
  <2> QED
    BY <1>0, <1>b, <2>3, <2>4 DEF Types
<1>3. pc' \in [Tasks -> Labels]
  BY <1>0
  DEF Types, ReparentTake, Goto, Labels, Exiting, AfterReturn, AfterVfork,
      AfterReparent, AfterAdoption
<1>4. Types'
  BY <1>0, <1>1, <1>2, <1>3 DEF Types, ReparentTake
<1>5. StepTake(t)
  BY <1>0, <1>a
  DEF ReparentTake, Types, Goto, PcTo, PcOthers, LocOthers, KeepJob, KeepScan,
      KeepMoved, KeepExit, KeepVfork, KeepKill, ProcOthers, KeepLife, KeepCount,
      KeepPending, KeepFamily, KeepSeq, KeepVparent, KeepSlots, ProcRecord, LocalRecord,
      StepTake, SetChildren
<1> QED
  BY <1>4, <1>5

\* ReparentEach gives one child in hand its new parent pointer.
LEMMA ReparentEachEffect ==
  ASSUME ControlInv, NEW t \in Tasks, ReparentEach(t)
  PROVE  Types' /\ (\E c \in Procs : StepEach(t, c))
<1>0. Types /\ Ctl(t) /\ ProcOf[t] \in Procs
  BY DEF ControlInv
<1>a. PICK c \in loc[t].todo :
         /\ proc' = [proc EXCEPT ![c].parent = InitProc]
         /\ loc' = [loc EXCEPT ![t].todo = @ \ {c}, ![t].moved = @ \cup {c},
                              ![t].wakeInit = @ \/ (proc[c].zombie /\ proc[c].alive = 0)]
         /\ adopted' = adopted \cup {c}
  BY DEF ReparentEach
<1>b. c \in Procs
  BY <1>0, <1>a DEF Types, LocalRecord
<1>1. proc' \in [Procs -> ProcRecord]
  <2>1. proc[c] \in ProcRecord
    BY <1>0, <1>a, <1>b DEF Types
  <2>2. (InitProc) \in SomeProc
    BY <1>0, <1>a, <1>b, <2>1 DEF ProcRecord, Why, Life, Stage, SomeProc, SomeTask
  <2>3. [proc[c] EXCEPT !.parent = InitProc] \in ProcRecord
    BY <2>1, <2>2, ProcUpdates
  <2>4. proc' = [proc EXCEPT ![c] = [proc[c] EXCEPT !.parent = InitProc]]
    BY <1>0, <1>a, <1>b DEF Types
  <2> QED
    BY <1>0, <1>a, <1>b, <2>3, <2>4 DEF Types
<1>2. loc' \in [Tasks -> LocalRecord]
  <2>1. loc[t] \in LocalRecord
    BY <1>0, <1>a, <1>b DEF Types
  <2>2. /\ (loc[t].todo \ {c}) \in SUBSET Procs
        /\ (loc[t].moved \cup {c}) \in SUBSET Procs
        /\ (loc[t].wakeInit \/ (proc[c].zombie /\ proc[c].alive = 0)) \in BOOLEAN
    BY <1>0, <1>a, <1>b, <2>1 DEF LocalRecord, Why, Life, Stage, SomeProc, SomeTask
  <2>3. [loc[t] EXCEPT !.todo = loc[t].todo \ {c},
                       !.moved = loc[t].moved \cup {c},
                       !.wakeInit = loc[t].wakeInit \/ (proc[c].zombie /\ proc[c].alive = 0)] \in LocalRecord
    BY <2>1, <2>2, LocalUpdates
  <2>4. loc' = [loc EXCEPT ![t] = [loc[t] EXCEPT !.todo = loc[t].todo \ {c},
                                                 !.moved = loc[t].moved \cup {c},
                                                 !.wakeInit = loc[t].wakeInit \/ (proc[c].zombie /\ proc[c].alive = 0)]]
    BY <1>0, <1>a, <1>b DEF Types
  <2> QED
    BY <1>0, <1>a, <1>b, <2>3, <2>4 DEF Types
<1>3. adopted' \in SUBSET Procs
  BY <1>0, <1>a, <1>b DEF Types
<1>4. Types'
  BY <1>0, <1>1, <1>2, <1>3 DEF Types, ReparentEach
<1>5. \E x \in Procs : StepEach(t, x)
  <2>1. StepEach(t, c)
    BY <1>0, <1>a, <1>b
    DEF ReparentEach, Types, Goto, PcTo, PcOthers, LocOthers, KeepJob, KeepScan,
        KeepMoved, KeepExit, KeepVfork, KeepKill, ProcOthers, KeepLife, KeepCount,
        KeepPending, KeepFamily, KeepSeq, KeepVparent, KeepSlots, ProcRecord,
        LocalRecord, StepEach, SetParent
  <2> QED
    BY <1>b, <2>1
<1> QED
  BY <1>4, <1>5

\* ReparentGive puts what is in hand into init's list.
LEMMA ReparentGiveEffect ==
  ASSUME ControlInv, NEW t \in Tasks, ReparentGive(t)
  PROVE  Types' /\ StepGive(t)
<1>0. Types /\ Ctl(t) /\ ProcOf[t] \in Procs
  BY DEF ControlInv
<1>1. proc' \in [Procs -> ProcRecord]
  <2>1. proc[InitProc] \in ProcRecord
    BY <1>0 DEF Types
  <2>2. (proc[InitProc].children \cup loc[t].moved) \in SUBSET Procs
    BY <1>0, <2>1 DEF ProcRecord, Why, Life, Stage, SomeProc, SomeTask, Types, LocalRecord
  <2>3. [proc[InitProc] EXCEPT !.children = proc[InitProc].children \cup loc[t].moved] \in ProcRecord
    BY <2>1, <2>2, ProcUpdates
  <2>4. proc' = [proc EXCEPT ![InitProc] =
          [proc[InitProc] EXCEPT !.children = proc[InitProc].children \cup loc[t].moved]]
    BY <1>0 DEF Types, ReparentGive
  <2> QED
    BY <1>0, <2>3, <2>4 DEF Types
<1>2. pc' \in [Tasks -> Labels]
  BY <1>0
  DEF Types, ReparentGive, Goto, Labels, Exiting, AfterReturn, AfterVfork,
      AfterReparent, AfterAdoption
<1>3. Types'
  BY <1>0, <1>1, <1>2 DEF Types, ReparentGive
<1>4. StepGive(t)
  BY <1>0
  DEF ReparentGive, Types, Goto, PcTo, PcOthers, LocOthers, KeepJob, KeepScan,
      KeepMoved, KeepExit, KeepVfork, KeepKill, ProcOthers, KeepLife, KeepCount,
      KeepPending, KeepFamily, KeepSeq, KeepVparent, KeepSlots, ProcRecord, LocalRecord,
      StepGive, SetChildren
<1> QED
  BY <1>3, <1>4

\* InitPublish counts init's event number up.
LEMMA InitPublishEffect ==
  ASSUME ControlInv, NEW t \in Tasks, InitPublish(t)
  PROVE  Types' /\ StepInitPublish(t)
<1>0. Types /\ Ctl(t) /\ ProcOf[t] \in Procs
  BY DEF ControlInv
<1>1. proc' \in [Procs -> ProcRecord]
  <2>1. proc[InitProc] \in ProcRecord
    BY <1>0 DEF Types
  <2>2. (proc[InitProc].seq + 1) \in Nat
    BY <1>0, <2>1 DEF ProcRecord, Why, Life, Stage, SomeProc, SomeTask
  <2>3. [proc[InitProc] EXCEPT !.seq = proc[InitProc].seq + 1] \in ProcRecord
    BY <2>1, <2>2, ProcUpdates
  <2>4. proc' = [proc EXCEPT ![InitProc] =
          [proc[InitProc] EXCEPT !.seq = proc[InitProc].seq + 1]]
    BY <1>0 DEF Types, InitPublish
  <2> QED
    BY <1>0, <2>3, <2>4 DEF Types
<1>2. pc' \in [Tasks -> Labels]
  BY <1>0
  DEF Types, InitPublish, Goto, Labels, Exiting, AfterReturn, AfterVfork, AfterReparent,
      AfterAdoption
<1>3. Types'
  BY <1>0, <1>1, <1>2 DEF Types, InitPublish
<1>4. StepInitPublish(t)
  BY <1>0
  DEF InitPublish, Types, Goto, PcTo, PcOthers, LocOthers, KeepJob, KeepScan, KeepMoved,
      KeepExit, KeepVfork, KeepKill, ProcOthers, KeepLife, KeepCount, KeepPending,
      KeepFamily, KeepSeq, KeepVparent, KeepSlots, ProcRecord, LocalRecord,
      StepInitPublish, NextSeq
<1> QED
  BY <1>3, <1>4

\* InitWake wakes one thread of init, or none is left.
LEMMA InitWakeEffect ==
  ASSUME ControlInv, NEW t \in Tasks, InitWake(t)
  PROVE  Types' /\ (\E u \in SomeTask : StepInitWake(t, u))
<1>0. Types /\ Ctl(t) /\ ProcOf[t] \in Procs
  BY DEF ControlInv
<1>a. AfterAdoption(t) \in Labels
  BY DEF AfterAdoption, Labels, Exiting
<1>b. PICK u \in SomeTask :
        /\ u # Nobody => Asleep(u)
        /\ pc' \in [Tasks -> Labels] /\ token' \in [Tasks -> BOOLEAN]
        /\ PcWakes(t, AfterAdoption(t), u)
  <2>1. CASE {u \in proc[InitProc].tasks : Asleep(u)} = {}
    <3>1. pc' \in [Tasks -> Labels] /\ PcTo(t, AfterAdoption(t))
      BY <1>0, <1>a, <2>1, GotoTyped DEF InitWake
    <3>2. PcWakes(t, AfterAdoption(t), Nobody)
      BY <3>1 DEF PcTo, PcOthers, PcWakes
    <3>3. token' \in [Tasks -> BOOLEAN]
      BY <1>0, <2>1 DEF InitWake, Types
    <3> QED
      BY <3>1, <3>2, <3>3 DEF SomeTask
  <2>2. CASE {u \in proc[InitProc].tasks : Asleep(u)} # {}
    <3>1. PICK u \in proc[InitProc].tasks : Asleep(u) /\ Wakeup(u, t, AfterAdoption(t))
      BY <2>2 DEF InitWake
    <3>2. u \in Tasks
      BY <1>0, <3>1 DEF Types, ProcRecord
    <3> QED
      BY <1>0, <1>a, <3>1, <3>2, WakeupTyped DEF SomeTask
  <2> QED
    BY <2>1, <2>2
<1>1. pc' \in [Tasks -> Labels] /\ token' \in [Tasks -> BOOLEAN]
  BY <1>b
<1>2. Types'
  BY <1>0, <1>1 DEF Types, InitWake
<1>3. \E x \in SomeTask : StepInitWake(t, x)
  BY <1>b DEF InitWake, StepInitWake
<1> QED
  BY <1>2, <1>3

\* WaitSeq reads the event number of the caller's process.
LEMMA WaitSeqEffect ==
  ASSUME ControlInv, NEW t \in Tasks, WaitSeq(t)
  PROVE  Types' /\ StepWaitSeq(t)
<1>0. Types /\ Ctl(t) /\ ProcOf[t] \in Procs
  BY DEF ControlInv
<1>1. loc' \in [Tasks -> LocalRecord]
  BY <1>0 DEF Types, WaitSeq, NoLocals, ProcRecord, LocalRecord, Why, SomeProc, SomeTask
<1>2. pc' \in [Tasks -> Labels]
  BY <1>0
  DEF Types, WaitSeq, Goto, Labels, Exiting, AfterReturn, AfterVfork, AfterReparent,
      AfterAdoption
<1>3. Types'
  BY <1>0, <1>1, <1>2 DEF Types, WaitSeq
<1>4. StepWaitSeq(t)
  BY <1>0
  DEF WaitSeq, Types, Goto, PcTo, PcOthers, LocOthers, Fresh, NoLocals, StepWaitSeq, At
<1> QED
  BY <1>3, <1>4

\* WaitList reads the list of children.
LEMMA WaitListEffect ==
  ASSUME ControlInv, NEW t \in Tasks, WaitList(t)
  PROVE  Types' /\ StepWaitList(t)
<1>0. Types /\ Ctl(t) /\ ProcOf[t] \in Procs
  BY DEF ControlInv
<1>1. loc' \in [Tasks -> LocalRecord]
  <2>1. loc[t] \in LocalRecord
    BY <1>0 DEF Types
  <2>2. (proc[ProcOf[t]].children) \in SUBSET Procs
    BY <1>0, <2>1 DEF LocalRecord, Why, Life, Stage, SomeProc, SomeTask, Types, ProcRecord
  <2>3. [loc[t] EXCEPT !.todo = proc[ProcOf[t]].children] \in LocalRecord
    BY <2>1, <2>2, LocalUpdates
  <2>4. loc' = [loc EXCEPT ![t] = [loc[t] EXCEPT !.todo = proc[ProcOf[t]].children]]
    BY <1>0 DEF Types, WaitList
  <2> QED
    BY <1>0, <2>3, <2>4 DEF Types
<1>2. pc' \in [Tasks -> Labels]
  BY <1>0
  DEF Types, WaitList, Goto, Labels, Exiting, AfterReturn, AfterVfork, AfterReparent,
      AfterAdoption
<1>3. Types'
  BY <1>0, <1>1, <1>2 DEF Types, WaitList
<1>4. StepWaitList(t)
  BY <1>0
  DEF WaitList, Types, Goto, PcTo, PcOthers, LocOthers, KeepJob, KeepScan, KeepMoved,
      KeepExit, KeepVfork, KeepKill, ProcOthers, KeepLife, KeepCount, KeepPending,
      KeepFamily, KeepSeq, KeepVparent, KeepSlots, ProcRecord, LocalRecord, StepWaitList
<1> QED
  BY <1>3, <1>4

\* WaitScan finds one child reapable or passes over it.
LEMMA WaitScanEffect ==
  ASSUME ControlInv, NEW t \in Tasks, WaitScan(t)
  PROVE  Types' /\ (\E c \in Procs : StepFound(t, c) \/ StepPass(t, c))
<1>0. Types /\ Ctl(t) /\ ProcOf[t] \in Procs
  BY DEF ControlInv
<1>a. PICK c \in loc[t].todo :
        IF Reapable(t, c)
        THEN loc' = [loc EXCEPT ![t].of = c] /\ Goto(t, "waitRemove")
        ELSE /\ loc' = [loc EXCEPT ![t].todo = @ \ {c},
                                  ![t].found = @ \/ Wanted(t, c),
                                  ![t].switching = @ \/ (Wanted(t, c) /\ Dead(c))]
             /\ pc' = pc
  BY DEF WaitScan
<1>b. c \in Procs /\ loc[t] \in LocalRecord
  BY <1>0, <1>a DEF Types, LocalRecord
<1>1. loc' \in [Tasks -> LocalRecord]
  <2>1. CASE Reapable(t, c)
    <3>1. [loc[t] EXCEPT !.of = c] \in LocalRecord
      BY <1>b, LocalUpdates DEF SomeProc
    <3> QED
      BY <1>0, <1>a, <2>1, <3>1 DEF Types
  <2>2. CASE ~Reapable(t, c)
    <3>1. [loc[t] EXCEPT !.todo = @ \ {c}, !.found = @ \/ Wanted(t, c),
                         !.switching = @ \/ (Wanted(t, c) /\ Dead(c))] \in LocalRecord
      BY <1>b DEF LocalRecord
    <3>2. loc' = [loc EXCEPT ![t] = [loc[t] EXCEPT !.todo = @ \ {c},
                                                   !.found = @ \/ Wanted(t, c),
                                     !.switching = @ \/ (Wanted(t, c) /\ Dead(c))]]
      BY <1>0, <1>a, <2>2 DEF Types
    <3> QED
      BY <1>0, <3>1, <3>2 DEF Types
  <2> QED
    BY <2>1, <2>2
<1>2. pc' \in [Tasks -> Labels]
  BY <1>0, <1>a DEF Types, Goto, Labels
<1>3. Types'
  BY <1>0, <1>1, <1>2 DEF Types, WaitScan
<1>4. \E x \in Procs : StepFound(t, x) \/ StepPass(t, x)
  <2>1. Reapable(t, c) => StepFound(t, c)
    BY <1>0, <1>a, <1>b
    DEF WaitScan, StepFound, Reapable, Types, Goto, LocalRecord, PcTo, PcOthers,
        LocOthers, KeepJob, KeepScan, KeepMoved, KeepExit, KeepVfork, KeepKill
  <2>2. ~Reapable(t, c) => StepPass(t, c)
    BY <1>0, <1>a, <1>b
    DEF WaitScan, StepPass, Types, LocalRecord, PcTo, PcOthers, LocOthers, KeepJob,
        KeepScan, KeepMoved, KeepExit, KeepVfork, KeepKill
  <2> QED
    BY <1>b, <2>1, <2>2
<1> QED
  BY <1>3, <1>4

\* WaitReport only ends the call.
LEMMA WaitReportEffect ==
  ASSUME ControlInv, NEW t \in Tasks, WaitReport(t)
  PROVE  Types' /\ StepReturn(t)
<1>0. Types /\ Ctl(t) /\ ProcOf[t] \in Procs
  BY DEF ControlInv
<1>1. loc' \in [Tasks -> LocalRecord] /\ pc' \in [Tasks -> Labels]
  BY <1>0, ReturnTyped DEF WaitReport
<1>2. prog' \in [Tasks -> Seq(Calls)] /\ ProgOthers(t)
  BY <1>0, TakenTyped DEF WaitReport
<1>3. Types'
  BY <1>0, <1>1, <1>2 DEF Types, WaitReport
<1>4. StepReturn(t)
  BY <1>0, <1>2, ReturnTyped DEF WaitReport, StepReturn
<1> QED
  BY <1>3, <1>4

\* WaitDecide ends the call or goes on to block.
LEMMA WaitDecideEffect ==
  ASSUME ControlInv, NEW t \in Tasks, WaitDecide(t)
  PROVE  Types' /\ (StepReturn(t) \/ StepAgain(t))
<1>0. Types /\ Ctl(t) /\ ProcOf[t] \in Procs
  BY DEF ControlInv
<1>1. loc' \in [Tasks -> LocalRecord] /\ pc' \in [Tasks -> Labels]
  BY <1>0, ReturnTyped DEF Types, WaitDecide, Goto, Labels
<1>2. prog' \in [Tasks -> Seq(Calls)] /\ ProgOthers(t)
  BY <1>0, TakenTyped DEF Types, WaitDecide, ProgOthers
<1>3. Types'
  BY <1>0, <1>1, <1>2 DEF Types, WaitDecide
<1>4. StepReturn(t) \/ StepAgain(t)
  <2>1. CASE WaitReturns(t)
    BY <1>0, <1>2, <2>1, ReturnTyped DEF WaitDecide, StepReturn
  <2>2. CASE ~WaitReturns(t)
    BY <1>0, <2>2 DEF WaitDecide, StepAgain, Types, Goto, PcTo, PcOthers
  <2> QED
    BY <2>1, <2>2
<1> QED
  BY <1>3, <1>4

\* WaitBlock sleeps, or looks again when the event number has changed or a token is there.
LEMMA WaitBlockEffect ==
  ASSUME ControlInv, NEW t \in Tasks, WaitBlock(t)
  PROVE  Types' /\ StepWaitBlock(t)
<1>0. Types /\ Ctl(t) /\ ProcOf[t] \in Procs
  BY DEF ControlInv
<1>1. token' \in [Tasks -> BOOLEAN]
  BY <1>0 DEF Types, WaitBlock
<1>2. pc' \in [Tasks -> Labels]
  BY <1>0
  DEF Types, WaitBlock, Goto, Labels, Exiting, AfterReturn, AfterVfork, AfterReparent,
      AfterAdoption
<1>3. Types'
  BY <1>0, <1>1, <1>2 DEF Types, WaitBlock
<1>4. StepWaitBlock(t)
  BY <1>0 DEF WaitBlock, Types, Goto, PcOthers, StepWaitBlock, MustNotBlock, Cancelled
<1> QED
  BY <1>3, <1>4

\* WaitRemove takes the child out of the list, or finds that a sibling has.
LEMMA WaitRemoveEffect ==
  ASSUME ControlInv, NEW t \in Tasks, WaitRemove(t)
  PROVE  Types' /\ (StepWin(t) \/ StepLose(t))
<1>0. Types /\ Ctl(t) /\ ProcOf[t] \in Procs
  BY DEF ControlInv
<1> DEFINE won == loc[t].of \in proc[ProcOf[t]].children
<1>1. proc' \in [Procs -> ProcRecord]
  <2>1. CASE won
    <3>1. proc[ProcOf[t]] \in ProcRecord
      BY <1>0, <2>1 DEF Types
    <3>2. (proc[ProcOf[t]].children \ {loc[t].of}) \in SUBSET Procs
      BY <1>0, <2>1, <3>1 DEF ProcRecord, Why, Life, Stage, SomeProc, SomeTask
    <3>3. [proc[ProcOf[t]] EXCEPT !.children = proc[ProcOf[t]].children \ {loc[t].of}] \in ProcRecord
      BY <3>1, <3>2, ProcUpdates
    <3>4. proc' = [proc EXCEPT ![ProcOf[t]] =
            [proc[ProcOf[t]] EXCEPT !.children = proc[ProcOf[t]].children \ {loc[t].of}]]
      BY <1>0, <2>1 DEF Types, WaitRemove
    <3> QED
      BY <1>0, <2>1, <3>3, <3>4 DEF Types
  <2>2. CASE ~won
    BY <1>0, <2>2 DEF Types, WaitRemove
  <2> QED
    BY <2>1, <2>2
<1>2. loc' \in [Tasks -> LocalRecord]
  <2>1. "reap" \in Why /\ loc[t] \in LocalRecord
    BY <1>0 DEF Types, Why
  <2>2. [loc[t] EXCEPT !.why = "reap"] \in LocalRecord
    BY <2>1, LocalUpdates
  <2> QED
    BY <1>0, <2>2 DEF Types, WaitRemove
<1>3. pc' \in [Tasks -> Labels]
  <2>1. {"rpTake", "waitSeq"} \subseteq Labels
    BY DEF Labels
  <2> QED
    BY <1>0, <2>1, GotoTyped DEF WaitRemove
<1>4. Types'
  BY <1>0, <1>1, <1>2, <1>3 DEF Types, WaitRemove
<1>5. StepWin(t) \/ StepLose(t)
  <2>1. CASE won
    BY <1>0, <2>1
    DEF WaitRemove, StepWin, SetChildren, Types, Goto, ProcRecord, LocalRecord, PcTo,
        PcOthers, LocOthers, KeepJob, KeepScan, KeepMoved, KeepExit, KeepVfork,
        KeepKill,
        ProcOthers, KeepLife, KeepCount, KeepPending, KeepFamily, KeepSeq, KeepVparent, KeepSlots
  <2>2. CASE ~won
    BY <1>0, <2>2 DEF WaitRemove, StepLose, Types, Goto, PcTo, PcOthers
  <2> QED
    BY <2>1, <2>2
<1> QED
  BY <1>4, <1>5

\* WaitFree takes the child out of the pid table.
LEMMA WaitFreeEffect ==
  ASSUME ControlInv, NEW t \in Tasks, WaitFree(t)
  PROVE  Types' /\ StepFree(t)
<1>0. Types /\ Ctl(t) /\ ProcOf[t] \in Procs
  BY DEF ControlInv
<1> DEFINE c == loc[t].of
<1>a. c \in Procs /\ pc[t] = "waitFree"
  BY <1>0 DEF WaitFree, Ctl
<1>b. proc[c] \in ProcRecord
  BY <1>0, <1>a DEF Types
<1>1. proc' \in [Procs -> ProcRecord]
  <2>1. [proc[c] EXCEPT !.life = "reaped",
                        !.tasks = {},
                        !.children = {},
                        !.vforkParent = Nobody]
          \in ProcRecord
    BY <1>b DEF ProcRecord, Life, SomeProc, SomeTask
  <2> QED
    BY <1>0, <1>a, <2>1 DEF Types, WaitFree
<1>2. loc' \in [Tasks -> LocalRecord] /\ pc' \in [Tasks -> Labels]
  BY <1>0, ReturnTyped DEF WaitFree
<1>3. prog' \in [Tasks -> Seq(Calls)] /\ ProgOthers(t)
  BY <1>0, TakenTyped DEF WaitFree
<1>4. Types'
  BY <1>0, <1>1, <1>2, <1>3 DEF Types, WaitFree
<1>5. StepFree(t)
  <2>1. /\ proc'[c].life = "reaped" /\ proc'[c].tasks = {} /\ proc'[c].children = {}
        /\ proc'[c].vforkParent = Nobody /\ proc'[c].parent = proc[c].parent
        /\ KeepCount(c) /\ KeepPending(c) /\ KeepSeq(c) /\ ProcOthers(c)
    BY <1>0, <1>a, <1>b
    DEF WaitFree, Types, ProcRecord, ProcOthers, KeepLife, KeepCount, KeepPending,
        KeepFamily, KeepSeq, KeepVparent, KeepSlots
  <2> QED
    BY <1>0, <1>a, <1>3, <2>1, ReturnTyped DEF WaitFree, StepFree
<1> QED
  BY <1>4, <1>5

\* ExitCount subtracts the thread and learns whether it was the last.
LEMMA ExitCountEffect ==
  ASSUME ControlInv, NEW t \in Tasks, ExitCount(t)
  PROVE  Types' /\ StepCount(t)
<1>0. Types /\ Ctl(t) /\ ProcOf[t] \in Procs
  BY DEF ControlInv
<1> DEFINE p == ProcOf[t]
<1> DEFINE last == proc[p].alive = 1
<1>a. pc[t] \in {"user", "exitCount"}
  BY DEF ExitCount, CallsExit, At
<1>b. proc[p].alive \in Nat \ {0} /\ proc[p] \in ProcRecord
  BY <1>0, <1>a, CountedAlive DEF Ctl, Types
<1>1. proc' \in [Procs -> ProcRecord]
  <2>1. proc[p] \in ProcRecord
    BY <1>0, <1>b DEF Types
  <2>2. /\ (proc[p].alive - 1) \in Nat
        /\ (proc[p].pending \/ last) \in BOOLEAN
        /\ (proc[p].zombie \/ last) \in BOOLEAN
    BY <1>0, <1>b, <2>1 DEF ProcRecord, Why, Life, Stage, SomeProc, SomeTask
  <2>3. [proc[p] EXCEPT !.alive = proc[p].alive - 1,
                        !.pending = proc[p].pending \/ last,
                        !.zombie = proc[p].zombie \/ last] \in ProcRecord
    BY <2>1, <2>2, ProcUpdates
  <2>4. proc' = [proc EXCEPT ![p] = [proc[p] EXCEPT !.alive = proc[p].alive - 1,
                                                    !.pending = proc[p].pending \/ last,
                                                    !.zombie = proc[p].zombie \/ last]]
    BY <1>0, <1>b DEF Types, ExitCount, Counted
  <2> QED
    BY <1>0, <1>b, <2>3, <2>4 DEF Types
<1>2. loc' \in [Tasks -> LocalRecord]
  BY <1>0 DEF Types, ExitCount, NoLocals, LocalRecord, Why, SomeProc, SomeTask
<1>3. pc' \in [Tasks -> Labels]
  BY <1>0
  DEF Types, ExitCount, Goto, Labels, Exiting, AfterReturn, AfterVfork, AfterReparent,
      AfterAdoption
<1>4. Types'
  BY <1>0, <1>1, <1>2, <1>3 DEF Types, ExitCount
<1>5. StepCount(t)
  <2>1. /\ proc'[p].alive = proc[p].alive - 1
        /\ proc'[p].pending <=> (proc[p].pending \/ last)
        /\ proc'[p].zombie <=> (proc[p].zombie \/ last)
        /\ KeepLife(p) /\ KeepFamily(p) /\ KeepSeq(p) /\ KeepVparent(p) /\ KeepSlots(p)
        /\ ProcOthers(p)
    BY <1>0, <1>b
    DEF ExitCount, Counted, Types, ProcRecord, ProcOthers, KeepLife, KeepCount,
        KeepPending, KeepFamily, KeepSeq, KeepVparent, KeepSlots
  <2> QED
    BY <1>0, <1>a, <2>1
    DEF ExitCount, StepCount, Types, Goto, PcTo, PcOthers, LocOthers, Fresh, NoLocals
<1> QED
  BY <1>4, <1>5

\* ExitDetach gives up the slot of a thread that was not the last.
LEMMA ExitDetachEffect ==
  ASSUME ControlInv, NEW t \in Tasks, ExitDetach(t)
  PROVE  Types' /\ StepDetach(t)
<1>0. Types /\ Ctl(t) /\ ProcOf[t] \in Procs
  BY DEF ControlInv
<1>1. proc' \in [Procs -> ProcRecord]
  <2>1. proc[ProcOf[t]] \in ProcRecord
    BY <1>0 DEF Types
  <2>2. (IF DetachNow(t) THEN proc[ProcOf[t]].tasks \ {t} ELSE proc[ProcOf[t]].tasks) \in SUBSET Tasks
    BY <1>0, <2>1 DEF ProcRecord, Why, Life, Stage, SomeProc, SomeTask
  <2>3. [proc[ProcOf[t]] EXCEPT !.tasks = IF DetachNow(t) THEN proc[ProcOf[t]].tasks \ {t} ELSE proc[ProcOf[t]].tasks] \in ProcRecord
    BY <2>1, <2>2, ProcUpdates
  <2>4. proc' = [proc EXCEPT ![ProcOf[t]] =
          [proc[ProcOf[t]] EXCEPT !.tasks = IF DetachNow(t) THEN proc[ProcOf[t]].tasks \ {t} ELSE proc[ProcOf[t]].tasks]]
    BY <1>0 DEF Types, ExitDetach
  <2> QED
    BY <1>0, <2>3, <2>4 DEF Types
<1>2. pc' \in [Tasks -> Labels]
  BY <1>0
  DEF Types, ExitDetach, Goto, Labels, Exiting, AfterReturn, AfterVfork, AfterReparent,
      AfterAdoption
<1>3. Types'
  BY <1>0, <1>1, <1>2 DEF Types, ExitDetach
<1>4. StepDetach(t)
  <2>1. SetSlots(ProcOf[t], IF DetachNow(t) THEN proc[ProcOf[t]].tasks \ {t}
                                            ELSE proc[ProcOf[t]].tasks)
    BY <1>0
    DEF ExitDetach, SetSlots, Types, ProcRecord, ProcOthers, KeepLife, KeepCount,
        KeepPending, KeepFamily, KeepSeq, KeepVparent, KeepSlots
  <2> QED
    BY <1>0, <2>1 DEF ExitDetach, StepDetach, Types, Goto, PcOthers
<1> QED
  BY <1>3, <1>4

\* ExitParent reads the parent and takes the debt of a vfork.
LEMMA ExitParentEffect ==
  ASSUME ControlInv, NEW t \in Tasks, ExitParent(t)
  PROVE  Types' /\ StepParent(t)
<1>0. Types /\ Ctl(t) /\ ProcOf[t] \in Procs
  BY DEF ControlInv
<1>a. proc[ProcOf[t]].parent \in SomeProc /\ proc[ProcOf[t]].vforkParent \in SomeTask
  BY <1>0 DEF Types, ProcRecord
<1>1. proc' \in [Procs -> ProcRecord]
  <2>1. proc[ProcOf[t]] \in ProcRecord
    BY <1>0 DEF Types
  <2>2. (Nobody) \in SomeTask
    BY <1>0, <2>1 DEF ProcRecord, Why, Life, Stage, SomeProc, SomeTask
  <2>3. [proc[ProcOf[t]] EXCEPT !.vforkParent = Nobody] \in ProcRecord
    BY <2>1, <2>2, ProcUpdates
  <2>4. proc' = [proc EXCEPT ![ProcOf[t]] = [proc[ProcOf[t]] EXCEPT !.vforkParent = Nobody]]
    BY <1>0 DEF Types, ExitParent
  <2> QED
    BY <1>0, <2>3, <2>4 DEF Types
<1>2. loc' \in [Tasks -> LocalRecord]
  <2>1. loc[t] \in LocalRecord
    BY <1>0, <1>a DEF Types
  <2>2. (proc[ProcOf[t]].parent) \in SomeProc /\ (proc[ProcOf[t]].vforkParent) \in SomeTask
    BY <1>0, <1>a, <2>1 DEF LocalRecord, Why, Life, Stage, SomeProc, SomeTask
  <2>3. [loc[t] EXCEPT !.parent = proc[ProcOf[t]].parent,
                       !.vforkParent = proc[ProcOf[t]].vforkParent] \in LocalRecord
    BY <2>1, <2>2, LocalUpdates
  <2>4. loc' = [loc EXCEPT ![t] = [loc[t] EXCEPT !.parent = proc[ProcOf[t]].parent,
                                                 !.vforkParent = proc[ProcOf[t]].vforkParent]]
    BY <1>0, <1>a DEF Types, ExitParent
  <2> QED
    BY <1>0, <1>a, <2>3, <2>4 DEF Types
<1>3. pc' \in [Tasks -> Labels]
  BY <1>0
  DEF Types, ExitParent, Goto, Labels, Exiting, AfterReturn, AfterVfork, AfterReparent,
      AfterAdoption
<1>4. Types'
  BY <1>0, <1>1, <1>2, <1>3 DEF Types, ExitParent
<1>5. StepParent(t)
  BY <1>0
  DEF ExitParent, Types, Goto, PcTo, PcOthers, LocOthers, KeepJob, KeepScan, KeepMoved,
      KeepExit, KeepVfork, KeepKill, ProcOthers, KeepLife, KeepCount, KeepPending,
      KeepFamily, KeepSeq, KeepVparent, KeepSlots, ProcRecord, LocalRecord, StepParent,
      ClearVparent
<1> QED
  BY <1>4, <1>5

\* ExitDefer enters the thread into the deferred-exit list.
LEMMA ExitDeferEffect ==
  ASSUME ControlInv, NEW t \in Tasks, ExitDefer(t)
  PROVE  Types' /\ StepDefer(t)
<1>0. Types /\ Ctl(t) /\ ProcOf[t] \in Procs
  BY DEF ControlInv
<1>1. deferred' \in [Tasks -> EntryRecord]
  BY <1>0 DEF Types, ExitDefer, NoEntry, EntryRecord, LocalRecord, Stage
<1>2. pc' \in [Tasks -> Labels]
  BY <1>0
  DEF Types, ExitDefer, Goto, Labels, Exiting, AfterReturn, AfterVfork, AfterReparent,
      AfterAdoption
<1>3. Types'
  BY <1>0, <1>1, <1>2 DEF Types, ExitDefer
<1>4. StepDefer(t)
  BY <1>0 DEF ExitDefer, Types, Goto, PcTo, PcOthers, StepDefer, NoEntry, EntryOthers
<1> QED
  BY <1>3, <1>4

\* ExitSwitch leaves the kernel stack.
LEMMA ExitSwitchEffect ==
  ASSUME ControlInv, NEW t \in Tasks, ExitSwitch(t)
  PROVE  Types' /\ StepSwitch(t)
<1>0. Types /\ Ctl(t) /\ ProcOf[t] \in Procs
  BY DEF ControlInv
<1>1. pc' \in [Tasks -> Labels]
  BY <1>0
  DEF Types, ExitSwitch, Goto, Labels, Exiting, AfterReturn, AfterVfork, AfterReparent,
      AfterAdoption
<1>2. Types'
  BY <1>0, <1>1 DEF Types, ExitSwitch
<1>3. StepSwitch(t)
  BY <1>0 DEF ExitSwitch, Types, Goto, PcTo, PcOthers, StepSwitch
<1> QED
  BY <1>2, <1>3

\* ExitGroup marks the process and lists the siblings to notify.
LEMMA ExitGroupEffect ==
  ASSUME ControlInv, NEW t \in Tasks, ExitGroup(t)
  PROVE  Types' /\ StepGroup(t)
<1>0. Types /\ Ctl(t) /\ ProcOf[t] \in Procs
  BY DEF ControlInv
<1>1. proc' \in [Procs -> ProcRecord]
  <2>1. proc[ProcOf[t]] \in ProcRecord
    BY <1>0 DEF Types
  <2>2. (TRUE) \in BOOLEAN
    BY <1>0, <2>1 DEF ProcRecord, Why, Life, Stage, SomeProc, SomeTask
  <2>3. [proc[ProcOf[t]] EXCEPT !.zombie = TRUE] \in ProcRecord
    BY <2>1, <2>2, ProcUpdates
  <2>4. proc' = [proc EXCEPT ![ProcOf[t]] = [proc[ProcOf[t]] EXCEPT !.zombie = TRUE]]
    BY <1>0 DEF Types, ExitGroup
  <2> QED
    BY <1>0, <2>3, <2>4 DEF Types
<1>2. loc' \in [Tasks -> LocalRecord]
  <2>1. loc[t] \in LocalRecord
    BY <1>0 DEF Types
  <2>2. ("group") \in Why /\ (proc[ProcOf[t]].tasks \ {t}) \in SUBSET Tasks
    BY <1>0, <2>1 DEF LocalRecord, Why, Life, Stage, SomeProc, SomeTask, Types, ProcRecord
  <2>3. [loc[t] EXCEPT !.why = "group",
                       !.threads = proc[ProcOf[t]].tasks \ {t}] \in LocalRecord
    BY <2>1, <2>2, LocalUpdates
  <2>4. loc' = [loc EXCEPT ![t] = [loc[t] EXCEPT !.why = "group",
                                                 !.threads = proc[ProcOf[t]].tasks \ {t}]]
    BY <1>0 DEF Types, ExitGroup
  <2> QED
    BY <1>0, <2>3, <2>4 DEF Types
<1>3. pc' \in [Tasks -> Labels]
  BY <1>0
  DEF Types, ExitGroup, Goto, Labels, Exiting, AfterReturn, AfterVfork, AfterReparent,
      AfterAdoption
<1>4. prog' \in [Tasks -> Seq(Calls)] /\ ProgOthers(t)
  BY <1>0, TakenTyped DEF ExitGroup
<1>5. Types'
  BY <1>0, <1>1, <1>2, <1>3, <1>4 DEF Types, ExitGroup
<1>6. StepGroup(t)
  BY <1>0, <1>4
  DEF ExitGroup, Types, Goto, PcTo, PcOthers, LocOthers, KeepJob, KeepScan, KeepMoved,
      KeepExit, KeepVfork, KeepKill, ProcOthers, KeepLife, KeepCount, KeepPending,
      KeepFamily, KeepSeq, KeepVparent, KeepSlots, ProcRecord, LocalRecord, StepGroup,
      SetZombie, At
<1> QED
  BY <1>5, <1>6

\* Kill marks its target and lists the threads to notify, or finds a zombie.
LEMMA KillEffect ==
  ASSUME ControlInv, NEW t \in Tasks, Kill(t)
  PROVE  Types' /\ (StepReturn(t) \/ StepKill(t, Arg(t).target))
<1>0. Types /\ Ctl(t) /\ ProcOf[t] \in Procs
  BY DEF ControlInv
<1> DEFINE p == Arg(t).target
<1>a. p \in Procs /\ pc[t] = "user" /\ proc[p].life = "live"
  BY <1>0, CallsTyped DEF Kill, At
<1>b. proc[p] \in ProcRecord /\ loc[t] \in LocalRecord
  BY <1>0, <1>a DEF Types
<1>1. proc' \in [Procs -> ProcRecord]
  <2>1. [proc[p] EXCEPT !.zombie = TRUE] \in ProcRecord
    BY <1>b, ProcUpdates
  <2>2. proc' = proc \/ proc' = [proc EXCEPT ![p] = [proc[p] EXCEPT !.zombie = TRUE]]
    BY <1>0 DEF Kill, Types
  <2> QED
    BY <1>0, <1>a, <2>1, <2>2 DEF Types
<1>2. loc' \in [Tasks -> LocalRecord]
  <2>1. CASE proc[p].zombie
    BY <1>0, <2>1, ReturnTyped DEF Kill
  <2>2. CASE ~proc[p].zombie
    <3>1. [loc[t] EXCEPT !.why = "kill",
                         !.of = p,
                         !.threads = proc[p].tasks] \in LocalRecord
      BY <1>a, <1>b DEF ProcRecord, LocalRecord, Why, SomeProc, SomeTask
    <3>2. loc' = [loc EXCEPT ![t] = [loc[t] EXCEPT !.why = "kill",
                                                   !.of = p,
                                                   !.threads = proc[p].tasks]]
      BY <1>0, <2>2 DEF Types, Kill
    <3> QED
      BY <1>0, <3>1, <3>2 DEF Types
  <2> QED
    BY <2>1, <2>2
<1>3. pc' \in [Tasks -> Labels]
  BY <1>0, ReturnTyped DEF Types, Kill, Goto, Labels
<1>4. prog' \in [Tasks -> Seq(Calls)] /\ ProgOthers(t)
  BY <1>0, TakenTyped DEF Kill
<1>5. Types'
  BY <1>0, <1>1, <1>2, <1>3, <1>4 DEF Types, Kill
<1>6. StepReturn(t) \/ StepKill(t, p)
  <2>1. CASE proc[p].zombie
    BY <1>0, <1>a, <1>4, <2>1, ReturnTyped DEF Kill, StepReturn
  <2>2. CASE ~proc[p].zombie
    <3>0. proc' = [proc EXCEPT ![p] = [proc[p] EXCEPT !.zombie = TRUE]]
      BY <1>0, <2>2 DEF Kill, Types
    <3>1. SetZombie(p)
      BY <1>0, <1>a, <1>b, <3>0
      DEF SetZombie, Types, ProcRecord, ProcOthers, KeepLife, KeepCount, KeepPending,
          KeepFamily, KeepSeq, KeepVparent, KeepSlots
    <3>2. /\ loc'[t].why = "kill" /\ loc'[t].of = p
          /\ loc'[t].threads = proc[p].tasks /\ loc'[t].who = loc[t].who
          /\ KeepScan(t) /\ KeepMoved(t) /\ KeepExit(t) /\ KeepVfork(t) /\ LocOthers(t)
      BY <1>0, <2>2
      DEF Kill, Types, LocalRecord, PcTo, PcOthers, LocOthers, KeepJob, KeepScan,
          KeepMoved, KeepExit, KeepVfork, KeepKill
    <3>3. PcTo(t, IF p = InitProc THEN "notify" ELSE "rpTake")
      BY <1>0, <2>2 DEF Kill, Types, Goto, PcTo, PcOthers
    <3> QED
      BY <1>a, <1>4, <3>1, <3>2, <3>3 DEF Kill, StepKill
  <2> QED
    BY <2>1, <2>2
<1> QED
  BY <1>5, <1>6

\* A kill of a process that is not in the pid table only ends the call.
LEMMA KillNobodyEffect ==
  ASSUME ControlInv, NEW t \in Tasks, KillNobody(t)
  PROVE  Types' /\ StepReturn(t)
<1>0. Types /\ Ctl(t) /\ ProcOf[t] \in Procs
  BY DEF ControlInv
<1>1. loc' \in [Tasks -> LocalRecord] /\ pc' \in [Tasks -> Labels]
  BY <1>0, ReturnTyped DEF KillNobody
<1>2. prog' \in [Tasks -> Seq(Calls)] /\ ProgOthers(t)
  BY <1>0, TakenTyped DEF KillNobody
<1>3. Types'
  BY <1>0, <1>1, <1>2 DEF Types, KillNobody
<1>4. StepReturn(t)
  BY <1>0, <1>2, ReturnTyped DEF KillNobody, StepReturn, At
<1> QED
  BY <1>3, <1>4

\* NotifyFlag marks one listed thread.
LEMMA NotifyFlagEffect ==
  ASSUME ControlInv, NEW t \in Tasks, NotifyFlag(t)
  PROVE  Types' /\ (\E u \in Tasks : StepFlag(t, u) \/ StepFlagOnly(t, u))
<1>0. Types /\ Ctl(t) /\ ProcOf[t] \in Procs
  BY DEF ControlInv
<1>a. PICK u \in loc[t].threads :
        /\ flag' = [flag EXCEPT ![u] = TRUE]
        /\ IF NeedsWakeup(t, u)
           THEN Goto(t, "notifyWake") /\ loc' = [loc EXCEPT ![t].who = u]
           ELSE pc' = pc /\ loc' = [loc EXCEPT ![t].threads = @ \ {u}]
  BY DEF NotifyFlag
<1>b. u \in Tasks
  BY <1>0, <1>a DEF Types, LocalRecord
<1>1. loc' \in [Tasks -> LocalRecord]
  <2>1. loc[t] \in LocalRecord /\ u \in SomeTask
    BY <1>0, <1>b DEF Types, SomeTask
  <2>2. loc[t].threads \ {u} \in SUBSET Tasks
    BY <2>1 DEF LocalRecord
  <2>3. /\ [loc[t] EXCEPT !.who = u] \in LocalRecord
        /\ [loc[t] EXCEPT !.threads = loc[t].threads \ {u}] \in LocalRecord
    BY <2>1, <2>2, LocalUpdates
  <2>4. \/ loc' = [loc EXCEPT ![t] = [loc[t] EXCEPT !.who = u]]
        \/ loc' = [loc EXCEPT ![t] = [loc[t] EXCEPT !.threads = loc[t].threads \ {u}]]
    BY <1>0, <1>a DEF Types
  <2> QED
    BY <1>0, <2>3, <2>4 DEF Types
<1>2. pc' \in [Tasks -> Labels]
  BY <1>0, <1>a DEF Types, Goto, Labels
<1>3. flag' \in [Tasks -> BOOLEAN]
  BY <1>0, <1>a DEF Types
<1>4. Types'
  BY <1>0, <1>1, <1>2, <1>3 DEF Types, NotifyFlag
<1>5. \E x \in Tasks : StepFlag(t, x) \/ StepFlagOnly(t, x)
  <2>1. NeedsWakeup(t, u) => StepFlag(t, u)
    BY <1>0, <1>a, <1>b
    DEF NotifyFlag, StepFlag, Types, Goto, LocalRecord, PcTo, PcOthers, LocOthers,
        KeepJob, KeepScan, KeepMoved, KeepExit, KeepVfork, KeepKill
  <2>2. ~NeedsWakeup(t, u) => StepFlagOnly(t, u)
    BY <1>0, <1>a, <1>b
    DEF NotifyFlag, StepFlagOnly, Types, LocalRecord, PcTo, PcOthers, LocOthers,
        KeepJob, KeepScan, KeepMoved, KeepExit, KeepVfork, KeepKill
  <2> QED
    BY <1>b, <2>1, <2>2
<1> QED
  BY <1>4, <1>5

\* NotifyWake wakes the thread that was marked.
LEMMA NotifyWakeEffect ==
  ASSUME ControlInv, NEW t \in Tasks, NotifyWake(t)
  PROVE  Types' /\ StepNotify(t)
<1>0. Types /\ Ctl(t) /\ ProcOf[t] \in Procs
  BY DEF ControlInv
<1>1. loc' \in [Tasks -> LocalRecord]
  <2>1. loc[t] \in LocalRecord
    BY <1>0 DEF Types
  <2>2. (loc[t].threads \ {loc[t].who}) \in SUBSET Tasks /\ (Nobody) \in SomeTask
    BY <1>0, <2>1 DEF LocalRecord, Why, Life, Stage, SomeProc, SomeTask
  <2>3. [loc[t] EXCEPT !.threads = loc[t].threads \ {loc[t].who},
                       !.who = Nobody] \in LocalRecord
    BY <2>1, <2>2, LocalUpdates
  <2>4. loc' = [loc EXCEPT ![t] = [loc[t] EXCEPT !.threads = loc[t].threads \ {loc[t].who},
                                                 !.who = Nobody]]
    BY <1>0 DEF Types, NotifyWake
  <2> QED
    BY <1>0, <2>3, <2>4 DEF Types
<1>2. /\ pc' \in [Tasks -> Labels]
      /\ token' \in [Tasks -> BOOLEAN]
      /\ PcWakes(t, "notify", loc[t].who)
  <2>1. "notify" \in Labels
    BY DEF Labels
  <2> QED
    BY <1>0, <2>1, WakeupTyped DEF NotifyWake
<1>3. Types'
  BY <1>0, <1>1, <1>2 DEF Types, NotifyWake
<1>4. StepNotify(t)
  BY <1>0, <1>2
  DEF NotifyWake, Types, LocalRecord, PcTo, PcOthers, LocOthers, KeepJob, KeepScan,
      KeepMoved, KeepExit, KeepVfork, KeepKill, StepNotify
<1> QED
  BY <1>3, <1>4

\* With nobody left to notify the call ends.
LEMMA NotifyDoneEffect ==
  ASSUME ControlInv, NEW t \in Tasks, NotifyDone(t)
  PROVE  Types' /\ StepReturn(t)
<1>0. Types /\ Ctl(t) /\ ProcOf[t] \in Procs
  BY DEF ControlInv
<1>1. loc' \in [Tasks -> LocalRecord] /\ pc' \in [Tasks -> Labels]
  BY <1>0, ReturnTyped DEF NotifyDone
<1>2. Types'
  BY <1>0, <1>1 DEF Types, NotifyDone
<1>3. StepReturn(t)
  BY <1>0, ReturnTyped DEF NotifyDone, StepReturn, ProgOthers
<1> QED
  BY <1>2, <1>3

\* DeferredFinish takes the pending mark off a process whose last thread has switched.
LEMMA DeferredFinishEffect ==
  ASSUME ControlInv, NEW t \in Tasks, DeferredFinish(t)
  PROVE  Types' /\ StepFinish(t)
<1>0. Types /\ Ctl(t) /\ ProcOf[t] \in Procs
  BY DEF ControlInv
<1>1. proc' \in [Procs -> ProcRecord]
  <2>1. proc[ProcOf[t]] \in ProcRecord
    BY <1>0 DEF Types
  <2>2. (proc[ProcOf[t]].pending /\ ~deferred[t].final) \in BOOLEAN
    BY <1>0, <2>1 DEF ProcRecord, Why, Life, Stage, SomeProc, SomeTask
  <2>3. /\ [proc[ProcOf[t]] EXCEPT !.pending = proc[ProcOf[t]].pending /\ ~deferred[t].final] \in ProcRecord
    BY <2>1, <2>2, ProcUpdates
  <2>4. proc' = [proc EXCEPT ![ProcOf[t]] =
          [proc[ProcOf[t]] EXCEPT !.pending = proc[ProcOf[t]].pending /\ ~deferred[t].final]]
    BY <1>0 DEF Types, DeferredFinish
  <2> QED
    BY <1>0, <2>3, <2>4 DEF Types
<1>2. deferred' \in [Tasks -> EntryRecord]
  <2>1. deferred[t] \in EntryRecord
    BY <1>0 DEF Types
  <2>2. /\ (IF deferred[t].final /\ deferred[t].parent # Nobody THEN "publish" ELSE "done") \in Stage
    BY <1>0, <2>1 DEF EntryRecord, Why, Life, Stage, SomeProc, SomeTask
  <2>3. /\ [deferred[t] EXCEPT !.st = IF deferred[t].final /\ deferred[t].parent # Nobody THEN "publish" ELSE "done"] \in EntryRecord
    BY <2>1, <2>2, EntryUpdates
  <2>4. deferred' = [deferred EXCEPT ![t] =
          [deferred[t] EXCEPT !.st = IF deferred[t].final /\ deferred[t].parent # Nobody THEN "publish" ELSE "done"]]
    BY <1>0 DEF Types, DeferredFinish
  <2> QED
    BY <1>0, <2>3, <2>4 DEF Types
<1>3. Types'
  BY <1>0, <1>1, <1>2 DEF Types, DeferredFinish
<1>4. StepFinish(t)
  <2>1. proc' = [proc EXCEPT ![ProcOf[t]] =
                   [proc[ProcOf[t]] EXCEPT !.pending = @ /\ ~deferred[t].final]]
    BY <1>0 DEF DeferredFinish, Types
  <2>2. SetPending(ProcOf[t], proc[ProcOf[t]].pending /\ ~deferred[t].final)
    <3> DEFINE b == proc[ProcOf[t]].pending /\ ~deferred[t].final
    <3>1. proc[ProcOf[t]] \in ProcRecord /\ b \in BOOLEAN
      BY <1>0 DEF Types
    <3>2. /\ proc'[ProcOf[t]] = [proc[ProcOf[t]] EXCEPT !.pending = b]
          /\ ProcOthers(ProcOf[t])
      BY <1>0, <2>1 DEF Types, ProcOthers
    <3> HIDE DEF b
    <3>3. SetPending(ProcOf[t], b)
      BY <3>1, <3>2
      DEF SetPending, ProcRecord, ProcOthers, KeepLife, KeepCount, KeepPending,
          KeepFamily, KeepSeq, KeepVparent, KeepSlots
    <3> QED
      BY <3>3 DEF b
  <2>3. SetStage(t, IF deferred[t].final /\ deferred[t].parent # Nobody
                    THEN "publish" ELSE "done")
    BY <1>0 DEF DeferredFinish, Types, SetStage, EntryOthers, EntryRecord
  <2> QED
    BY <2>2, <2>3 DEF DeferredFinish, StepFinish
<1> QED
  BY <1>3, <1>4

\* DeferredPublish counts the parent's event number up.
LEMMA DeferredPublishEffect ==
  ASSUME ControlInv, NEW t \in Tasks, DeferredPublish(t)
  PROVE  Types' /\ StepEvent(t)
<1>0. Types /\ Ctl(t) /\ ProcOf[t] \in Procs
  BY DEF ControlInv
<1>a. deferred[t].parent \in Procs
  BY <1>0 DEF DeferredPublish, Ctl
<1>1. proc' \in [Procs -> ProcRecord]
  <2>1. proc[deferred[t].parent] \in ProcRecord
    BY <1>0, <1>a DEF Types
  <2>2. (proc[deferred[t].parent].seq + 1) \in Nat
    BY <1>0, <1>a, <2>1 DEF ProcRecord, Why, Life, Stage, SomeProc, SomeTask
  <2>3. [proc[deferred[t].parent] EXCEPT !.seq = proc[deferred[t].parent].seq + 1] \in ProcRecord
    BY <2>1, <2>2, ProcUpdates
  <2>4. proc' = [proc EXCEPT ![deferred[t].parent] =
          [proc[deferred[t].parent] EXCEPT !.seq = proc[deferred[t].parent].seq + 1]]
    BY <1>0, <1>a DEF Types, DeferredPublish
  <2> QED
    BY <1>0, <1>a, <2>3, <2>4 DEF Types
<1>2. deferred' \in [Tasks -> EntryRecord]
  <2>1. deferred[t] \in EntryRecord
    BY <1>0 DEF Types
  <2>2. ("collect") \in Stage
    BY <1>0, <2>1 DEF EntryRecord, Why, Life, Stage, SomeProc, SomeTask
  <2>3. [deferred[t] EXCEPT !.st = "collect"] \in EntryRecord
    BY <2>1, <2>2, EntryUpdates
  <2>4. deferred' = [deferred EXCEPT ![t] = [deferred[t] EXCEPT !.st = "collect"]]
    BY <1>0 DEF Types, DeferredPublish
  <2> QED
    BY <1>0, <2>3, <2>4 DEF Types
<1>3. Types'
  BY <1>0, <1>1, <1>2 DEF Types, DeferredPublish
<1>4. StepEvent(t)
  BY <1>0, <1>a
  DEF DeferredPublish, Types, ProcRecord, ProcOthers, KeepLife, KeepCount, KeepPending,
      KeepFamily, KeepSeq, KeepVparent, KeepSlots, StepEvent, NextSeq, SetStage,
      EntryOthers, EntryRecord
<1> QED
  BY <1>3, <1>4

\* DeferredCollect lists the parent's threads.
LEMMA DeferredCollectEffect ==
  ASSUME ControlInv, NEW t \in Tasks, DeferredCollect(t)
  PROVE  Types' /\ StepCollect(t)
<1>0. Types /\ Ctl(t) /\ ProcOf[t] \in Procs
  BY DEF ControlInv
<1>a. deferred[t].parent \in Procs
  BY <1>0 DEF DeferredCollect, Ctl
<1>b. proc[deferred[t].parent].tasks \in SUBSET Tasks /\ deferred[t] \in EntryRecord
  BY <1>0, <1>a DEF Types, ProcRecord
<1>1. deferred' \in [Tasks -> EntryRecord]
  <2>1. [deferred[t] EXCEPT !.st = "wake",
                            !.waiters = proc[deferred[t].parent].tasks] \in EntryRecord
    BY <1>b DEF EntryRecord, Stage
  <2>2. deferred' = [deferred EXCEPT ![t] = [deferred[t] EXCEPT !.st = "wake",
                                             !.waiters = proc[deferred[t].parent].tasks]]
    BY <1>0 DEF Types, DeferredCollect, WaitersOf
  <2> QED
    BY <1>0, <2>1, <2>2 DEF Types
<1>2. Types'
  BY <1>0, <1>1 DEF Types, DeferredCollect
<1>3. StepCollect(t)
  BY <1>0, <1>a DEF DeferredCollect, Types, WaitersOf, StepCollect, EntryOthers, EntryRecord
<1> QED
  BY <1>2, <1>3

\* DeferredWake wakes one of them.
LEMMA DeferredWakeEffect ==
  ASSUME ControlInv, NEW t \in Tasks, DeferredWake(t)
  PROVE  Types' /\ (\E u \in Tasks : StepWakeOne(t, u))
<1>0. Types /\ Ctl(t) /\ ProcOf[t] \in Procs
  BY DEF ControlInv
<1>a. PICK u \in deferred[t].waiters :
        Wakeup(u, t, pc[t]) /\ deferred' = [deferred EXCEPT ![t].waiters = @ \ {u}]
  BY DEF DeferredWake
<1>b. u \in Tasks /\ pc[t] \in Labels
  BY <1>0, <1>a DEF Types, EntryRecord
<1>1. deferred' \in [Tasks -> EntryRecord]
  <2>1. deferred[t] \in EntryRecord
    BY <1>0, <1>a, <1>b DEF Types
  <2>2. (deferred[t].waiters \ {u}) \in SUBSET Tasks
    BY <1>0, <1>a, <1>b, <2>1 DEF EntryRecord, Why, Life, Stage, SomeProc, SomeTask
  <2>3. [deferred[t] EXCEPT !.waiters = deferred[t].waiters \ {u}] \in EntryRecord
    BY <2>1, <2>2, EntryUpdates
  <2>4. deferred' = [deferred EXCEPT ![t] =
          [deferred[t] EXCEPT !.waiters = deferred[t].waiters \ {u}]]
    BY <1>0, <1>a, <1>b DEF Types
  <2> QED
    BY <1>0, <1>a, <1>b, <2>3, <2>4 DEF Types
<1>2. pc' \in [Tasks -> Labels] /\ token' \in [Tasks -> BOOLEAN] /\ PcWakes(t, pc[t], u)
  BY <1>0, <1>a, <1>b, WakeupTyped
<1>3. Types'
  BY <1>0, <1>1, <1>2 DEF Types, DeferredWake
<1>4. \E x \in Tasks : StepWakeOne(t, x)
  BY <1>0, <1>a, <1>b, <1>2 DEF DeferredWake, Types, StepWakeOne, EntryOthers, EntryRecord
<1> QED
  BY <1>3, <1>4

\* With nobody left to wake the entry is done.
LEMMA DeferredDoneEffect ==
  ASSUME ControlInv, NEW t \in Tasks, DeferredDone(t)
  PROVE  Types' /\ StepWakesDone(t)
<1>0. Types /\ Ctl(t) /\ ProcOf[t] \in Procs
  BY DEF ControlInv
<1>1. deferred' \in [Tasks -> EntryRecord]
  <2>1. deferred[t] \in EntryRecord
    BY <1>0 DEF Types
  <2>2. ("done") \in Stage
    BY <1>0, <2>1 DEF EntryRecord, Why, Life, Stage, SomeProc, SomeTask
  <2>3. [deferred[t] EXCEPT !.st = "done"] \in EntryRecord
    BY <2>1, <2>2, EntryUpdates
  <2>4. deferred' = [deferred EXCEPT ![t] = [deferred[t] EXCEPT !.st = "done"]]
    BY <1>0 DEF Types, DeferredDone
  <2> QED
    BY <1>0, <2>3, <2>4 DEF Types
<1>2. Types'
  BY <1>0, <1>1 DEF Types, DeferredDone
<1>3. StepWakesDone(t)
  BY <1>0 DEF DeferredDone, Types, StepWakesDone, SetStage, EntryOthers, EntryRecord
<1> QED
  BY <1>2, <1>3

-----------------------------------------------------------------------------
(* The next-state relation *)

Step(t) ==
  \/ StepReturn(t)
  \/ \E c \in Procs, v \in BOOLEAN : StepFork(t, c, v)
  \/ StepPush(t)
  \/ StepPublish(t)
  \/ StepStart(t)
  \/ StepVforkBlock(t)
  \/ StepExec(t)
  \/ StepVforkClear(t)
  \/ StepVforkWake(t)
  \/ StepTake(t)
  \/ \E c \in Procs : StepEach(t, c)
  \/ StepGive(t)
  \/ StepInitPublish(t)
  \/ \E u \in SomeTask : StepInitWake(t, u)
  \/ StepWaitSeq(t)
  \/ StepWaitList(t)
  \/ \E c \in Procs : StepFound(t, c)
  \/ \E c \in Procs : StepPass(t, c)
  \/ StepAgain(t)
  \/ StepWaitBlock(t)
  \/ StepWin(t)
  \/ StepLose(t)
  \/ StepFree(t)
  \/ StepCount(t)
  \/ StepDetach(t)
  \/ StepParent(t)
  \/ StepDefer(t)
  \/ StepSwitch(t)
  \/ StepGroup(t)
  \/ \E p \in Procs : StepKill(t, p)
  \/ \E u \in Tasks : StepFlag(t, u)
  \/ \E u \in Tasks : StepFlagOnly(t, u)
  \/ StepNotify(t)
  \/ StepFinish(t)
  \/ StepEvent(t)
  \/ StepCollect(t)
  \/ \E u \in Tasks : StepWakeOne(t, u)
  \/ StepWakesDone(t)

\* Every step of the specification is one of the elementary steps of one thread.
LEMMA NextIsStep ==
  ASSUME ControlInv, [Next]_vars
  PROVE  Types' /\ (UNCHANGED vars \/ \E t \in Tasks : Step(t))
<1>1. CASE UNCHANGED vars
  BY <1>1 DEF vars, ControlInv, Types
<1>2. ASSUME NEW t \in Tasks,
             \/ Fork(t)
             \/ ForkPush(t)
             \/ ForkPublish(t)
             \/ ForkStart(t)
             \/ VforkBlock(t)
             \/ Exec(t)
             \/ VforkClear(t)
             \/ VforkWake(t)
             \/ ReparentTake(t)
             \/ ReparentEach(t)
             \/ ReparentGive(t)
             \/ InitPublish(t)
             \/ InitWake(t)
             \/ WaitSeq(t)
             \/ WaitList(t)
             \/ WaitScan(t)
             \/ WaitReport(t)
             \/ WaitDecide(t)
             \/ WaitBlock(t)
             \/ WaitRemove(t)
             \/ WaitFree(t)
             \/ ExitCount(t)
             \/ ExitDetach(t)
             \/ ExitParent(t)
             \/ ExitDefer(t)
             \/ ExitSwitch(t)
             \/ ExitGroup(t)
             \/ Kill(t)
             \/ KillNobody(t)
             \/ NotifyFlag(t)
             \/ NotifyWake(t)
             \/ NotifyDone(t)
             \/ DeferredFinish(t)
             \/ DeferredPublish(t)
             \/ DeferredCollect(t)
             \/ DeferredWake(t)
             \/ DeferredDone(t)
      PROVE  Types' /\ Step(t)
  <2>1. CASE Fork(t)
    <3>1. Arg(t).child \in Procs /\ Arg(t).vfork \in BOOLEAN
      BY <2>1, CallsTyped DEF Fork, ControlInv
    <3> QED
      BY <2>1, <3>1, ForkEffect DEF Step
  <2>2. CASE ForkPush(t)
    BY <2>2, ForkPushEffect DEF Step
  <2>3. CASE ForkPublish(t)
    BY <2>3, ForkPublishEffect DEF Step
  <2>4. CASE ForkStart(t)
    BY <2>4, ForkStartEffect DEF Step
  <2>5. CASE VforkBlock(t)
    BY <2>5, VforkBlockEffect DEF Step
  <2>6. CASE Exec(t)
    BY <2>6, ExecEffect DEF Step
  <2>7. CASE VforkClear(t)
    BY <2>7, VforkClearEffect DEF Step
  <2>8. CASE VforkWake(t)
    BY <2>8, VforkWakeEffect DEF Step
  <2>9. CASE ReparentTake(t)
    BY <2>9, ReparentTakeEffect DEF Step
  <2>10. CASE ReparentEach(t)
    BY <2>10, ReparentEachEffect DEF Step
  <2>11. CASE ReparentGive(t)
    BY <2>11, ReparentGiveEffect DEF Step
  <2>12. CASE InitPublish(t)
    BY <2>12, InitPublishEffect DEF Step
  <2>13. CASE InitWake(t)
    BY <2>13, InitWakeEffect DEF Step
  <2>14. CASE WaitSeq(t)
    BY <2>14, WaitSeqEffect DEF Step
  <2>15. CASE WaitList(t)
    BY <2>15, WaitListEffect DEF Step
  <2>16. CASE WaitScan(t)
    BY <2>16, WaitScanEffect DEF Step
  <2>17. CASE WaitReport(t)
    BY <2>17, WaitReportEffect DEF Step
  <2>18. CASE WaitDecide(t)
    BY <2>18, WaitDecideEffect DEF Step
  <2>19. CASE WaitBlock(t)
    BY <2>19, WaitBlockEffect DEF Step
  <2>20. CASE WaitRemove(t)
    BY <2>20, WaitRemoveEffect DEF Step
  <2>21. CASE WaitFree(t)
    BY <2>21, WaitFreeEffect DEF Step
  <2>22. CASE ExitCount(t)
    BY <2>22, ExitCountEffect DEF Step
  <2>23. CASE ExitDetach(t)
    BY <2>23, ExitDetachEffect DEF Step
  <2>24. CASE ExitParent(t)
    BY <2>24, ExitParentEffect DEF Step
  <2>25. CASE ExitDefer(t)
    BY <2>25, ExitDeferEffect DEF Step
  <2>26. CASE ExitSwitch(t)
    BY <2>26, ExitSwitchEffect DEF Step
  <2>27. CASE ExitGroup(t)
    BY <2>27, ExitGroupEffect DEF Step
  <2>28. CASE Kill(t)
    <3>1. Arg(t).target \in Procs
      BY <2>28, CallsTyped DEF Kill, ControlInv
    <3> QED
      BY <2>28, <3>1, KillEffect DEF Step
  <2>29. CASE KillNobody(t)
    BY <2>29, KillNobodyEffect DEF Step
  <2>30. CASE NotifyFlag(t)
    BY <2>30, NotifyFlagEffect DEF Step
  <2>31. CASE NotifyWake(t)
    BY <2>31, NotifyWakeEffect DEF Step
  <2>32. CASE NotifyDone(t)
    BY <2>32, NotifyDoneEffect DEF Step
  <2>33. CASE DeferredFinish(t)
    BY <2>33, DeferredFinishEffect DEF Step
  <2>34. CASE DeferredPublish(t)
    BY <2>34, DeferredPublishEffect DEF Step
  <2>35. CASE DeferredCollect(t)
    BY <2>35, DeferredCollectEffect DEF Step
  <2>36. CASE DeferredWake(t)
    BY <2>36, DeferredWakeEffect DEF Step
  <2>37. CASE DeferredDone(t)
    BY <2>37, DeferredDoneEffect DEF Step
  <2> QED
    BY <1>2, <2>1, <2>2, <2>3, <2>4, <2>5, <2>6, <2>7, <2>8, <2>9, <2>10, <2>11, <2>12,
       <2>13, <2>14, <2>15, <2>16, <2>17, <2>18, <2>19, <2>20, <2>21, <2>22, <2>23, <2>24,
       <2>25, <2>26, <2>27, <2>28, <2>29, <2>30, <2>31, <2>32, <2>33, <2>34, <2>35, <2>36,
       <2>37
<1> QED
  BY <1>1, <1>2 DEF Next
=============================================================================
