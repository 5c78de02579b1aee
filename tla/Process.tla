------------------------------ MODULE Process -------------------------------
(***************************************************************************)
(* The life of processes: fork and vfork (ProcessControlBlock::_clone),    *)
(* exec's completion of a vfork, wait4 and the reaping of a zombie, exit   *)
(* of a thread, exit_group, SIGKILL, the adoption of orphans by init, and  *)
(* the deferred release of exited tasks by the scheduler loop, which is    *)
(* what tells a parent that its child may be reaped.                       *)
(*                                                                         *)
(* One step is one critical section of a PCB or a TCB, one atomic of the   *)
(* PCB, or one wakeup_task.  A task that is runnable or running is just    *)
(* not asleep (module Sched has the difference).                           *)
(*                                                                         *)
(* Memory, files, exit codes, process groups, stop and continue reports,   *)
(* SIGCHLD, CLONE_PARENT, CLONE_THREAD and exec in a process of several    *)
(* threads are left out, and so are the retries of a contended try_lock.   *)
(***************************************************************************)
EXTENDS Naturals, FiniteSets, SequencesExt

CONSTANTS
  Procs, InitProc,   \* processes, and INITPROC (pid 1)
  Tasks, ProcOf,     \* threads, and the process each is in
  Leader,            \* the thread with tid 0 of each process
  Nobody, AnyChild,  \* no process or task; pid -1 of wait4
  Scenarios          \* who is there at first, and what each thread will do

Calls ==
  [op : {"fork"}, child : Procs, vfork : BOOLEAN]
  \cup [op : {"wait"}, want : Procs \cup {AnyChild}, nohang : BOOLEAN, nowait : BOOLEAN]
  \cup [op : {"kill"}, target : Procs]
  \cup [op : {"exec", "exit", "exitgroup"}]

ASSUME ProcessAssumption ==
  /\ InitProc \in Procs /\ Nobody \notin Procs \cup Tasks /\ AnyChild \notin Procs
  /\ ProcOf \in [Tasks -> Procs] /\ IsFiniteSet(Tasks)
  /\ \A p \in Procs : Leader[p] \in Tasks /\ ProcOf[Leader[p]] = p
  /\ \A s \in Scenarios : /\ Leader[InitProc] \in s.start /\ s.start \subseteq Tasks
                          /\ s.prog \in [Tasks -> Seq(Calls)]

VARIABLES
  proc,        \* the process control blocks
  pc,          \* where each task is
  prog,        \* the calls it has yet to make
  loc,         \* its local variables in the kernel
  token,       \* TCB pending_wakeup
  flag,        \* TCB zombie_flag
  vforkChild,  \* TCB vfork_child_pid
  deferred,    \* its entry of DEFERRED_EXITED_TASKS, and the work on it
  adopted      \* history: the processes init has adopted

vars == <<proc, pc, prog, loc, token, flag, vforkChild, deferred, adopted>>

ThreadsOf(p) == {t \in Tasks : ProcOf[t] = p}

Asleep(t) == pc[t] \in {"vforkAsleep", "waitAsleep"}

\* exit_current_and_run_next has marked the TCB Zombie.  A thread that is gone
\* has left its stack; one that is enqueued again after that is not followed
\* any further: it runs on a stack that may have been released.
Exiting == {"exitCount", "exitDetach", "exitParent", "exitDefer", "exitSwitch",
            "gone", "rerun"}
IsExiting(t) == pc[t] \in Exiting \/ loc[t].why = "exit"

-----------------------------------------------------------------------------
(* Process control blocks and local variables *)

NewProc(parent, threads, vforkParent, life) ==
  [life |-> life, zombie |-> FALSE, alive |-> Cardinality(threads),
   pending |-> FALSE, parent |-> parent, children |-> {}, seq |-> 0,
   vforkParent |-> vforkParent, tasks |-> threads]

Absent == NewProc(Nobody, {}, Nobody, "unborn")

\* One set of locals serves every call; what a call does not use keeps its
\* default.  "of" is the process that the call works on, "why" what for.
Why == {"call", "fork", "vfork", "wait", "reap", "kill", "group", "exit"}

NoLocals ==
  [why |-> "call", of |-> Nobody, seq |-> 0, todo |-> {}, found |-> FALSE,
   switching |-> FALSE, moved |-> {}, wakeInit |-> FALSE, threads |-> {},
   last |-> FALSE, parent |-> Nobody, vforkParent |-> Nobody, who |-> Nobody]

NoEntry == [st |-> "none", final |-> FALSE, parent |-> Nobody, waiters |-> {}]

Init ==
  \E s \in Scenarios :
    /\ LET live == {ProcOf[t] : t \in s.start}
       IN  proc = [p \in Procs |->
                     IF p \notin live THEN Absent
                     ELSE [NewProc(IF p = InitProc THEN Nobody ELSE InitProc,
                                   ThreadsOf(p) \cap s.start, Nobody, "live")
                           EXCEPT !.children = IF p = InitProc THEN live \ {p} ELSE {}]]
    /\ pc = [t \in Tasks |-> IF t \in s.start THEN "user" ELSE "unborn"]
    /\ prog = s.prog
    /\ loc = [t \in Tasks |-> NoLocals]
    /\ token = [t \in Tasks |-> FALSE]
    /\ flag = [t \in Tasks |-> FALSE]
    /\ vforkChild = [t \in Tasks |-> Nobody]
    /\ deferred = [t \in Tasks |-> NoEntry]
    /\ adopted = {}

Goto(t, label) == pc' = [pc EXCEPT ![t] = label]

\* The next call of user code; a program that is over calls exit, except
\* init's, which idles.
At(t, op) ==
  /\ pc[t] = "user"
  /\ \/ prog[t] # <<>> /\ Head(prog[t]).op = op
     \/ prog[t] = <<>> /\ op = "exit" /\ ProcOf[t] # InitProc

Taken(t) == prog' = [prog EXCEPT ![t] = IF @ = <<>> THEN @ ELSE Tail(@)]

Arg(t) == Head(prog[t])

\* The end of a system call: prepare_user_return sends a thread of a zombie
\* process to exit instead.
AfterReturn(t) == IF proc[ProcOf[t]].zombie THEN "exitCount" ELSE "user"

Return(t) ==
  /\ Goto(t, AfterReturn(t))
  /\ loc' = [loc EXCEPT ![t] = NoLocals]

\* wakeup_task.
Wakeup(u, t, label) ==
  /\ pc' = [x \in Tasks |->
              IF x = t THEN label
              ELSE IF x # u THEN pc[x]
              ELSE CASE pc[u] = "vforkAsleep" -> "vforkBlock"
                     [] pc[u] = "waitAsleep"  -> "waitSeq"
                     [] pc[u] = "nascent"     -> "user"
                     [] OTHER                 -> pc[u]]
  /\ token' = [token EXCEPT ![u] =
                 @ \/ ~(Asleep(u) \/ IsExiting(u) \/ pc[u] = "nascent")]

-----------------------------------------------------------------------------
(* fork and vfork *)

\* The PCB and the TCB of the child, which nobody can find yet.
Fork(t) ==
  /\ At(t, "fork")
  /\ LET c == Arg(t).child
         v == Arg(t).vfork
     IN  /\ proc[c].life = "unborn"
         /\ proc' = [proc EXCEPT ![c] =
                       NewProc(ProcOf[t], {Leader[c]}, IF v THEN t ELSE Nobody, "made")]
         /\ pc' = [pc EXCEPT ![t] = "forkPush", ![Leader[c]] = "nascent"]
         /\ loc' = [loc EXCEPT ![t].of = c, ![t].why = IF v THEN "vfork" ELSE "fork"]
  /\ Taken(t)
  /\ UNCHANGED <<token, flag, vforkChild, deferred, adopted>>

\* The child goes into its parent's list and into the pid tables.
ForkPush(t) ==
  /\ pc[t] = "forkPush"
  /\ proc' = [proc EXCEPT ![ProcOf[t]].children = @ \cup {loc[t].of},
                          ![loc[t].of].life = "live"]
  /\ Goto(t, IF loc[t].why = "vfork" THEN "forkPublish" ELSE "forkStart")
  /\ UNCHANGED <<prog, loc, token, flag, vforkChild, deferred, adopted>>

ForkPublish(t) ==
  /\ pc[t] = "forkPublish"
  /\ vforkChild' = [vforkChild EXCEPT ![t] = loc[t].of]
  /\ Goto(t, "forkStart")
  /\ UNCHANGED <<proc, prog, loc, token, flag, deferred, adopted>>

\* Where the enqueue finds the child after Ready was stored over its status: one
\* that was killed meanwhile is refused while it is on its CPU, and runs again
\* when it has left it, for the store hides that it is a zombie.  (It is not
\* asleep: its zombie_flag was set before it first ran.)
Started(u) ==
  CASE pc[u] = "nascent" -> "user"
    [] pc[u] = "gone"    -> "rerun"
    [] OTHER             -> pc[u]

\* _clone stores Ready and calls enqueue_new_clone_task, and goes on to
\* wait_current_vfork for vfork.  (Module Sched has the two in two steps.)
ForkStart(t) ==
  /\ pc[t] = "forkStart"
  /\ LET u == Leader[loc[t].of]
     IN  pc' = [pc EXCEPT ![t] = IF loc[t].why = "vfork" THEN "vforkBlock"
                                 ELSE AfterReturn(t),
                          ![u] = Started(u)]
  /\ loc' = [loc EXCEPT ![t] = IF @.why = "vfork" THEN @ ELSE NoLocals]
  /\ UNCHANGED <<proc, prog, token, flag, vforkChild, deferred, adopted>>

\* Bug: the block does not look at the vfork.
CancelledByEventOnly(t) == pc[t] = "waitBlock" /\ proc[ProcOf[t]].seq # loc[t].seq

\* block_current_and_run_next_impl: the condition has changed or the process
\* was told to die; a wakeup is already there; or the task sleeps.
Cancelled(t) ==
  IF pc[t] = "vforkBlock" THEN vforkChild[t] # loc[t].of
                          ELSE proc[ProcOf[t]].seq # loc[t].seq

MustNotBlock(t) == Cancelled(t) \/ (flag[t] /\ proc[ProcOf[t]].zombie)

VforkBlock(t) ==
  /\ pc[t] = "vforkBlock"
  /\ IF MustNotBlock(t) THEN Return(t) /\ token' = token
     ELSE /\ token' = [token EXCEPT ![t] = FALSE]
          /\ Goto(t, IF token[t] THEN "vforkBlock" ELSE "vforkAsleep")
          /\ loc' = loc
  /\ UNCHANGED <<proc, prog, flag, vforkChild, deferred, adopted>>

-----------------------------------------------------------------------------
(* exec, and the completion of a vfork *)

Exec(t) ==
  /\ At(t, "exec")
  /\ LET p == ProcOf[t]
         v == proc[p].vforkParent
     IN  /\ proc' = [proc EXCEPT ![p].vforkParent = Nobody]
         /\ loc' = [loc EXCEPT ![t].vforkParent = v]
         /\ Goto(t, IF v = Nobody THEN AfterReturn(t) ELSE "vforkClear")
  /\ Taken(t)
  /\ UNCHANGED <<token, flag, vforkChild, deferred, adopted>>

AfterVfork(t) == IF loc[t].why = "exit" THEN "exitDefer" ELSE AfterReturn(t)

LeaveVfork(t) == loc' = [loc EXCEPT ![t] = IF @.why = "exit" THEN @ ELSE NoLocals]

\* The parent's TCB: it is woken only if it waits for this child and is seen
\* asleep.
VforkClear(t) ==
  /\ pc[t] = "vforkClear"
  /\ LET v == loc[t].vforkParent
         matched == vforkChild[v] = ProcOf[t]
     IN  /\ vforkChild' = [vforkChild EXCEPT ![v] = IF matched THEN Nobody ELSE @]
         /\ IF matched /\ Asleep(v) THEN Goto(t, "vforkWake") /\ loc' = loc
            ELSE Goto(t, AfterVfork(t)) /\ LeaveVfork(t)
  /\ UNCHANGED <<proc, prog, token, flag, deferred, adopted>>

VforkWake(t) ==
  /\ pc[t] = "vforkWake"
  /\ Wakeup(loc[t].vforkParent, t, AfterVfork(t))
  /\ LeaveVfork(t)
  /\ UNCHANGED <<proc, prog, flag, vforkChild, deferred, adopted>>

-----------------------------------------------------------------------------
(* Adoption: reparent_children_to(INITPROC), called by the last thread of a  *)
(* process to exit, by SIGKILL, and by the reaping of a process.             *)

ReparentTake(t) ==
  /\ pc[t] = "rpTake"
  /\ proc' = [proc EXCEPT ![loc[t].of].children = {}]
  /\ loc' = [loc EXCEPT ![t].todo = proc[loc[t].of].children,
                        ![t].moved = {}, ![t].wakeInit = FALSE]
  /\ Goto(t, "rpEach")
  /\ UNCHANGED <<prog, token, flag, vforkChild, deferred, adopted>>

\* One child's PCB: its parent is now init.  (A child in the list is always
\* the process' own, so the code's check of that is left out.)
ReparentEach(t) ==
  /\ pc[t] = "rpEach"
  /\ \E c \in loc[t].todo :
       /\ proc' = [proc EXCEPT ![c].parent = InitProc]
       /\ loc' = [loc EXCEPT ![t].todo = @ \ {c}, ![t].moved = @ \cup {c},
                             ![t].wakeInit = @ \/ (proc[c].zombie /\ proc[c].alive = 0)]
       /\ adopted' = adopted \cup {c}
  /\ UNCHANGED <<pc, prog, token, flag, vforkChild, deferred>>

AfterAdoption(t) == IF loc[t].why = "exit" THEN "exitDetach" ELSE "notify"

AfterReparent(t) ==
  CASE loc[t].why = "reap" -> "waitFree"   \* reap_zombie_child drops the result
    [] loc[t].why # "reap" /\ loc[t].wakeInit -> "initPublish"
    [] OTHER -> AfterAdoption(t)

ReparentGive(t) ==
  /\ pc[t] = "rpEach" /\ loc[t].todo = {}
  /\ proc' = [proc EXCEPT ![InitProc].children = @ \cup loc[t].moved]
  /\ Goto(t, AfterReparent(t))
  /\ UNCHANGED <<prog, loc, token, flag, vforkChild, deferred, adopted>>

InitPublish(t) ==
  /\ pc[t] = "initPublish"
  /\ proc' = [proc EXCEPT ![InitProc].seq = @ + 1]
  /\ Goto(t, "initWake")
  /\ UNCHANGED <<prog, loc, token, flag, vforkChild, deferred, adopted>>

\* wake_blocked_waiter and wakeup_first_blocked_task.
InitWake(t) ==
  /\ pc[t] = "initWake"
  /\ LET sleepers == {u \in proc[InitProc].tasks : Asleep(u)}
     IN  IF sleepers = {} THEN Goto(t, AfterAdoption(t)) /\ token' = token
         ELSE \E u \in sleepers : Wakeup(u, t, AfterAdoption(t))
  /\ UNCHANGED <<proc, prog, loc, flag, vforkChild, deferred, adopted>>
-----------------------------------------------------------------------------
(* wait4, and waitid for a child that has exited *)

\* A child may be reaped: no thread is left, and the last one is off its
\* kernel stack.
Dead(c) == proc[c].zombie /\ proc[c].alive = 0

\* Bug: only the slots are looked at, which the last thread has left.
SlotsQuiescent(c) == \A u \in proc[c].tasks : pc[u] = "gone"

TasksQuiescent(c) == ~proc[c].pending /\ \A u \in proc[c].tasks : pc[u] = "gone"

\* child_event_sequence, read before the children are looked at ...
WaitSeq(t) ==
  /\ At(t, "wait") \/ pc[t] = "waitSeq"
  /\ loc' = [loc EXCEPT ![t] = [NoLocals EXCEPT !.why = "wait", !.seq = proc[ProcOf[t]].seq]]
  /\ Goto(t, "waitList")
  /\ UNCHANGED <<proc, prog, token, flag, vforkChild, deferred, adopted>>

WaitList(t) ==
  /\ pc[t] = "waitList"
  /\ loc' = [loc EXCEPT ![t].todo = proc[ProcOf[t]].children]
  /\ Goto(t, "waitScan")
  /\ UNCHANGED <<proc, prog, token, flag, vforkChild, deferred, adopted>>

Wanted(t, c) == Arg(t).want \in {c, AnyChild}

Reapable(t, c) == Wanted(t, c) /\ Dead(c) /\ TasksQuiescent(c)

\* waitid with WNOWAIT reports a child that it leaves as it is.
Reported(t, c) == Arg(t).nowait /\ Wanted(t, c) /\ Dead(c)

\* ... one child after the other, up to one that can be reaped.
WaitScan(t) ==
  /\ pc[t] = "waitScan"
  /\ \E c \in loc[t].todo :
       /\ ~Reported(t, c)
       /\ IF Reapable(t, c)
          THEN /\ loc' = [loc EXCEPT ![t].of = c]
               /\ Goto(t, "waitRemove")
          ELSE /\ loc' = [loc EXCEPT ![t].todo = @ \ {c},
                                     ![t].found = @ \/ Wanted(t, c),
                                     ![t].switching = @ \/ (Wanted(t, c) /\ Dead(c))]
               /\ pc' = pc
  /\ UNCHANGED <<proc, prog, token, flag, vforkChild, deferred, adopted>>

WaitReport(t) ==
  /\ pc[t] = "waitScan"
  /\ \E c \in loc[t].todo : Reported(t, c)
  /\ Return(t) /\ Taken(t)
  /\ UNCHANGED <<proc, token, flag, vforkChild, deferred, adopted>>

WaitReturns(t) ==
  \/ ~loc[t].found                                    \* ECHILD
  \/ Arg(t).nohang                                    \* 0
  \/ ~loc[t].switching /\ proc[ProcOf[t]].zombie      \* EINTR

WaitDecide(t) ==
  /\ pc[t] = "waitScan" /\ loc[t].todo = {}
  /\ IF WaitReturns(t) THEN Return(t) /\ Taken(t)
     ELSE /\ Goto(t, IF loc[t].switching THEN "waitSeq" ELSE "waitBlock")
          /\ UNCHANGED <<loc, prog>>
  /\ UNCHANGED <<proc, token, flag, vforkChild, deferred, adopted>>

\* wait_current_child_event: the loop starts again whatever the outcome.
WaitBlock(t) ==
  /\ pc[t] = "waitBlock"
  /\ token' = [token EXCEPT ![t] = @ /\ MustNotBlock(t)]
  /\ Goto(t, IF MustNotBlock(t) \/ token[t] THEN "waitSeq" ELSE "waitAsleep")
  /\ UNCHANGED <<proc, prog, loc, flag, vforkChild, deferred, adopted>>

\* remove_wait_child: another thread may have been faster.
WaitRemove(t) ==
  /\ pc[t] = "waitRemove"
  /\ LET c == loc[t].of
     IN  IF c \in proc[ProcOf[t]].children
         THEN /\ proc' = [proc EXCEPT ![ProcOf[t]].children = @ \ {c}]
              /\ loc' = [loc EXCEPT ![t].why = "reap"]
              /\ Goto(t, "rpTake")
         ELSE Goto(t, "waitSeq") /\ UNCHANGED <<proc, loc>>
  /\ UNCHANGED <<prog, token, flag, vforkChild, deferred, adopted>>

\* The rest of reap_zombie_child, after the children have gone to init.
WaitFree(t) ==
  /\ pc[t] = "waitFree"
  /\ proc' = [proc EXCEPT ![loc[t].of] =
                [@ EXCEPT !.life = "reaped", !.tasks = {}, !.children = {},
                          !.vforkParent = Nobody]]
  /\ Return(t) /\ Taken(t)
  /\ UNCHANGED <<token, flag, vforkChild, deferred, adopted>>

-----------------------------------------------------------------------------
(* exit, exit_group and SIGKILL *)

\* exit, or the end of a time slice of a thread whose process is a zombie.
CallsExit(t) ==
  \/ pc[t] = "exitCount"
  \/ At(t, "exit")
  \/ pc[t] = "user" /\ proc[ProcOf[t]].zombie

\* Bug: the thread that leaves one other behind takes itself for the last.
CountedAfter(p) ==
  LET last == proc[p].alive \in {1, 2}
  IN  [proc EXCEPT ![p].alive = @ - 1,
                   ![p].pending = @ \/ last,
                   ![p].zombie = @ \/ last]

\* The count and the decision who is last are one critical section.
Counted(p) ==
  LET last == proc[p].alive = 1
  IN  [proc EXCEPT ![p].alive = @ - 1,
                   ![p].pending = @ \/ last,
                   ![p].zombie = @ \/ last]

ExitCount(t) ==
  /\ CallsExit(t)
  /\ LET p == ProcOf[t]
         last == proc[p].alive = 1
     IN  /\ proc' = Counted(p)
         /\ loc' = [loc EXCEPT ![t] = [NoLocals EXCEPT !.why = "exit", !.of = p, !.last = last]]
         /\ Goto(t, IF last /\ ~proc[p].zombie /\ p # InitProc
                    THEN "rpTake" ELSE "exitDetach")
  /\ UNCHANGED <<prog, token, flag, vforkChild, deferred, adopted>>

\* A thread of a zombie process, or one whose exit is reported through its
\* clear_child_tid word, gives up its slot; the leader of a live process
\* keeps it, and so would a thread of sys_thread_create (auto_reap_on_exit
\* false), which no process of this model has.
DetachNow(t) == proc[ProcOf[t]].zombie \/ t # Leader[ProcOf[t]]

ExitDetach(t) ==
  /\ pc[t] = "exitDetach"
  /\ LET p == ProcOf[t]
     IN  /\ proc' = [proc EXCEPT ![p].tasks = IF DetachNow(t) THEN @ \ {t} ELSE @]
         /\ Goto(t, CASE loc[t].last /\ Dead(p) -> "exitParent"
                      [] ~(loc[t].last /\ Dead(p)) /\ DetachNow(t) -> "exitDefer"
                      [] OTHER -> "exitSwitch")
  /\ UNCHANGED <<prog, loc, token, flag, vforkChild, deferred, adopted>>

ExitParent(t) ==
  /\ pc[t] = "exitParent"
  /\ LET p == ProcOf[t]
     IN  /\ loc' = [loc EXCEPT ![t].parent = proc[p].parent,
                               ![t].vforkParent = proc[p].vforkParent]
         /\ proc' = [proc EXCEPT ![p].vforkParent = Nobody]
         /\ Goto(t, IF proc[p].vforkParent = Nobody THEN "exitDefer" ELSE "vforkClear")
  /\ UNCHANGED <<prog, token, flag, vforkChild, deferred, adopted>>

\* defer_drop_exited_task, still on the stack that is to be released.
ExitDefer(t) ==
  /\ pc[t] = "exitDefer"
  /\ deferred' = [deferred EXCEPT ![t] =
                    [NoEntry EXCEPT !.st = "queued", !.final = loc[t].last,
                                    !.parent = loc[t].parent]]
  /\ Goto(t, "exitSwitch")
  /\ UNCHANGED <<proc, prog, loc, token, flag, vforkChild, adopted>>

ExitSwitch(t) ==
  /\ pc[t] = "exitSwitch"
  /\ Goto(t, "gone")
  /\ UNCHANGED <<proc, prog, loc, token, flag, vforkChild, deferred, adopted>>

ExitGroup(t) ==
  /\ At(t, "exitgroup")
  /\ LET p == ProcOf[t]
     IN  /\ proc' = [proc EXCEPT ![p].zombie = TRUE]
         /\ loc' = [loc EXCEPT ![t].why = "group", ![t].threads = proc[p].tasks \ {t}]
  /\ Taken(t)
  /\ Goto(t, "notify")
  /\ UNCHANGED <<token, flag, vforkChild, deferred, adopted>>

\* finish_signaled_process for a pid that is in the table.
Kill(t) ==
  /\ At(t, "kill")
  /\ Taken(t)
  /\ LET p == Arg(t).target
     IN  /\ proc[p].life = "live"
         /\ IF proc[p].zombie THEN Return(t) /\ proc' = proc
            ELSE /\ proc' = [proc EXCEPT ![p].zombie = TRUE]
                 /\ loc' = [loc EXCEPT ![t].why = "kill", ![t].of = p,
                                       ![t].threads = proc[p].tasks]
                 /\ Goto(t, IF p = InitProc THEN "notify" ELSE "rpTake")
  /\ UNCHANGED <<token, flag, vforkChild, deferred, adopted>>

\* A pid that is no longer, or not yet, in the table: ESRCH.
KillNobody(t) ==
  /\ At(t, "kill")
  /\ proc[Arg(t).target].life # "live"
  /\ Taken(t) /\ Return(t)
  /\ UNCHANGED <<proc, token, flag, vforkChild, deferred, adopted>>

\* exit_group wakes every other thread, SIGKILL those it does not see running.
NeedsWakeup(t, u) == loc[t].why = "group" \/ Asleep(u) \/ pc[u] = "nascent"

NotifyFlag(t) ==
  /\ pc[t] = "notify"
  /\ \E u \in loc[t].threads :
       /\ flag' = [flag EXCEPT ![u] = TRUE]
       /\ IF NeedsWakeup(t, u)
          THEN /\ Goto(t, "notifyWake")
               /\ loc' = [loc EXCEPT ![t].who = u]
          ELSE /\ pc' = pc
               /\ loc' = [loc EXCEPT ![t].threads = @ \ {u}]
  /\ UNCHANGED <<proc, prog, token, vforkChild, deferred, adopted>>

NotifyWake(t) ==
  /\ pc[t] = "notifyWake"
  /\ Wakeup(loc[t].who, t, "notify")
  /\ loc' = [loc EXCEPT ![t].threads = @ \ {loc[t].who}, ![t].who = Nobody]
  /\ UNCHANGED <<proc, prog, flag, vforkChild, deferred, adopted>>

NotifyDone(t) ==
  /\ pc[t] = "notify" /\ loc[t].threads = {}
  /\ Return(t)
  /\ UNCHANGED <<proc, prog, token, flag, vforkChild, deferred, adopted>>

-----------------------------------------------------------------------------
(* reap_deferred_exited_tasks, by the scheduler loop of any CPU *)

\* The task has left its stack: its process may be reaped, which its parent is
\* told.  Init has no parent.
DeferredFinish(t) ==
  /\ deferred[t].st = "queued" /\ pc[t] = "gone"
  /\ proc' = [proc EXCEPT ![ProcOf[t]].pending = @ /\ ~deferred[t].final]
  /\ deferred' = [deferred EXCEPT ![t].st =
                    IF deferred[t].final /\ deferred[t].parent # Nobody
                    THEN "publish" ELSE "done"]
  /\ UNCHANGED <<pc, prog, loc, token, flag, vforkChild, adopted>>

DeferredPublish(t) ==
  /\ deferred[t].st = "publish"
  /\ proc' = [proc EXCEPT ![deferred[t].parent].seq = @ + 1]
  /\ deferred' = [deferred EXCEPT ![t].st = "collect"]
  /\ UNCHANGED <<pc, prog, loc, token, flag, vforkChild, adopted>>

\* Bug: only the leader of the parent is woken.
LeaderWaits(p) == proc[p].tasks \cap {Leader[p]}

\* Any thread of the parent may be in wait4.
WaitersOf(p) == proc[p].tasks

DeferredCollect(t) ==
  /\ deferred[t].st = "collect"
  /\ deferred' = [deferred EXCEPT ![t].st = "wake",
                                  ![t].waiters = WaitersOf(deferred[t].parent)]
  /\ UNCHANGED <<proc, pc, prog, loc, token, flag, vforkChild, adopted>>

DeferredWake(t) ==
  /\ deferred[t].st = "wake"
  /\ \E u \in deferred[t].waiters :
       /\ Wakeup(u, t, pc[t])
       /\ deferred' = [deferred EXCEPT ![t].waiters = @ \ {u}]
  /\ UNCHANGED <<proc, prog, loc, flag, vforkChild, adopted>>

DeferredDone(t) ==
  /\ deferred[t].st = "wake" /\ deferred[t].waiters = {}
  /\ deferred' = [deferred EXCEPT ![t].st = "done"]
  /\ UNCHANGED <<proc, pc, prog, loc, token, flag, vforkChild, adopted>>

-----------------------------------------------------------------------------
(* The specification *)

Next ==
  \E t \in Tasks :
    \/ Fork(t) \/ ForkPush(t) \/ ForkPublish(t) \/ ForkStart(t) \/ VforkBlock(t)
    \/ Exec(t) \/ VforkClear(t) \/ VforkWake(t)
    \/ ReparentTake(t) \/ ReparentEach(t) \/ ReparentGive(t)
    \/ InitPublish(t) \/ InitWake(t)
    \/ WaitSeq(t) \/ WaitList(t) \/ WaitScan(t) \/ WaitReport(t) \/ WaitDecide(t)
    \/ WaitBlock(t) \/ WaitRemove(t) \/ WaitFree(t)
    \/ ExitCount(t) \/ ExitDetach(t) \/ ExitParent(t)
    \/ ExitDefer(t) \/ ExitSwitch(t)
    \/ ExitGroup(t) \/ Kill(t) \/ KillNobody(t)
    \/ NotifyFlag(t) \/ NotifyWake(t) \/ NotifyDone(t)
    \/ DeferredFinish(t) \/ DeferredPublish(t) \/ DeferredCollect(t)
    \/ DeferredWake(t) \/ DeferredDone(t)

Spec == Init /\ [][Next]_vars
-----------------------------------------------------------------------------
(* Properties *)

Labels ==
  Exiting \cup {"unborn", "nascent", "user", "forkPush", "forkPublish", "forkStart",
    "vforkBlock", "vforkAsleep", "vforkClear", "vforkWake", "rpTake", "rpEach",
    "initPublish", "initWake", "waitSeq", "waitList", "waitScan", "waitBlock",
    "waitAsleep", "waitRemove", "waitFree", "notify", "notifyWake"}

\* The PCBs count their threads: alive_thread_count is the number of threads
\* that have not been through the count of exit, and final cleanup is pending
\* only for a process without any.
TypeOK ==
  /\ pc \in [Tasks -> Labels]
  /\ token \in [Tasks -> BOOLEAN] /\ flag \in [Tasks -> BOOLEAN]
  /\ vforkChild \in [Tasks -> Procs \cup {Nobody}]
  /\ \A p \in Procs :
       /\ proc[p].life \in {"unborn", "made", "live", "reaped"}
       /\ proc[p].children \subseteq Procs /\ proc[p].tasks \subseteq ThreadsOf(p)
       /\ proc[p].parent \in Procs \cup {Nobody}
       /\ proc[p].vforkParent \in Tasks \cup {Nobody}
       /\ proc[p].life # "unborn" =>
            proc[p].alive = Cardinality({t \in ThreadsOf(p) :
                              pc[t] = "exitCount" \/ (~IsExiting(t) /\ pc[t] # "unborn")})
       /\ proc[p].pending => Dead(p)
  /\ \A t \in Tasks : loc[t].why \in Why /\ loc[t].todo \subseteq Procs

\* Every thread of c has left its kernel stack for good.
AllGone(c) == \A u \in ThreadsOf(c) : pc[u] \in {"gone", "unborn"}

WakeComing(c, t) ==
  \E u \in ThreadsOf(c) :
    /\ deferred[u].final
    /\ \/ deferred[u].st \in {"queued", "publish", "collect"}
       \/ deferred[u].st = "wake" /\ t \in deferred[u].waiters

\* No parent sleeps in wait4 over a child of its own that has ended, unless
\* the wakeup for it is under way: the event is published and every thread of
\* the parent woken after the child may be reaped, and the parent reads the
\* event number before the children and again in the critical section that
\* puts it to sleep.  Children that init has adopted are excepted: their
\* wakeup can be dropped by reap_zombie_child or come before init has them.
NoSleepOverExit ==
  \A t \in Tasks : pc[t] = "waitAsleep" =>
    \A c \in proc[ProcOf[t]].children \ adopted :
      Wanted(t, c) /\ AllGone(c) => WakeComing(c, t)

CompletesVfork(u, t) == pc[u] \in {"vforkClear", "vforkWake"} /\ loc[u].vforkParent = t

\* A thread that called vfork runs user code again only after the child has
\* exec'ed or exited, and it does not sleep after that unless the child is on
\* its way to wake it.  A thread of a killed process waits for nothing.
VforkHandshake ==
  \A t \in Tasks :
    /\ \A c \in Procs : proc[c].vforkParent = t /\ pc[t] = "user" => proc[ProcOf[t]].zombie
    /\ pc[t] = "vforkAsleep" /\ ~proc[ProcOf[t]].zombie =>
         \/ proc[loc[t].of].vforkParent = t
         \/ \E u \in Tasks : CompletesVfork(u, t)

Reaps(t, c) == loc[t].why = "reap" /\ loc[t].of = c

\* A process is taken apart once, by one thread, and only when its last
\* thread has switched away from its stack and no other is before the point
\* where it gives up its slot of the PCB.  Excepted is the leader of a child
\* that was killed during its fork and that the fork enqueued again.
ReapAfterSwitch ==
  \A c \in Procs :
    /\ proc[c].life = "reaped" \/ (\E t \in Tasks : Reaps(t, c)) =>
         \A u \in ThreadsOf(c) :
           \/ pc[u] \in {"gone", "unborn", "rerun"}
           \/ (pc[u] \in {"exitDefer", "exitSwitch"} /\ ~loc[u].last)
    /\ \A t1, t2 \in Tasks : Reaps(t1, c) /\ Reaps(t2, c) => t1 = t2
    /\ proc[c].life = "reaped" => ~\E t \in Tasks : Reaps(t, c)

\* "Publish the completion predicate before the vfork child becomes runnable":
\* while the child still owes its parent the completion, it is either not
\* runnable yet or the parent's vfork_child_pid names it.
PublishedBeforeRunnable ==
  \A c \in Procs, t \in Tasks :
    proc[c].vforkParent = t /\ pc[Leader[c]] # "nascent" => vforkChild[t] = c
=============================================================================
