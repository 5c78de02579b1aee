# TLA+ models of Kairix

Kairix is an SMP monolithic kernel in Rust for RISC-V and LoongArch
(`os/src`). This directory holds TLA+ specifications of its concurrent core,
TLC configurations for them, and TLAPS proofs. Paths below are relative to
`src/os/src/`.

| File | Content |
|------|---------|
| `Sched.tla` | task ownership: wakeup, enqueue, claim, dispatch, block, yield, exit, reap; group stop, continue, kill |
| `SleepMutex.tla` | `BlockingMutex`: FIFO waiters that sleep, fair reservation |
| `Futex.tla` | the futex table: wait, waitv, wake, requeue, wake_op, timeouts, signals |
| `Pipe.tla`, `PipeFifo.tla` | pipes, splice and ppoll; the bounded queue of bytes they implement |
| `Tcp.tla` | a TCP connection over a network that loses, repeats and reorders |
| `Process.tla` | fork, vfork, exec, wait4, exit, exit_group, SIGKILL, adoption, reaping |
| `SchedProofs.tla` | proofs about `Sched`: ownership; wakeups |
| `SleepMutexProofs.tla` | proofs about `SleepMutex` |
| `FutexProofs.tla` | proofs about `Futex` |
| `ProcessSteps.tla`, `ProcessProofs.tla`, `ProcessWaitProofs.tla` | proofs about `Process`: what each action does to the state; counts and reaping; wait4 and vfork |
| `PipeProofs.tla` | proofs about `Pipe`, the refinement of `PipeFifo` included |
| `TcpProofs.tla` | proofs about `Tcp`: types; the two streams |
| `MC*.tla`, `*.cfg` | instances for TLC |
| `PROJECT.json` | components, runs, mutants, map to source lines, hazards, findings, theorems |

Check with `tlc -workers 2 -config MCSched.cfg MCSched` and `tlapm SchedProofs.tla`.

## 1. Inventory

| Component | State | Operations | Interacts through | What is hard | What makes it correct |
|---|---|---|---|---|---|
| Task ownership (`task/manager.rs`, `processor.rs`, `mod.rs`, `task.rs`) | per TCB: status, `on_cpu`, `ready_queued`, `pending_wakeup`, `requeue_after_switch`, group-stop flags; per CPU: run queue, ready count; the deferred-exit list | `wakeup_task`, `add_task`, `remove_task`, `fetch_task`, `run_tasks`, `block_current...`, `suspend...`, `exit_current...`, `reap_deferred...` | called by every blocking primitive; TCB, run-queue and PCB locks are never held together on these paths | a wakeup races the switch-out; ownership is two atomics; checks and commits in different sections | one hart per stack, no lost wakeup, no runnable task without owner, no stack freed in use |
| Run-queue order (`task/manager.rs`) | MLFQ levels, RT lists, budgets, affinity | pick, aging, balance | inside enqueue and claim | starvation, priority | bounded wait, affinity respected |
| Idle wait and IPI (`processor.rs`, `manager.rs`) | idle marks | mark idle, recheck, WFI, kick | ready count, IPI | store/load order of the handshake | no hart sleeps beside work |
| Group stop, continue, kill (`syscall/signal/common.rs`) | PCB `is_stopped`, `is_zombie`; TCB flags | `stop_process`, `continue_process`, `finish_signaled_process`, `request_tasks_exit` | `remove_task`, `wakeup_task`, IPIs | PCB section, then one TCB section per thread, then the queue | a stop holds, a continue resumes, a kill ends |
| Signal queues and delivery (`task/signal.rs`, `syscall/signal/*`) | pending sets, masks, frames | send, deliver, sigreturn, sigsuspend | wakeup of interruptible sleeps | mask change against arrival | no signal lost or delivered twice |
| Blocking mutex (`sync/mutex/sleep_mutex.rs`) | locked, reservation, bypass count, wait queue | lock, try_lock, drop | blocks and wakes through the scheduler | sleep after unlock, stray wakeups, dead waiters | exclusion, no forgotten waiter |
| Spin mutexes (`sync/mutex/*`) | a word | lock, unlock | everywhere | nesting, interrupts | exclusion |
| Timers (`timer.rs`, `syscall/time.rs`) | timer heap, POSIX timers | arm, expire, cancel | wakeup | expiry against cancel | one expiry, none after cancel |
| Process life cycle (`task/process.rs`, `syscall/process.rs`) | process tree, thread lists, exit status | fork, vfork, exec, exit, wait4, reparent | SIGCHLD, wakeup | last thread out, exec against siblings | each child is reaped once |
| Futexes (`syscall/futex.rs`) | wait table, PI states | wait, wake, requeue, waitv, PI | user words, scheduler, timers | value check against wake, timeout against wake | no lost wake, one completion |
| Pipes (`fs/pipe.rs`), epoll (`syscall/epoll.rs`), notify (`fs/notify/*`) | ring buffers, waiter and interest lists | read, write, close, poll | wakeup | close against block | bytes in order, no reader left asleep |
| Memory (`mm/*`) | page tables, frames, COW counts, TLB generations | fault, fork, unmap, shootdown, merge, swap | IPIs acknowledged by running harts | shootdown while a hart waits for a lock | no stale mapping to a freed frame |
| Page cache and writeback (`fs/page`, `fs/writeback.rs`) | cached, dirty, queued pages | read, dirty, write back, evict, truncate | blocking mutexes, block device | eviction of a dirty page | nothing written is lost |
| lwext4 binding (`fs/lwext4/*`), VFS (`fs/vfs/*`), other file systems | mounts, dentries, inodes, record locks | open, lookup, rename, unmount | mount gate | unmount against operations | no operation on a closed mount |
| Network (`socket/*`, `net/*`) | connections, queues, timers | connect, send, receive, retransmit | devices, wakeup | loss, reordering, timeouts | stream delivered in order |
| Drivers, boot, traps, SSH, Landlock, SysV shm | device registers, boot state, sessions, rules, segments | probe, transfer, trap, access check | as above | mostly hardware | mostly out of reach here |

`PROJECT.json` lists the same components with their status, and the hazards
with the line where each one bites.

## 2. Plan

Done, in this order: `Sched`, the ownership protocol every other part rests on;
`SleepMutex`, its most delicate client; then the users of block and wakeup that
carry the system's own logic: `Futex`, `Pipe` (with the abstract `PipeFifo`),
`Process`, and `Tcp` for the one component with an unreliable partner. The four
client modules do not repeat the scheduler: a task that is not asleep runs, a
wakeup of a sleeper ends its sleep, and one of a task that is awake leaves the
token `pending_wakeup`, which the next block consumes. That is what
`NoSleepOverWakeup` and `ReadyRuns` say of `Sched`.

Left, most important first:

1. Proofs: every safety property that TLC checks is proved, `SmallWriteWhole`
   apart (`VforkHandshake` under the condition that the finding `vfork_publish`
   calls for, the refinement of `PipeFifo` under `SoleDrain`, and the streams of
   `Tcp` under `ShortStreams`). What is left is `SmallWriteWhole`.
2. `TaskWait`: the promise of block and wakeup as a module of its own, with
   `Sched` shown to implement it.
3. `IdleWait` (idle mark, ready count, WFI and IPI) and `RunQueue` (MLFQ with
   aging, real-time classes, affinity), which discharges the fairness assumed
   for `ClaimTask`.
4. Signals: masks, pending sets, sigsuspend; PI futexes.
5. Page cache and writeback; the lwext4 mount gate; TLB shootdown.

## 3. `Sched`

A step is one critical section: a section under one TCB, run-queue or PCB lock,
or one unlocked look at the atomics. `pc`, `arg`, `tgt` and `op` say where each
context is between two of its sections. There are two kinds of context.
*Harts* (`Cpus`) execute `run_tasks` and, when they have switched, the current
task. *Agents* stand for whatever else calls in: interrupts, timers, and
system calls of tasks outside the instance.

| Actions | Code |
|---|---|
| `ForkTask`, `StartForked` | `_clone`: `TaskControlBlock::new` and the tables; the second store of Ready and `enqueue_new_clone_task` |
| `AddTaskToCpu`, `EnqueueCheck`, `EnqueueMark` | `add_task_to_cpu` (status check under the TCB lock), `enqueue_task_on_cpu` (ownership checks; marker, push and count) |
| `WakeZombie` ... `WakeBlocked`, `WakeRecheck` | the branches of `wakeup_task` and `wakeup_task_front`, which differ only in the queue end and the value returned |
| `RemoveTask`, `DecrementReadyTasks` | `remove_task`, its decrement after the unlock |
| `StopProcess`, `StopTask` (then `RemoveTask`) | `stop_process`, PCB and TCB sections |
| `ContinueProcess`, `ContinueTask` (then a wakeup), `DeliverCont` (then another) | `continue_process`; the rest of `deliver_signal_with_info` |
| `FinishSignaledProcess`, `RequestTaskExit` (then `RemoveTask`, wakeup) | `finish_signaled_process`, `request_tasks_exit` |
| `ClaimTask`, `DispatchTask`, `SkipTask`, `SwitchedOut` | `claim_task_from_cpu`, and the three parts of `run_tasks` |
| `ReapDeferred`, `ReleaseExited` | `reap_deferred_exited_tasks`, `release_exited_resources` |
| `MarkSleep`, `BlockCancelledByExit`, `BlockCancelledByWakeup`, `BlockCurrent` | `sys_nanosleep`, `block_current_and_run_next_impl` |
| `SuspendCurrent`, `ObserveStopped`, `ScheduleStoppedTask` | yield, preemption and user-return safe points |
| `ExitCurrent`, `ExitProcess`, `DeferDrop` | `exit_current_and_run_next` up to its last switch |

Abstractions, and why they are sound for the properties:

- Every process has one thread, so a task also stands for its PCB. Loops over
  `tasks` have one iteration; races between siblings of a process are not seen.
- A run queue is the set of its entries; which entry and which CPU are chosen is
  open. This allows more behaviours than the MLFQ does.
- `try_claim_queued` sets `on_cpu`, then clears `ready_queued`, under the
  run-queue lock; the model does both, the removal and the count in one step.
  `is_ready_queued` and `is_on_cpu` are two loads in the code and one in
  `Unowned`. An enqueuer that saw them torn is stopped by the
  compare-and-exchange of `try_mark_ready_queued`, which is a step of its own,
  and because `on_cpu` is published before the marker is cleared, a reader that
  looks at the marker first never sees a task being claimed as free. The reaper
  looks in the other order, so it may take a queued zombie that is being claimed
  for free; a zombie is skipped by `run_tasks` and its stack is not entered.
- What the reaper does for the parent (SIGCHLD, wakeups of its tasks) concerns
  another process: to that process it is an agent's wakeup.
- `LockBusy` of `current_task_exit_state` makes any yield legal in any process
  state, so `SuspendCurrent` has no guard on it.
- Left out: exec's forced exits, vfork and child-event predicates of a block
  (they only cancel it), the branch for a freed PCB, orphans, and the branch
  that clears a stale `zombie_flag`.

*Fork.* A new TCB starts Ready and is in `tid2task` and `pid2process` (where
wakeups and signals find it) before `_clone` stores Ready a second time
(`task/process.rs:2738-2741`), over whatever the status is by then, and calls
`add_task`. So `ForkTask` and `StartForked` are two steps, and any other agent
may wake, stop or kill the child in between.

*SIGCONT.* After `continue_process`, `deliver_signal_with_info` goes on: an
ignored or blocked SIGCONT wakes nobody, any other one ends in `wakeup_task`.
`DeliverCont` has both outcomes, since dispositions and masks are not modelled.

History variables, read by no guard: `owed` (a wakeup came since the task was
last given a CPU), `parked` (switched out by `schedule_stopped_task`), `undead`
(exited before its fork was over, so that the fork stored Ready over Zombie),
and `dropped` — set where the code itself leaves a runnable task without an
owner:

1. `run_tasks` clears `on_cpu` of a skipped entry after it released the TCB lock;
2. a late `remove_task` of a stop dequeues a task that was already continued;
3. a fork stores Ready over the status of a child that was woken early and is
   still on its CPU, so that its enqueue is refused.

`NoStrandedReady` says that these three races are the only ones. They are
reported as hazards, not as findings, since no line of the repository promises
otherwise.

The second store also breaks two other properties, each of which therefore
names the exception. Without it TLC finds

- `ReapedStackUnused` violated in 21 states: the child is woken before the store,
  is killed and exits; the store makes it Ready over Zombie, the reaper
  releases its stack, and the enqueue has it dispatched there. The property
  excepts `undead`.
- `StopHolds` violated in 5 states: fork, the two sections of `stop_process`, and
  the store, which makes the stopped child Ready while the stop lasts. The
  property excepts a child whose fork has not stored Ready yet (`Nascent`).

### Runs

| Run | Instance | Result |
|---|---|---|
| `sched` | 1 task, 2 harts, 2 agents, all calls, symmetry | passes, 1,572,197 states |
| `sched_live` | 1 task, 2 harts, 1 agent; fork, wake, kill; fair | passes, 8,033 states |
| `continue_resumes`, `killed_wakes_up`, `release_assertion` | 1 task, 2 harts, 1 or 2 agents, the calls needed | violated, see Findings |

Bounds. There is no counter to cap: `ready` is bounded by the tasks and the
pending decrements. All state but the run queues and their locks belongs to one
task, so the races of the protocol are races of several contexts over *one*
task: two harts (one that leaves the task, one that claims it) and two agents
(two enqueuers, or a stop against a wakeup). A second task adds contention on
the run-queue lock and the count: with `Tasks <- TwoTasks`,
`Agents <- OneAgent`, `Ops <- NoStopOps` the same cfg passes with 818,629
states. What is proved needs no bound.

Deadlock is checked: an agent may always wake the task again.

Fairness in `FairSpec`. A call that has begun goes on, and a context that keeps
asking for a run-queue lock gets it: the owner and remote intents of
`task/manager.rs:60-118` keep one side from shutting out the other. An entry
that can be claimed again and again is claimed: the levels are round robin and
aged. The timer preempts a task that keeps its CPU (`main.rs:1083-1135`), and
`prepare_user_return` makes a killed task exit the next time it goes to user
mode; that a killed task goes there assumes that no system call loops for ever
in the kernel. Reaping is tried on every turn of the idle loop. Calls by agents
have no fairness before they begin: no wakeup has to come.

### Properties

`QueueMarker`, `SingleOwner`, `ReadyCount` tie the three representations of
ownership together (marker and entries, `on_cpu` and the place of each hart,
count and entries). `NoStrandedReady` and `NoSleepOverWakeup` are the two
halves of "no lost wakeup"; `KilledIsWoken` the same for fatal signals.
`ReapedStackUnused` forbids use of a kernel stack after its release,
`StopHolds` says that a stop lasts until SIGCONT, each but for the race with a
fork described above. `ReadyRuns`, `KilledExits`
and `DeferredIsReleased` are their liveness side, up to group stop and `dropped`.

## 4. `SleepMutex`

The steps are the sections of the inner spin lock in `lock`, `try_lock` and the
guard's `drop`, and the calls of `block_current_kernel_continuation` and
`wakeup_task_front` made without it, which are taken from `Sched` as the
token `pending` and the sleep it cancels. `wakeup_task_front` is split as in the
code: its TCB section, then the late look at `ready_queued` and `on_cpu` whose
answer decides whether the unlock goes on to the next waiter (`UnlockReturn`).
The reservation's timeout is the flag `aged`, which may be set at any time.
`Stray` allows wakeups that are not the mutex's. The wait queue holds weak
references: a task that is `gone` is passed over, a `zombie` is popped and
refused.

History variable `wasted`: the last unlock's wakeup went to a task that was not
waiting. `NoForgottenWaiter` and `SleeperIsWoken` hold up to it;
`ReleaseWakesWaiter`, without it, is what the documentation of the type says
and is violated.

| Run | Instance | Result |
|---|---|---|
| `sleep_mutex` | 3 tasks, fair, interval 3, stray wakeups | passes, 276,924 states |
| `release_wakes_waiter` | the same | violated |

Three tasks are a holder, a waiter whose entry is stale and a waiter that is
asleep. An interval of 3 instead of 8 lets both kinds of release happen;
`bypass` stays below it. `CHECK_DEADLOCK FALSE`: all tasks may have exited.
Fairness: a task inside a call of the mutex runs on, since it is not preempted
in the kernel (`main.rs:1128-1134`) and a runnable task runs (`ReadyRuns`), and
the holder unlocks; nobody has to call `lock`.

Left out: the idle context, which spins instead of queueing; group-stopped
waiters, for which `wakeup_task_front` returns true and wakes nobody; owner
diagnostics.

## 5. `Futex`

State: the user words, `FUTEX_TABLE` (a queue of entries per key),
`NEXT_FUTEX_DEADLINE_NS`, the clock, and per thread the TCB fields
`futex_woken`, `futex_timed_out`, `interrupted_by_signal`, `zombie_flag` and
`pending_wakeup`. A step is one section of the table lock, one of a TCB, or one
call of block or wakeup made outside both.

| Actions | Code |
|---|---|
| `CallWait`, `Enqueue`, `PublishDeadline`, `LoopCompleted`, `LoopInterrupted`, `LoopBlock`, `RemoveTask`, `Block` | `futex_wait` and `sys_futex_waitv`, from the flags' reset to the wait loop and the cleanup |
| `FutexWake`, `FutexCmpRequeue`, `FutexWakeOp`, then `Deliver`, `DeliverWakeup`, `DeliverDone` | selection under the table lock, then `wake_futex_waiter` for each selected waiter |
| `ExitClear`, `FutexWakeOne` | `clear_child_tid` of an exiting thread |
| `CheckTimeouts`, `ExpireOne`, `ExpireNone`, `DeliverTimeout`, `TimeoutWakeup` | `check_futex_timeouts` of the scheduler loop |
| `SignalTask`, `KillTask`, `KillCleanup`, `ExitWaiter` | `wakeup_signal_receivers`, `request_tasks_exit`, exit |
| `UserStore`, `Tick` | user code and the clock (external) |

`NoSlippedWake` is the atomic compare-and-block; `ClaimedOnce` the one
completion per wait, over both words of a waitv and over wakes and timeouts;
`EntryBelongsToWaiter` says that no entry outlives its wait;
`DeadlineCovered` that the idle loop's fast path misses no deadline, the ones
of stale entries included;
`TimedWaitEnds` and `ClaimedWaitEnds` that timed and claimed waits end.

`VecDeque::retain` is `Only(q, I)`: what the queue has at the positions `I`, in
their order. A completion is held by a *claimer*, a waker or the scheduler loop
of a CPU, from the table section that selects an entry until the result is in
the TCB (`Claims`). `FUTEX_WAITV_MAX` keeps the index of a waitv entry apart from
the `usize::MAX` of a plain wait (`NoIndex`).

History: `owing[k]` (the word changed and no wake has come yet) and `crossed[t]`.
The second one marks what the code itself allows: a signal ends a wait with
EINTR while a waker already holds its entry; `futex_woken` is then set late and
completes the task's *next* wait, which returns without removing its entry.
POSIX users loop, so the early return is harmless, but the entry stays in the
table and can consume a wake. It is excepted, not reported as a finding, since
no comment promises otherwise.

Instance: two waiters, one waker, one scheduler loop, two words, two mask bits,
time up to 2, one signal or kill, nine small programs (condition variable,
repeated wait, timed then untimed, masks, requeue, wake_op on a waitv, join, two
deadlines). Each program is a meeting of calls that share state; a second waker
only adds orders of selections that the table lock already serialises. 238,668
states. Threads are run, the scheduler loop and the clock go on (weak
fairness); nobody has to call anything.

## 6. `Pipe` and `PipeFifo`

State: the ring (`PipeRingBuffer`: pages allocated on the first write and freed
when read, head, tail, status, capacity, ends, three waiter queues), and per
task its program, the place in its call, its token and the waiters it took and
has yet to wake.

| Actions | Code |
|---|---|
| `ReadData`, `ReadEof`, `ReadAgain`, `RegisterReader` | `Pipe::read`, `read_user_slice` |
| `WriteData`, `WritePipe` (no reader: EPIPE), `WriteAgain`, `RegisterWriter` | `Pipe::write`, `write_user_slice` |
| `SpliceReadable`, `SpliceWritable`, `Transfer`, `SpliceStore`, `SplicePeek`, `SpliceDiscard` | `sys_splice` pipe to pipe, file to pipe, pipe to file |
| `PollScan`, `PollRegister`, `PollRescan`, `PollClear` | `sys_ppoll` on pipe ends |
| `Close`, `Resize` | drop of an end, `set_pipe_capacity` |
| `WakeNext`, `Block`, `Awake`, `Signal` | `wake_waiter_queue` after the unlock, and the scheduler |

The ring's functions are pure operators with the code's names (`ReadLoop` and
`WriteLoop` are the loops over contiguous runs inside pages, as recursive
functions of what a turn of the loop starts from). Calls for no bytes, for no
descriptors, or from a pipe into itself return before they look at a ring and
are not in `Calls`. `ImplementsFifo`
is the refinement: with `content <- Content(ring)` every step of the ring is a
step of `PipeFifo`, a bounded queue of bytes that knows nothing of pages, wraps
or copies on resize, or stutters. `NoSleepOverData`, `NoSleepOverRoom` and
`NoPollOverEvent` are the three "nobody sleeps over what it waits for";
`SmallWriteWhole` is PIPE_BUF atomicity; `AllFinish` that programs that read to
the end of file and close what they hold all end.

`grown` excepts one thing the code does: `set_pipe_capacity` makes room without
waking writers, who sleep on until the next read. Splice to a file peeks,
writes the file with the ring unlocked and then discards; with a reader beside
it bytes are lost. This is a hazard of `PROJECT.json`. `SoleDrain` says of a
program that who splices a pipe to a file is its only consumer and holds its read
end until then; `MCPipe` assumes it of its programs (`MixSoleDrain`, evaluated by
TLC), and the refinement is proved from it.

Instance: three tasks, two pipes, capacity 4 in pages of 2, PIPE_BUF 2, two
signals, eight programs in which the ring fills, wraps, grows, shrinks, and ends
close early. 213,724 states. Deadlock is off because programs end; fairness: a
task that can run does.

## 7. `Tcp`

State: a `TcpSocket` per end (state, sequence numbers, receive, reassembly and
retransmission queues, pending FIN, error), the listener, and `net`, the set of
all segments ever sent. A segment is lost if it is never delivered, repeated if
delivered again, reordered if overtaken. Sequence numbers are modulo
`SeqSpace`, as `u32` is; the n-th byte of a stream is the number n. `sending` is
the segment that `send_tracked` has tracked and is about to send, with the socket
unlocked; `unsent` is the same until a retransmission has sent it first.

| Actions | Code |
|---|---|
| `Connect`, `ConnectFail`, `ConnectAgain`, `ConnectTimeout`, `Accept` | `do_connect_setup` (its SYN leaves, cannot be sent and is untracked, or EISCONN), `connect`, `accept` |
| `SendBegin`, `SendTrack`, `SendOk`, `SendFail`, `SendRefused`, `SendTimeout` | `send_tracked`, `wait_for_send_window`; the segment is tracked under the lock and sent after it |
| `ReadSome`, `ReadEof`, `Shutdown`, `Close` | `recv_user_buffer`, `SocketFile::read`, `Socket::shutdown(SHUT_WR)`, `Socket::close` |
| `RcvListen` ... `RcvIgnored` | the branches of `dispatch_tcp_segment` |
| `RcvUnmatched` | `send_unmatched_rst` |
| `Retransmit`, `PollClosed`, `PmtuUpdate` | `collect_retransmits`, `poll_retransmits`, `handle_pmtu_update` |

`PrefixDelivered`: what is read and what waits to be read is exactly the peer's
stream from its first byte up to `recv_seq`. `NothingForgotten`: an accepted
byte is with the peer or tracked. `EofAfterAllData`: wherever read returns 0 for
an empty queue (CloseWait, LastAck, Closed), all data has come. `CloseDelivers`:
a close is confirmed only when the peer has everything, the FIN included.

*A failed send.* When `tcp_send_segment` fails, `send_tracked` forgets the segment
and gives its numbers back (`socket/tcp.rs:816-821`). The segment may be in the
network all the same: `net/neighbor.rs:180-181` queues the packet before
`arp_request` fails, and the queue is flushed when the address is known
(`Queued`); and a retransmission, the one that path-MTU feedback forces included
(`socket/tcp.rs:316, 745-749`), may have sent it while the call was on its way.
The peer then has bytes that the sender numbers again. `escaped` records that
this has happened, and the four properties are about behaviours in which it has
not: without that condition TLC finds `PrefixDelivered` violated in 10 states.
A failed send whose segment stays away is inside them. This is a hazard and not
a finding, as no line of the repository speaks of it.

*End of file.* read also returns 0 in a connection that was reset, given up after
`TCP_MAX_RETRIES` or at the connect timeout, or closed by its own end before the
peer's FIN. Bytes can be missing there; `aborted` names these ends, and
`EofAfterAllData` excepts them (without the exception: violated in 13 states, by a
give-up). An end in FinWait1 or FinWait2 is told of the end by the peer's FIN,
which takes it to Closed, and is covered.

*One thread per socket.* The code looks at the send window in one section
(`wait_for_send_window`) and tracks in the next; `SendTrack` has the two in one
step, which is the same as long as one thread sends on a socket: between them only
acknowledgements change the queue, and they shorten it. With several senders the
window could be exceeded by as many segments, and the case of `send_tracked` in
which other numbers have been given since (`RolledBack`, its ELSE) could be
reached; neither is examined.

Instance: `SeqSpace` 16 with an initial number of 13, so that the client's
stream wraps; at most five bytes in segments of one or two, a window of 4, a
reassembly queue of 2, one retry. The window is smaller than half the sequence
space, as in the code. Timeouts and failed sends are bounded per scenario (up
to 3 and 1). 562,327 states. There is no fairness here: `poll_retransmits`
gives up after `TCP_MAX_RETRIES`, so nothing has to arrive. Receivers and
connectors yield and look again, so their wakers are hints and are left out.

What the model shows and no property forbids: `shutdown(SHUT_WR)` followed by
`close` finds FinWait1, clears the retransmission queue and unregisters, so lost
data are not resent (a hazard); a FIN ahead of data in FinWait1 and FinWait2 is
answered and not remembered, so the peer has to send it again; CloseWait does
not answer a repeated FIN.

## 8. `Process`

State: per PCB the life (`unborn`, `made` before the pid table, `live`,
`reaped`), `is_zombie`, `alive_thread_count`, the final-exit-cleanup mark,
parent, children, child-event number, `vfork_parent`, thread slots; per TCB the
token, `zombie_flag`, `vfork_child_pid`; the deferred-exit list. A step is one
section of a PCB or TCB, one atomic, or one `wakeup_task`.

| Actions | Code |
|---|---|
| `Fork`, `ForkPush`, `ForkPublish`, `ForkStart`, `VforkBlock` | `ProcessControlBlock::_clone`, `wait_current_vfork` |
| `Exec`, `VforkClear`, `VforkWake` | the end of `exec`, and the same in exit |
| `WaitSeq`, `WaitList`, `WaitScan`, `WaitReport`, `WaitDecide`, `WaitBlock`, `WaitRemove`, `WaitFree` | `sys_wait4`, `sys_waitid`, `reap_zombie_child` |
| `ReparentTake`, `ReparentEach`, `ReparentGive`, `InitPublish`, `InitWake` | `reparent_children_to`, with the wakeup of init its callers make |
| `ExitCount`, `ExitDetach`, `ExitParent`, `ExitDefer`, `ExitSwitch` | `exit_current_and_run_next` from its thread count on |
| `ExitGroup`, `Kill`, `KillNobody`, `NotifyFlag`, `NotifyWake`, `NotifyDone` | `sys_exit_group`, `finish_signaled_process`, `request_tasks_exit` |
| `DeferredFinish` ... `DeferredDone` | `reap_deferred_exited_tasks`, which publishes the event to the parent |

A process without a parent has nobody to publish its end to:
`DeferredFinish` then ends the entry, as `reap_deferred_exited_tasks` does.

`TypeOK` contains the exact thread count. `NoSleepOverExit`: no parent sleeps in
wait4 over a dead child of its own, unless the wakeup is under way.
`VforkHandshake`: the parent runs only after the child's exec or exit, and does
not sleep after it. `ReapAfterSwitch`: a process is taken apart once, after its
last thread left its kernel stack.

*Fork against SIGKILL.* `ForkStart` stores Ready over the status of the child,
whatever that is (`task/process.rs:2738-2751`), and enqueues it. A plain fork
and a SIGKILL after the child is in the pid table are enough: the child is woken,
exits and leaves its stack, and the store then hides that it is a zombie. Such a
thread is at `rerun` from then on (`Started`): it runs on a stack that may have
been released, its process may have been reaped, and what it does there is not
followed. `ReapAfterSwitch` excepts it, and without the exception is violated in
20 states; the other three properties need none. A thread over whose status Ready
is stored before it has left its CPU is refused by the enqueue; that a later
wakeup could enqueue it then is the same rerun and has no step of its own.

Threads made by `sys_thread_create` keep their slot when they exit
(`auto_reap_on_exit` is false, `task/mod.rs:1247, 1476`), as the leader of a live
process does; `DetachNow` leaves them out, and the leader shows what a kept slot
does.

`adopted` excepts the children that init took over: `reap_zombie_child` drops
the answer of the adoption, `exit_group` leaves the adoption to it, and a child
has init as its parent before init has it as a child, so a wakeup can come too
early. Init then sleeps until another child ends (a hazard).

Instance: init, a process of two threads and two more processes; nine
scenarios, each one meeting of the calls (two threads wait for one child, vfork
against exit_group, orphans, kills in both directions, a kill of a child that is
being forked). 447,030 states. The finding `vfork_publish` has a run and a scenario
of its own. `CHECK_DEADLOCK FALSE`: programs end, and init idles.

## 9. Findings

1. **`continue_resumes`** — a task that reaches a safe point between the two
   sections of `stop_process` parks itself in `schedule_stopped_task`, is then
   recorded as one that slept before the stop, and `continue_process` does not wake
   it. A SIGCONT that is neither ignored nor blocked goes on to wake it as a signal
   receiver; one that is leaves it asleep, though the process is continued.
2. **`killed_wakes_up`** — SIGKILL to a stopped process ends in
   `wakeup_task`'s `group_stopped` branch, which only remembers the wakeup; the
   task sleeps until somebody also sends SIGCONT.
3. **`release_assertion`** — an enqueuer that passed the `Ready` check before
   the task exited can queue it after the reaper took it, and the assertion of
   `release_exited_resources` fails. (`ReapedStackUnused` still holds: a zombie
   is not switched to, as long as no fork stores Ready over it.)
4. **`release_wakes_waiter`** — a waiter that acquires after a stray wakeup
   leaves its entry in `wait_queue`; a later unlock wakes that entry's task
   instead of one that waits.
5. **`vfork_publish`** — a vfork child is in the pid table with status Ready
   before its parent has stored `vfork_child_pid`; SIGKILL makes it runnable
   then, it exits unmatched, and the parent sleeps for ever.

Each run checks the statement of the comment, assertion or documentation that
the finding quotes.

## 10. Proofs

Every theorem is of the form `Spec => []P` (or `Spec => P` for an action
property and for the refinement), with a further hypothesis where its
section says so (`PublishedVforkIsCompleted`, `RingIsFifo`, the streams of `Tcp`),
and holds for every value of the constants that satisfies the named assumption of
its module: any finite sets of tasks, harts and agents and any
subset of the calls (`SchedAssumption`); any finite set of tasks, fair or not,
with or without stray wakeups, and any positive interval
(`SleepMutexAssumption`); any finite sets of threads and words, any values,
times and programs (`FutexAssumption`); any process tree with finitely many
threads and any programs (`ProcessAssumption`); any finite sets of tasks and
pipes, any programs, and any positive page size and PIPE_BUF with a default
capacity of at least PIPE_BUF (`PipeAssumption`; pages need not divide the
capacity); any sequence space, initial numbers, retries and limits, a send window
smaller than the retransmission queue, and programs in which nothing follows
`close` (`TcpAssumption`). TLC evaluates all six in the
passing runs.

### `Sched`

| Theorem | Argument |
|---|---|
| `SchedProofs!TypeCorrect` | `TypeOK` is inductive; one step per action, with lemmas for the control helpers |
| `MarkerNamesQueue` | `QueueMarker` is inductive given the types; only `EnqueueMark`, `RemoveTask` and `ClaimTask` touch it (`QueueFrame`) |
| `OneHartPerTask`, `NoUseAfterReap` | `OwnerInv` = `SingleOwner` ∧ `StackInv` ∧ `ReapedStackUnused`. `StackInv` is the strengthening: what the reaper waits for, holds or has released is a Zombie or `undead`, and on its own stack a task is a Zombie only once it has begun to exit; a Zombie is never dispatched, and until the last switch is over its claim makes the reaper's check fail. `StartForked` is the one step that ends Zombie, and it makes the task `undead`. Agents move no owner (`AgentFrames`) |
| `GroupStopHolds` | an action property. `SleepInv`: the status Sleep is seen only while a hart is between publishing it and blocking; with `OwnerInv`, no hart changes the status of a task that no hart owns, and of the agents only a fork does so while the stop lasts (`Nascent`) |
| `ReadyCountExact` | `Owing(c)` is the set of contexts that owe a decrement; every step changes the count and the sum of the two cardinalities alike (`CountStep`) |
| `ReadyNeverStranded`, `WakeupNeverSleptOver`, `KilledNeverLeftAsleep` | one invariant per task, `TaskInv`, so that a step is split by the task it works on (`OtherTask` for all others). It tells a *waker*, an agent that will still change the status, from an *enqueuer*, a context that has decided to queue the task: every status that calls for a queue has one of them, or a hart that will look at `requeue_after_switch` when it has switched, or the task is in `dropped` by one of the three races |

### `SleepMutex`

| Theorem | Argument |
|---|---|
| `SleepMutexProofs!TypeCorrect` | inductive; sequence lemmas for the pop |
| `MutexCorrect` | `MutualExclusion` is inductive: a retry never touches `locked` |
| `WaitersAreFindable` | `WaitersFound` ∧ `QueueOnce`; `PopFinds` follows the waiters through the removal of the queue's head |
| `NoWaiterForgotten` | the property speaks of somebody on its way to the lock; the strengthening says that it is a *real* contender, one that will try for the lock before it sleeps, and follows it through the unlock's loop over dead waiters |

### `Futex`

`FutexInv` is proved inductive once (`FutexProofs!Inductive`), and the five
theorems (`TypeCorrect`, `NoWakeSlips`, `OneCompletion`, `EntriesBelong`,
`NoDeadlineMissed`) are read off it. Neither `ClaimedOnce` nor
`EntryBelongsToWaiter` is inductive: an entry that a crossed completion left
behind must not be taken for one of the call the task is in now. Calls are
numbered downwards by what is left of the program, and `Numbered` says that an
entry, queued or claimed, is of the call its task is in or of an earlier one.
With it go `Belongs` (of an earlier one only after a crossing), `Quiet` (a result
in the TCB of a queued task has crossed), `Covered` and `Expects` (the deadline
and the word), and `Sparse`: two entries of one call are both of a waitv list.
The sections are followed by what they do to the table: entries only leave
(`Thin`), leave or are requeued (`Moving`), or one call is pushed (`Extended`);
and to the waiters: all but the one that begins, publishes or ends a call are
`Steady`. That `Only` returns what it should, in order, is proved from the
existence of least elements in `Nat` and the finite-set theorems.

### `Process`

`ProcessSteps` proves, for each of the 38 elementary steps of the actions, what
it leaves in the variables (`NextIsStep`); the other two modules see only those
steps. A thread at `rerun` has been through its exit, and the invariants treat it
as one that is gone, except where the scheduler loop waits for it to leave its
stack: they hold of a child that its fork enqueues again, too. They build on each
other:

| Invariant | Content | Theorem |
|---|---|---|
| `ControlInv` | the locals agree with the place in the code; the count is the number of threads not yet counted out | `ProcessProofs!TypeCorrect` |
| `ExitInv` | one thread is the last; cleanup is pending until the scheduler loop has finished with it; every other thread has its slot until it is out of the way; what a waiter claims has settled | |
| `CustodyInv` | every process is in one hand: in one list of children, with one thread that moves it, or with one that reaps it | `ReapedOnceAfterSwitch` |
| `KnownInv` | only processes that have been in the pid table are worked on | |
| `FamilyInv` | a listed child's parent pointer is the list's owner, and so are the copies of it that exit carries. This is why the model leaves out the comparison of the pointer that `reparent_children_to` makes for each child: it always succeeds | |
| `WaitInv` | a waiter that has not seen a published end has an old event number, or its wakeup is to come | `ExitWakesParent` |
| `OwedInv` | while the debt of a vfork is in the child's PCB the parent is in the call, or killed | `VforkSuspendsParent` |
| `HandInv` | while the parent waits, the debt is in the PCB or a thread of the child is clearing it; a parent cleared in its sleep is about to be woken | `PublishedVforkIsCompleted` |

`PublishedVforkIsCompleted` proves `VforkHandshake` from
`[]PublishedBeforeRunnable`. Without that condition it is false (the finding
`vfork_publish`): the theorem says that the early publication is the only
defect of the handshake.

### `Pipe`

| Theorem of `PipeProofs` | Argument |
|---|---|
| `TypeCorrect`, `NoLostReader`, `NoLostWriter`, `NoLostPoller` | read off `Inv`, which `Invariance` proves inductive |
| `RingIsFifo` | `Inv` and `DrainInv`; each step is a `Deed`, and each deed a step of `PipeFifo` or a stutter |

*The ring.* `RingOK` is `IsRing` in the form the proofs use. The loops of `read_slice` and
`write_slice` are followed turn by turn: a turn that is not the last one leaves a
state with fewer bytes to go, and a state from which the loop would not copy what
it should, with the fewest bytes to go, cannot exist (the least element of a set
of naturals takes the place of an induction). What comes out is what each
operation does to the readable bytes, whatever the page boundaries and the wrap:
`Took` (the front is gone), `Gave` (the bytes are at the back), `Resized` (the
same bytes), `Dropped` (none), and that the pages `reclaim_consumed_pages` frees
hold none of them. Everything later sees only these.

*The sleeps.* `Inv` is `IsRings` ∧ `Types` ∧ `Placed` ∧ `Watched`. `Placed` says that
locals and place agree with the call, and where a task may sleep. `Watched` is the
strengthening: the three properties speak of tasks that are asleep, but a wakeup
may come between the registration and the block, so a reader or a writer that is
*about to block* is already in the queue of its pipe and still has to wait, or
somebody has it in `toWake`, or its token is set. A poller is, with the same
alternatives, in the queues it has registered with, and the descriptors its second
scan has passed are not ready. A step of one
task is split by what it does to the others: `Effect` says that each waiter in a
queue of the ring is kept there and nothing it waits for has come, or is taken to
be woken (or is in `grown`), and `OwnStep` that the rest of the other tasks' state
is left alone.

*The refinement.* Only `SpliceDiscard` needs more than `Inv`: it discards by
number, and takes the peeked bytes for the front of the ring. `DrainInv` says that
they are, from `SoleDrain`: nobody else consumes from the pipe, nobody else can
drop its last read end, writers only append and a resize copies. Without
`SoleDrain` the theorem is false (the hazard at `splice.rs:297`); with it the
theorem says that this gap is the only way a pipe loses or repeats a byte.

### `Tcp`

| Theorem of `TcpProofs` | Argument |
|---|---|
| `TypeCorrect` | `TypeInv` is inductive: `TypeOK` with the window by state, because only the FIN may follow a full one. No hypothesis |
| `DeliversThePrefix`, `ForgetsNothing`, `EofComesLast` | read off `StreamInv` (`StreamImplied`), which holds as long as no failed segment has `escaped` (`StreamInvariant`); `EndInv` follows an end that is not `aborted` to its end of file |
| `ClosesDelivered` | an action property: only an acknowledgement of the FIN takes a socket to FinWait2 or from LastAck to an error-free Closed (`FinishedIs`); by `StreamInv` its sender has received up to that number (`AckedFinIs`) |

`Pos(e, q)` is the place of sequence number q in the stream of e: 0 is the SYN,
then come the bytes, then the FIN. Below half the sequence space `seq_before` and
`seq_after` compare places (`Compare`), whatever the initial number, so the wrap
is dealt with once. `SendingInv` ties the segment that is being sent to the
numbers given so far. `StreamInv` says of each end

- `Numbers`: how far it has numbered its stream, by state, and that the segment
  it has tracked and not sent yet (`unsent`) has the last numbers;
- `Queue`: what it tracks has left it, but for that segment;
- `Reception`: what has been read and what waits is the peer's stream up to
  `recv_seq`, the reassembly queue holds bytes of it in their places, a FIN that
  is kept for later has the place after the last byte;
- `Remembers`: every byte from the place the *peer* has received up to is tracked;
  it relates the two sockets, and is what an early retirement would break;

and of every segment ever sent that it is `Good`: its bytes are those of its
places, its FIN comes after all of them, and it acknowledges no more than its
sender has received by now. A step of one end keeps what is said of the other
because the end only goes on (`Further`, `StreamStep`). The exception is a send
that fails: its numbers are given back, which is safe if the bytes of `unsent` have
never left, so that no peer has acknowledged them (`SendFailStream`); if they have
left, or leave later, the step sets `escaped`, and nothing is claimed from then on.
The loop of `drain_out_of_order` is followed turn by turn (`DrainTurnTakes`), with
the least turn that breaks `Takes` in place of an induction.

The hypothesis `[]ShortStreams` (each stream, SYN and FIN included, stays below
half the sequence space) is needed because segments never leave `net`: beyond it,
a segment of the stream's own past could arrive when its numbers come round
again, which in a real network the lifetime of a segment excludes. `MCTcp`
assumes it of its programs (`MixIsShort`, evaluated by TLC).

### Only model-checked

- The liveness properties, `AllFinish` of `Pipe` included: fairness is out of the
  prover's reach.
- `SmallWriteWhole`: it finds a write in the stream by its bytes, so it is about
  programs whose bytes are all distinct, as those of the instance are.
- The violations.

## 11. Not modelled

Of the modelled parts: PI futexes, robust lists and the values futex calls
return; tee, vmsplice and timeouts of ppoll, select and epoll; UDP, raw and Unix
sockets, SHUT_RD, and the in-kernel echo service; CLONE_THREAD, CLONE_PARENT,
exec that ends sibling threads, stop and continue reports, SIGCHLD, and the
retries of a contended `try_lock`, which only repeat a step.

Of the rest, `PROJECT.json` gives the reason for each component. Memory, the
page cache and the file systems are the largest part of the code without a
module; they are in the plan as far as several harts meet in them. Drivers,
assembly, boot, the vendored lwext4 and the formats of the pseudo file systems
stay outside: hardware, or sequential code that tests reach well.
