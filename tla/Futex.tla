------------------------------- MODULE Futex --------------------------------
(***************************************************************************)
(* The futex table of syscall/futex.rs: FUTEX_WAIT and FUTEX_WAIT_BITSET,  *)
(* futex_waitv, FUTEX_WAKE(_BITSET), (CMP_)REQUEUE, WAKE_OP, the wake that *)
(* a thread's exit makes on its clear_child_tid word, and the expiry of    *)
(* deadlines by the scheduler loop.                                        *)
(*                                                                         *)
(* One step is one critical section of FUTEX_TABLE, one of a TCB, or one   *)
(* call of block_current_and_run_next or wakeup_task made outside both.    *)
(* The last two come from the scheduler as a token and the sleep it        *)
(* cancels (module Sched has their details).  A waker therefore selects    *)
(* waiters under the table lock and completes them later, one by one; a    *)
(* signal, a kill or the waiter's next call may come in between.           *)
(*                                                                         *)
(* A word is a small natural, a mask a set of bits, time a counter.  PI    *)
(* futexes and robust lists are not in this module.                        *)
(***************************************************************************)
EXTENDS Naturals, FiniteSets, Sequences, FiniteSetsExt

CONSTANTS
  Waiters,     \* threads that wait
  Wakers,      \* threads that wake, requeue, and may exit
  Cpus,        \* scheduler loops that expire deadlines
  Keys,        \* futex words, one key each
  Bits,        \* FUTEX_BITSET_MATCH_ANY
  MaxVal,      \* a word holds 0..MaxVal
  MaxTime,     \* the clock stops here
  MaxSignals,  \* signals and kills sent
  Programs     \* what the threads may do: a sequence of calls for each

Tasks      == Waiters \cup Wakers
Values     == 0..MaxVal
FUTEX_WAITV_MAX == 128
NoIndex    == FUTEX_WAITV_MAX  \* usize::MAX in wake_index: no index of a list
NoDeadline == MaxTime + 2      \* NO_FUTEX_DEADLINE
Moved      == MaxVal + 1

\* System calls, and the steps of user code between them.  A timeout of
\* NoDeadline is a null timeout.
WaitCalls ==
  {c \in [keys : Seq(Keys), mask : SUBSET Bits, timeout : 0..NoDeadline, vector : BOOLEAN] :
     Len(c.keys) \in IF c.vector THEN 1..FUTEX_WAITV_MAX ELSE {1}}

WakeCalls ==
  [op : {"wake"}, key : Keys, n : Nat, mask : SUBSET Bits]
  \cup [op : {"requeue"}, key : Keys, key2 : Keys, n : Nat, m : Nat, cmp : Values]
  \cup [op : {"wakeop"}, key : Keys, key2 : Keys, n : Nat, m : Nat,
        new : Values, cmp : Values]
  \cup [op : {"store"}, key : Keys, new : Values]
  \cup [op : {"exit"}, key : Keys]

ASSUME FutexAssumption ==
  /\ Waiters \cap Wakers = {} /\ Tasks \cap Cpus = {}
  /\ IsFiniteSet(Tasks) /\ IsFiniteSet(Keys)
  /\ MaxVal \in Nat \ {0} /\ MaxTime \in Nat /\ MaxSignals \in Nat
  /\ \A p \in Programs : /\ p = [t \in Tasks |-> p[t]]
                         /\ \A t \in Waiters : p[t] \in Seq(WaitCalls)
                         /\ \A w \in Wakers : p[w] \in Seq(WakeCalls)

VARIABLES
  val,       \* the user words
  table,     \* FUTEX_TABLE: a queue of entries per key
  next,      \* NEXT_FUTEX_DEADLINE_NS
  now,       \* the monotonic clock
  pc,        \* where each thread is
  call,      \* the wait call a thread is in: keys, values, mask, deadline
  prog,      \* the calls a thread has yet to make
  woken,     \* TCB futex_woken
  timedOut,  \* TCB futex_timed_out
  intr,      \* TCB interrupted_by_signal
  zombie,    \* TCB zombie_flag
  token,     \* TCB pending_wakeup
  toWake,    \* the entries a waker has selected and not completed
  timer,     \* check_futex_timeouts on each CPU
  killing,   \* tasks whose killer has marked them and not yet cleaned up
  signals,   \* signals and kills so far
  owing,     \* history: the word changed and no wake has emptied its queue
  crossed    \* history: the task returned EINTR with a completion under way

flags == <<woken, timedOut>>
waitVars == <<call, prog>>
histVars == <<owing, crossed>>
vars == <<val, table, next, now, pc, waitVars, flags, intr, zombie, token,
          toWake, timer, killing, signals, histVars>>

\* FutexWaiter, with the number of the call that queued it and the value it
\* expects of its word (Moved once it was requeued to another).
Entries ==
  [task : Waiters, call : Nat, exp : Values \cup {Moved},
   mask : SUBSET Bits, deadline : 0..NoDeadline, index : Nat]

NoCall  == [keys |-> <<>>, vals |-> <<>>, mask |-> {}, deadline |-> NoDeadline,
            vector |-> FALSE, number |-> 0]
NoTimer == [pc |-> "idle", now |-> 0, entry |-> <<>>]

WaitPcs == {"enqueue", "publish", "loop", "block", "asleep", "remove"}
WakePcs == {"deliver", "wakeup", "exit"}

Init ==
  /\ val = [k \in Keys |-> 0]
  /\ table = [k \in Keys |-> <<>>]
  /\ next = NoDeadline
  /\ now = 0
  /\ pc = [t \in Tasks |-> "user"]
  /\ call = [t \in Waiters |-> NoCall]
  /\ prog \in Programs
  /\ woken = [t \in Waiters |-> FALSE]
  /\ timedOut = [t \in Waiters |-> FALSE]
  /\ intr = [t \in Waiters |-> FALSE]
  /\ zombie = [t \in Waiters |-> FALSE]
  /\ token = [t \in Waiters |-> FALSE]
  /\ toWake = [t \in Wakers |-> <<>>]
  /\ timer = [c \in Cpus |-> NoTimer]
  /\ killing = {}
  /\ signals = 0
  /\ owing = [k \in Keys |-> FALSE]
  /\ crossed = [t \in Waiters |-> FALSE]

Goto(t, l) == pc' = [pc EXCEPT ![t] = l]

InWait(t) == pc[t] \in WaitPcs

\* Entries selected under the table lock whose result is not yet in the TCB.
ClaimsOf(w) == IF pc[w] = "wakeup" THEN Tail(toWake[w]) ELSE toWake[w]

TimerClaims(c) == IF timer[c].pc = "deliver" THEN timer[c].entry ELSE <<>>

Claimers  == Wakers \cup Cpus
Claims(x) == IF x \in Wakers THEN ClaimsOf(x) ELSE TimerClaims(x)

Claimed(t) == \E x \in Claimers : \E i \in DOMAIN Claims(x) : Claims(x)[i].task = t

\* The positions I of a sequence in their order, and what sequence q has there.
InOrder(I) ==
  CHOOSE f \in [1..Cardinality(I) -> I] : \A a, b \in DOMAIN f : a < b => f[a] < f[b]

Only(q, I) == LET f == InOrder(I) IN [j \in DOMAIN f |-> q[f[j]]]

\* VecDeque::retain
Without(tab, S) ==
  [k \in Keys |-> Only(tab[k], {i \in DOMAIN tab[k] : tab[k][i].task \notin S})]

-----------------------------------------------------------------------------
(* futex_wait and futex_waitv *)

\* Bug: a null timeout is added to the clock like any other.
DeadlineAlways(timeout) == now + timeout

\* parse_futex_deadline: saturates below NO_FUTEX_DEADLINE.
Deadline(timeout) ==
  IF timeout = NoDeadline THEN NoDeadline ELSE Min({now + timeout, NoDeadline - 1})

\* The call: the words hold what the caller expects (EAGAIN at once if not), a
\* deadline is computed, and the result of an earlier call is cleared from the
\* TCB before the table is locked.
CallWait(t) ==
  /\ pc[t] = "user" /\ ~zombie[t]
  /\ prog[t] # <<>>
  /\ LET c == Head(prog[t])
     IN call' = [call EXCEPT ![t] =
                   [keys |-> c.keys, vals |-> [i \in DOMAIN c.keys |-> val[c.keys[i]]],
                    mask |-> c.mask, deadline |-> Deadline(c.timeout),
                    vector |-> c.vector, number |-> Len(prog[t])]]
  /\ prog' = [prog EXCEPT ![t] = Tail(@)]
  /\ woken' = [woken EXCEPT ![t] = FALSE]
  /\ timedOut' = [timedOut EXCEPT ![t] = FALSE]
  /\ Goto(t, "enqueue")
  /\ UNCHANGED <<val, table, next, now, intr, zombie, token, toWake, timer,
                 killing, signals, histVars>>

\* Bug: the words are not compared again under the table lock.
NeverStale(t) == FALSE

\* A word of the call has changed since the call began.
StaleValue(t) ==
  \E i \in DOMAIN call[t].keys : val[call[t].keys[i]] # call[t].vals[i]

Expired(t) == call[t].deadline # NoDeadline /\ now >= call[t].deadline

EntryOf(t, i) ==
  [task |-> t, call |-> call[t].number, exp |-> call[t].vals[i],
   mask |-> call[t].mask, deadline |-> call[t].deadline,
   index |-> IF call[t].vector THEN i - 1 ELSE NoIndex]

\* One entry per listed key, pushed in the order of the list.
Pushed(t) ==
  [k \in Keys |->
     table[k] \o Only([i \in DOMAIN call[t].keys |-> EntryOf(t, i)],
                      {i \in DOMAIN call[t].keys : call[t].keys[i] = k})]

\* The call ends: a result that another actor still carries will cross into
\* whatever the task does next.
Return(t) ==
  /\ call' = [call EXCEPT ![t] = NoCall]
  /\ Goto(t, "user")
  /\ crossed' = [crossed EXCEPT ![t] = @ \/ Claimed(t)]

\* Compare and enqueue, one critical section of FUTEX_TABLE: EAGAIN if a word
\* has changed, ETIMEDOUT if the deadline has passed already.
Enqueue(t) ==
  /\ pc[t] = "enqueue"
  /\ IF StaleValue(t) \/ Expired(t)
     THEN Return(t) /\ UNCHANGED table
     ELSE /\ table' = Pushed(t)
          /\ Goto(t, IF call[t].deadline = NoDeadline THEN "loop" ELSE "publish")
          /\ UNCHANGED <<call, crossed>>
  /\ UNCHANGED <<val, next, now, prog, flags, intr, zombie, token, toWake,
                 timer, killing, signals, owing>>

\* Bug: the deadline is stored as it is.
PublishStore(t) == call[t].deadline

\* Bug: a deadline is not published.
PublishNothing(t) == next

\* publish_futex_deadline only ever lowers the earliest deadline.
Published(t) == Min({next, call[t].deadline})

PublishDeadline(t) ==
  /\ pc[t] = "publish"
  /\ next' = Published(t)
  /\ Goto(t, "loop")
  /\ UNCHANGED <<val, table, now, waitVars, flags, intr, zombie, token, toWake,
                 timer, killing, signals, histVars>>

\* The checks at the head of the wait loop, in one TCB section.  A completed
\* plain wait returns from here; a waitv call, and one that was interrupted,
\* first cleans the table up.
LoopCompleted(t) ==
  /\ pc[t] = "loop"
  /\ timedOut[t] \/ woken[t]
  /\ timedOut' = [timedOut EXCEPT ![t] = FALSE]
  /\ woken' = [woken EXCEPT ![t] = woken[t] /\ timedOut[t]]
  /\ IF call[t].vector
     THEN Goto(t, "remove") /\ UNCHANGED <<call, crossed>>
     ELSE Return(t)
  /\ UNCHANGED <<val, table, next, now, prog, intr, zombie, token, toWake,
                 timer, killing, signals, owing>>

LoopInterrupted(t) ==
  /\ pc[t] = "loop"
  /\ ~timedOut[t] /\ ~woken[t]
  /\ intr[t] \/ zombie[t]
  /\ intr' = [intr EXCEPT ![t] = FALSE]
  /\ Goto(t, "remove")
  /\ UNCHANGED <<val, table, next, now, waitVars, flags, zombie, token, toWake,
                 timer, killing, signals, histVars>>

LoopBlock(t) ==
  /\ pc[t] = "loop"
  /\ ~timedOut[t] /\ ~woken[t] /\ ~intr[t] /\ ~zombie[t]
  /\ Goto(t, "block")
  /\ UNCHANGED <<val, table, next, now, waitVars, flags, intr, zombie, token,
                 toWake, timer, killing, signals, histVars>>

\* Bug: the interrupted waiter stays in the table.
RemoveNothing(t) == table

\* remove_task_from_futex_table
Removed(t) == Without(table, {t})

RemoveTask(t) ==
  /\ pc[t] = "remove"
  /\ table' = Removed(t)
  /\ Return(t)
  /\ UNCHANGED <<val, next, now, prog, flags, intr, zombie, token, toWake,
                 timer, killing, signals, owing>>

\* block_current_and_run_next: a token or a pending exit cancels the sleep.
Block(t) ==
  /\ pc[t] = "block"
  /\ token' = [token EXCEPT ![t] = FALSE]
  /\ Goto(t, IF token[t] \/ zombie[t] THEN "loop" ELSE "asleep")
  /\ UNCHANGED <<val, table, next, now, waitVars, flags, intr, zombie, toWake,
                 timer, killing, signals, histVars>>

-----------------------------------------------------------------------------
(* Wakers *)

\* The first n entries of queue q that match the mask.
Chosen(q, n, mask) ==
  LET match(i) == q[i].mask \cap mask # {}
      first    == {i \in DOMAIN q : match(i) /\ Cardinality({j \in 1..i : match(j)}) <= n}
  IN {q[i] : i \in first}

Select(q, S) == Only(q, {i \in DOMAIN q : q[i] \in S})
Reject(q, S) == Only(q, {i \in DOMAIN q : q[i] \notin S})

IsVector(e) == e.index # NoIndex

\* commit_waitv_wake_selections_locked: one selection completes a waitv call,
\* and its other entries leave the table in the same section.
Commit(selected) ==
  Only(selected, {i \in DOMAIN selected : ~\E j \in 1..(i - 1) :
                    selected[j].task = selected[i].task /\ IsVector(selected[j])})

\* Bug: the siblings of a selected waitv entry stay queued.
KeepSiblings(tab, selected) == tab

RemoveSiblings(tab, selected) ==
  Without(tab, {selected[i].task : i \in {j \in DOMAIN selected : IsVector(selected[j])}})

\* The end of every wake section: `selected' has left `tab'.  A queue found
\* empty afterwards settles what a change of its word owed.
FinishStoring(w, tab, selected, keys) ==
  /\ table' = RemoveSiblings(tab, selected)
  /\ toWake' = [toWake EXCEPT ![w] = Commit(selected)]
  /\ owing' = [k \in Keys |-> /\ owing[k] \/ val'[k] # val[k]
                              /\ k \in keys => table'[k] # <<>>]

FinishSection(w, tab, selected, keys) ==
  val' = val /\ FinishStoring(w, tab, selected, keys)

\* Thread w is at its next call, of kind op.
At(w, op) == pc[w] = "user" /\ prog[w] # <<>> /\ Head(prog[w]).op = op

CallWith(w) ==
  /\ prog' = [prog EXCEPT ![w] = Tail(@)]
  /\ Goto(w, "deliver")

\* What a waker's table section or store never touches.
WakerLeavesAlone ==
  UNCHANGED <<next, now, call, flags, intr, zombie, token, timer, killing,
              signals, crossed>>

\* FUTEX_WAKE, FUTEX_WAKE_BITSET
FutexWake(w) ==
  /\ At(w, "wake")
  /\ CallWith(w)
  /\ LET c == Head(prog[w])
         q == table[c.key]
         S == Chosen(q, c.n, c.mask)
     IN FinishSection(w, [table EXCEPT ![c.key] = Reject(q, S)], Select(q, S), {c.key})
  /\ WakerLeavesAlone

\* FUTEX_REQUEUE: wake the first n, move the next m to the other queue.
Requeue(w, k1, k2, n, m) ==
  LET q    == table[k1]
      sel  == SubSeq(q, 1, Min({n, Len(q)}))
      mov  == SubSeq(q, Len(sel) + 1, Min({Len(sel) + m, Len(q)}))
      rest == SubSeq(q, Len(sel) + Len(mov) + 1, Len(q))
      tab1 == [table EXCEPT ![k1] = rest]
      tab2 == [tab1 EXCEPT ![k2] = @ \o [i \in DOMAIN mov |-> [mov[i] EXCEPT !.exp = Moved]]]
  IN FinishSection(w, tab2, sel, {k1})

\* FUTEX_CMP_REQUEUE compares the word first, under the table lock (EAGAIN).
FutexCmpRequeue(w) ==
  /\ At(w, "requeue")
  /\ CallWith(w)
  /\ LET c == Head(prog[w])
     IN IF val[c.key] = c.cmp
        THEN Requeue(w, c.key, c.key2, c.n, c.m)
        ELSE UNCHANGED <<val, table, toWake, owing>>
  /\ WakerLeavesAlone

\* FUTEX_WAKE_OP: store into the second word, wake on the first, and on the
\* second when its old value was cmp.
FutexWakeOp(w) ==
  /\ At(w, "wakeop")
  /\ CallWith(w)
  /\ LET c    == Head(prog[w])
         sel1 == Chosen(table[c.key], c.n, Bits)
         tab1 == [table EXCEPT ![c.key] = Reject(@, sel1)]
         sel2 == IF val[c.key2] = c.cmp THEN Chosen(tab1[c.key2], c.m, Bits) ELSE {}
         tab2 == [tab1 EXCEPT ![c.key2] = Reject(@, sel2)]
         sel  == Select(table[c.key], sel1) \o Select(tab1[c.key2], sel2)
     IN /\ val' = [val EXCEPT ![c.key2] = c.new]
        /\ FinishStoring(w, tab2, sel, {c.key, c.key2})
  /\ WakerLeavesAlone

\* wake_futex_waiter: the result goes into the TCB, then the task is woken.
Deliver(w) ==
  /\ pc[w] = "deliver" /\ toWake[w] # <<>>
  /\ LET e == Head(toWake[w])
     IN woken' = [woken EXCEPT ![e.task] = TRUE]
  /\ Goto(w, "wakeup")
  /\ UNCHANGED <<val, table, next, now, waitVars, timedOut, intr, zombie, token,
                 toWake, timer, killing, signals, histVars>>

\* Bug: a task that is not asleep yet gets no token.
WakeSleeperOnly(t, here, label) ==
  /\ pc' = [x \in Tasks |-> IF x = t /\ pc[t] = "asleep" THEN "loop"
                            ELSE IF x = here THEN label ELSE pc[x]]
  /\ token' = token

\* wakeup_task, as far as a thread in a futex call can tell.
Wakeup(t, here, label) ==
  /\ pc' = [x \in Tasks |-> IF x = t /\ pc[t] = "asleep" THEN "loop"
                            ELSE IF x = here THEN label ELSE pc[x]]
  /\ token' = [token EXCEPT ![t] = @ \/ pc[t] \notin {"asleep", "gone"}]

DeliverWakeup(w) ==
  /\ pc[w] = "wakeup"
  /\ Wakeup(Head(toWake[w]).task, w, "deliver")
  /\ toWake' = [toWake EXCEPT ![w] = Tail(@)]
  /\ UNCHANGED <<val, table, next, now, waitVars, flags, intr, zombie, timer,
                 killing, signals, histVars>>

DeliverDone(w) ==
  /\ pc[w] = "deliver" /\ toWake[w] = <<>>
  /\ Goto(w, "user")
  /\ UNCHANGED <<val, table, next, now, waitVars, flags, intr, zombie, token,
                 toWake, timer, killing, signals, histVars>>

\* User code changes a word it shares with others.
UserStore(w) ==
  /\ At(w, "store")
  /\ LET c == Head(prog[w])
     IN /\ val' = [val EXCEPT ![c.key] = c.new]
        /\ owing' = [owing EXCEPT ![c.key] = @ \/ c.new # val[c.key]]
  /\ prog' = [prog EXCEPT ![w] = Tail(@)]
  /\ UNCHANGED <<pc, table, toWake>> /\ WakerLeavesAlone

\* A waker's exit clears its clear_child_tid word, then wakes one waiter on it
\* (futex_wake_one) ...
ExitClear(w) ==
  /\ At(w, "exit")
  /\ LET k == Head(prog[w]).key
     IN /\ val' = [val EXCEPT ![k] = 0]
        /\ owing' = [owing EXCEPT ![k] = @ \/ val[k] # 0]
  /\ Goto(w, "exit")
  /\ UNCHANGED <<prog, table, toWake>> /\ WakerLeavesAlone

FutexWakeOne(w) ==
  /\ pc[w] = "exit"
  /\ CallWith(w)
  /\ LET k == Head(prog[w]).key
         S == Chosen(table[k], 1, Bits)
     IN FinishSection(w, [table EXCEPT ![k] = Reject(@, S)], Select(table[k], S), {k})
  /\ WakerLeavesAlone

\* ... and a killed waiter's exit drops what it may still have in the table.
ExitWaiter(t) ==
  /\ pc[t] = "user" /\ zombie[t]
  /\ table' = Without(table, {t})
  /\ Goto(t, "gone")
  /\ UNCHANGED <<val, next, now, waitVars, flags, intr, zombie, token, toWake,
                 timer, killing, signals, histVars>>

-----------------------------------------------------------------------------
(* check_futex_timeouts, signals and the clock *)

SetTimer(c, p, n, e) == timer' = [timer EXCEPT ![c] = [pc |-> p, now |-> n, entry |-> e]]

\* The fast path: nothing to do before the earliest published deadline.
CheckTimeouts(c) ==
  /\ timer[c].pc = "idle"
  /\ next # NoDeadline /\ now >= next
  /\ SetTimer(c, "scan", now, <<>>)
  /\ UNCHANGED <<val, table, next, now, pc, waitVars, flags, intr, zombie, token,
                 toWake, killing, signals, histVars>>

IsDue(c, e) == e.deadline # NoDeadline /\ e.deadline <= timer[c].now

DueAt(c, k) == {i \in DOMAIN table[k] : IsDue(c, table[k][i])}

\* One expired waiter per table section, with its waitv siblings.
ExpireOne(c, k) ==
  /\ timer[c].pc = "scan"
  /\ DueAt(c, k) # {}
  /\ LET i == Min(DueAt(c, k))
         e == table[k][i]
     IN /\ table' = RemoveSiblings([table EXCEPT ![k] = Only(@, DOMAIN @ \ {i})], <<e>>)
        /\ SetTimer(c, "deliver", timer[c].now, <<e>>)
  /\ UNCHANGED <<val, next, now, pc, waitVars, flags, intr, zombie, token,
                 toWake, killing, signals, histVars>>

\* Bug: no deadline is published for the waiters that stay.
ForgetDeadlines == NoDeadline

FollowingDeadline ==
  Min({NoDeadline} \cup UNION {{table[k][i].deadline : i \in DOMAIN table[k]} : k \in Keys})

\* Nothing is due: the earliest remaining deadline is stored under the lock.
ExpireNone(c) ==
  /\ timer[c].pc = "scan"
  /\ \A k \in Keys : DueAt(c, k) = {}
  /\ next' = FollowingDeadline
  /\ timer' = [timer EXCEPT ![c] = NoTimer]
  /\ UNCHANGED <<val, table, now, pc, waitVars, flags, intr, zombie, token,
                 toWake, killing, signals, histVars>>

DeliverTimeout(c) ==
  /\ timer[c].pc = "deliver"
  /\ LET t == timer[c].entry[1].task
     IN /\ woken' = [woken EXCEPT ![t] = FALSE]
        /\ timedOut' = [timedOut EXCEPT ![t] = TRUE]
  /\ SetTimer(c, "wakeup", timer[c].now, timer[c].entry)
  /\ UNCHANGED <<val, table, next, now, pc, waitVars, intr, zombie,
                 token, toWake, killing, signals, histVars>>

TimeoutWakeup(c) ==
  /\ timer[c].pc = "wakeup"
  /\ LET t == timer[c].entry[1].task IN Wakeup(t, t, pc[t])
  /\ SetTimer(c, "scan", timer[c].now, <<>>)
  /\ UNCHANGED <<val, table, next, now, waitVars, flags, intr, zombie, toWake,
                 killing, signals, histVars>>

\* Time is only told apart while somebody has a deadline.
ClockMatters ==
  \/ \E t \in Waiters : call[t].deadline # NoDeadline
  \/ \E k \in Keys : \E i \in DOMAIN table[k] : table[k][i].deadline # NoDeadline

Tick ==
  /\ now < MaxTime /\ ClockMatters
  /\ now' = now + 1
  /\ UNCHANGED <<val, table, next, pc, waitVars, flags, intr, zombie, token,
                 toWake, timer, killing, signals, histVars>>

\* wakeup_signal_receivers
SignalTask(t) ==
  /\ signals < MaxSignals /\ InWait(t)
  /\ signals' = signals + 1
  /\ intr' = [intr EXCEPT ![t] = TRUE]
  /\ Wakeup(t, t, pc[t])
  /\ UNCHANGED <<val, table, next, now, waitVars, flags, zombie, toWake, timer,
                 killing, histVars>>

\* request_tasks_exit marks the task ...
KillTask(t) ==
  /\ signals < MaxSignals /\ InWait(t) /\ ~zombie[t]
  /\ signals' = signals + 1
  /\ zombie' = [zombie EXCEPT ![t] = TRUE]
  /\ intr' = [intr EXCEPT ![t] = TRUE]
  /\ killing' = IF pc[t] = "asleep" THEN killing \cup {t} ELSE killing
  /\ UNCHANGED <<val, table, next, now, pc, waitVars, flags, token, toWake,
                 timer, histVars>>

\* ... and takes one that is not running out of the table and wakes it.
KillCleanup(t) ==
  /\ t \in killing
  /\ killing' = killing \ {t}
  /\ table' = Without(table, {t})
  /\ Wakeup(t, t, pc[t])
  /\ UNCHANGED <<val, next, now, waitVars, flags, intr, zombie, toWake, timer,
                 signals, histVars>>

-----------------------------------------------------------------------------
(* The specification *)

WaitStep(t) ==
  \/ Enqueue(t)
  \/ PublishDeadline(t)
  \/ LoopCompleted(t)
  \/ LoopInterrupted(t)
  \/ LoopBlock(t)
  \/ RemoveTask(t)
  \/ Block(t)
  \/ ExitWaiter(t)

WakeCall(w) ==
  \/ FutexWake(w)
  \/ FutexCmpRequeue(w)
  \/ FutexWakeOp(w)
  \/ UserStore(w)
  \/ ExitClear(w)

WakeStep(w) ==
  \/ FutexWakeOne(w)
  \/ Deliver(w)
  \/ DeliverWakeup(w)
  \/ DeliverDone(w)

TimerStep(c) ==
  \/ CheckTimeouts(c)
  \/ \E k \in Keys : ExpireOne(c, k)
  \/ ExpireNone(c)
  \/ DeliverTimeout(c)
  \/ TimeoutWakeup(c)

Environment ==
  \/ \E t \in Waiters : SignalTask(t) \/ KillTask(t)
  \/ Tick

Next ==
  \/ \E t \in Waiters : CallWait(t) \/ WaitStep(t) \/ KillCleanup(t)
  \/ \E w \in Wakers : WakeCall(w) \/ WakeStep(w)
  \/ \E c \in Cpus : TimerStep(c)
  \/ Environment

Spec == Init /\ [][Next]_vars

\* The scheduler keeps running every thread that is not asleep, its own loop,
\* and the clock; nobody is obliged to call anything.
Fairness ==
  /\ \A t \in Waiters : WF_vars(WaitStep(t)) /\ WF_vars(KillCleanup(t))
  /\ \A w \in Wakers : WF_vars(WakeStep(w))
  /\ \A c \in Cpus : WF_vars(TimerStep(c))
  /\ WF_vars(Tick)

FairSpec == Spec /\ Fairness

-----------------------------------------------------------------------------
(* Properties *)

TypeOK ==
  /\ val \in [Keys -> Values]
  /\ \A k \in Keys : \A i \in DOMAIN table[k] : table[k][i] \in Entries
  /\ next \in 0..NoDeadline /\ now \in 0..MaxTime
  /\ pc \in [Tasks -> {"user", "gone"} \cup WaitPcs \cup WakePcs]
  /\ woken \in [Waiters -> BOOLEAN] /\ timedOut \in [Waiters -> BOOLEAN]
  /\ intr \in [Waiters -> BOOLEAN] /\ zombie \in [Waiters -> BOOLEAN]
  /\ token \in [Waiters -> BOOLEAN]
  /\ \A w \in Wakers : \A i \in DOMAIN toWake[w] : toWake[w][i] \in Entries
  /\ killing \subseteq Waiters /\ signals \in 0..MaxSignals
  /\ owing \in [Keys -> BOOLEAN] /\ crossed \in [Waiters -> BOOLEAN]

\* Compare-and-block is atomic (the comment at futex.rs:1475): a waiter is
\* queued on a word that differs from the value it expects only while the
\* change is still owed a wake, so no wake slips between compare and enqueue.
NoSlippedWake ==
  \A k \in Keys : \A i \in DOMAIN table[k] :
    table[k][i].exp \in {val[k], Moved} \/ owing[k]

SameCall(d, e) == d.task = e.task /\ d.call = e.call

\* One completion per call (the comment at futex.rs:131): once a wake or a
\* timeout has claimed a wait, no other waker or timer has claimed it too, and
\* none of its entries is left for one to claim.
ClaimedOnce ==
  \A x \in Claimers : \A i \in DOMAIN Claims(x) :
    /\ \A y \in Claimers : \A j \in DOMAIN Claims(y) :
         SameCall(Claims(x)[i], Claims(y)[j]) => x = y /\ i = j
    /\ \A k \in Keys : \A j \in DOMAIN table[k] :
         ~SameCall(Claims(x)[i], table[k][j])

\* The table names only threads that are waiting: an entry belongs to the call
\* its task is in, unless a signal ended an earlier call of that task while a
\* wake or a timeout was on its way (the result then ends the next call, which
\* returns without removing its own entry).
EntryBelongsToWaiter ==
  \A k \in Keys : \A i \in DOMAIN table[k] :
    LET e == table[k][i]
    IN (InWait(e.task) /\ e.call = call[e.task].number) \/ crossed[e.task]

\* The idle loop's fast path misses no deadline: a queued deadline is not
\* before the published one, or its thread is about to publish it.
DeadlineCovered ==
  \A k \in Keys : \A i \in DOMAIN table[k] :
    LET e == table[k][i]
    IN \/ e.deadline >= next
       \/ pc[e.task] = "publish" /\ e.call = call[e.task].number

\* A wait with a deadline ends, whatever the others do.
TimedWaitEnds ==
  \A t \in Waiters :
    (InWait(t) /\ call[t].deadline <= MaxTime) ~> ~InWait(t)

\* A wait that was claimed ends: the completion is not lost between the table
\* section that dequeued the waiter and its sleep.
ClaimedWaitEnds ==
  \A t \in Waiters : Claimed(t) ~> ~InWait(t)

=============================================================================
