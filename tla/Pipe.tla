-------------------------------- MODULE Pipe --------------------------------
(***************************************************************************)
(* Pipes (fs/pipe.rs), splice between pipes and files (syscall/fs/         *)
(* splice.rs), and ppoll on pipe ends (syscall/fs/poll.rs).                *)
(*                                                                         *)
(* One step is one critical section of a ring's lock, one wakeup made      *)
(* after it, or one call of block_current_and_run_next (whose token and    *)
(* sleep are as in module Sched).  A ring keeps its bytes in pages that    *)
(* are allocated on the first write and freed once nothing in them is      *)
(* readable.                                                               *)
(*                                                                         *)
(* Each task runs a finite program of system calls.  A descriptor is one   *)
(* end of one pipe; an end is dropped when the last task that holds it     *)
(* closes it.                                                              *)
(***************************************************************************)
EXTENDS Naturals, FiniteSets, SequencesExt

CONSTANTS
  Tasks,
  Pipes,
  PAGE_SIZE,
  PIPE_BUF,
  DEFAULT_PIPE_CAPACITY,
  MaxByte,      \* bytes are 0..MaxByte
  MaxSignals,   \* signals sent
  Programs      \* what the tasks may do: a sequence of calls for each

SPLICE_CHUNK_SIZE == PAGE_SIZE

Bytes == 0..MaxByte
Poll  == [pipe : Pipes, end : {"r", "w"}]

\* A call for no bytes or no descriptors returns before it looks at a ring, and
\* so does a splice of a pipe into itself.
Count == Nat \ {0}
Data  == Seq(Bytes) \ {<<>>}

Calls ==
  [op : {"read"}, pipe : Pipes, n : Count, nonblock : BOOLEAN, all : BOOLEAN]
  \cup [op : {"write", "writev"}, pipe : Pipes, data : Data, nonblock : BOOLEAN]
  \cup {c \in [op : {"splice"}, pipe : Pipes, out : Pipes, n : Count, nonblock : BOOLEAN] :
          c.pipe # c.out}
  \cup [op : {"drain"}, pipe : Pipes, n : Count, nonblock : BOOLEAN]
  \cup [op : {"fill"}, out : Pipes, data : Data, nonblock : BOOLEAN]
  \cup [op : {"poll"}, fds : Seq(Poll) \ {<<>>}]
  \cup [op : {"close"}, pipe : Pipes, end : {"r", "w"}]
  \cup [op : {"resize"}, pipe : Pipes, n : Nat]

ASSUME PipeAssumption ==
  /\ IsFiniteSet(Tasks) /\ IsFiniteSet(Pipes)
  /\ PAGE_SIZE \in Nat \ {0} /\ PIPE_BUF \in Nat \ {0}
  /\ MaxByte \in Nat /\ MaxSignals \in Nat
  /\ DEFAULT_PIPE_CAPACITY \in Nat /\ DEFAULT_PIPE_CAPACITY >= PIPE_BUF
  /\ \A prg \in Programs : prg \in [Tasks -> Seq(Calls)]

VARIABLES
  ring,      \* PipeRingBuffer
  holders,   \* the tasks that hold each end
  prog,      \* the calls a task has yet to make, the current one first
  at,        \* where in its call a task is
  st,        \* run, block, asleep, awake
  aux,       \* the locals of its call
  token,     \* TCB pending_wakeup
  intr,      \* a signal is pending that interrupts system calls
  toWake,    \* the waiters it has taken and not woken yet
  signals,
  taken,     \* history: the bytes each pipe has handed to consumers
  stream,    \* history: the bytes each pipe was given
  grown      \* history: the capacity grew while these writers were queued

taskVars == <<holders, prog, at, st, aux, token, intr, toWake, signals>>
vars == <<ring, taskVars, taken, stream, grown>>

-----------------------------------------------------------------------------
(* The ring *)

NewRing ==
  [pages |-> <<>>, capacity |-> DEFAULT_PIPE_CAPACITY, head |-> 0, tail |-> 0,
   status |-> "Empty", read_end_open |-> TRUE, write_end_open |-> TRUE,
   read_waiters |-> <<>>, write_waiters |-> <<>>, poll_waiters |-> <<>>]

AvailableRead(r) ==
  IF r.status = "Empty" THEN 0
  ELSE IF r.tail > r.head THEN r.tail - r.head
  ELSE r.tail + r.capacity - r.head

AvailableWrite(r) == IF r.status = "Full" THEN 0 ELSE r.capacity - AvailableRead(r)

\* Pages are a partial function of the page index; a page that is not there
\* reads as zeros.
StoredByte(r, offset) ==
  IF offset \div PAGE_SIZE \in DOMAIN r.pages
  THEN r.pages[offset \div PAGE_SIZE][offset % PAGE_SIZE]
  ELSE 0

\* The pages after the bytes of src were stored at the offsets offs.
Store(pages, offs, src) ==
  LET new == {offs[k] \div PAGE_SIZE : k \in DOMAIN offs}
      old(i, o) == IF i \in DOMAIN pages THEN pages[i][o] ELSE 0
      byte(i, o) == LET here == {k \in DOMAIN offs : offs[k] = i * PAGE_SIZE + o}
                    IN IF here = {} THEN old(i, o) ELSE src[CHOOSE k \in here : TRUE]
  IN [i \in DOMAIN pages \cup new |-> [o \in 0..(PAGE_SIZE - 1) |-> byte(i, o)]]

\* Bug: in a wrapped ring the page where the head stands is taken for read.
ForgetHeadPage(r, idx) ==
  LET start == idx * PAGE_SIZE
      end   == Min({start + PAGE_SIZE, r.capacity})
  IN \/ r.status = "Full"
     \/ /\ r.status = "Normal" /\ start < end
        /\ IF r.head < r.tail THEN start < r.tail /\ end > r.head
                              ELSE start >= r.head \/ start < r.tail

PageContainsReadableData(r, idx) ==
  LET start == idx * PAGE_SIZE
      end   == Min({start + PAGE_SIZE, r.capacity})
  IN \/ r.status = "Full"
     \/ /\ r.status = "Normal" /\ start < end
        /\ IF r.head < r.tail THEN start < r.tail /\ end > r.head
                              ELSE end > r.head \/ start < r.tail

ReclaimConsumedPages(r) ==
  LET kept == {i \in DOMAIN r.pages : PageContainsReadableData(r, i)}
  IN [r EXCEPT !.pages = [i \in kept |-> r.pages[i]]]

ContiguousReadLen(r, head, status) ==
  IF status = "Empty" THEN 0
  ELSE IF r.tail > head THEN r.tail - head
  ELSE r.capacity - head

ContiguousWriteLen(r, tail, status) ==
  IF status = "Full" THEN 0
  ELSE IF tail >= r.head THEN r.capacity - tail
  ELSE r.head - tail

Statuses == {"Full", "Empty", "Normal"}

StatusAfterRead(head, tail)  == IF head = tail THEN "Empty" ELSE "Normal"
StatusAfterWrite(tail, head) == IF tail = head THEN "Full" ELSE "Normal"

\* The loops of read_slice and write_slice.  A turn goes at most to the end of
\* the ring and of a page; the loop is followed by the offsets it copies, in
\* order, with the head (the tail) and the status it leaves.
Loops(r, target) ==
  [pos : 0..(r.capacity - 1), status : Statuses, offs : {o \in Seq(Nat) : Len(o) <= target}]

ReadLoop(r, target) ==
  LET read[x \in Loops(r, target)] ==
        LET len == Min({ContiguousReadLen(r, x.pos, x.status),
                        PAGE_SIZE - (x.pos % PAGE_SIZE), target - Len(x.offs)})
            new == (x.pos + len) % r.capacity
        IN IF len = 0 THEN x
           ELSE read[[pos |-> new, status |-> StatusAfterRead(new, r.tail),
                      offs |-> x.offs \o [k \in 1..len |-> x.pos + k - 1]]]
  IN read[[pos |-> r.head, status |-> r.status, offs |-> <<>>]]

WriteLoop(r, target) ==
  LET write[x \in Loops(r, target)] ==
        LET len == Min({ContiguousWriteLen(r, x.pos, x.status),
                        PAGE_SIZE - (x.pos % PAGE_SIZE), target - Len(x.offs)})
            new == (x.pos + len) % r.capacity
        IN IF len = 0 THEN x
           ELSE write[[pos |-> new, status |-> StatusAfterWrite(new, r.head),
                       offs |-> x.offs \o [k \in 1..len |-> x.pos + k - 1]]]
  IN write[[pos |-> r.tail, status |-> r.status, offs |-> <<>>]]

\* The outcome of the loop of read_slice or peek_slice for n bytes, and of
\* write_slice for n bytes: one value, in a set for \E to name.
Reads(r, n)  == {ReadLoop(r, Min({n, AvailableRead(r)}))}
Writes(r, n) == {WriteLoop(r, Min({n, AvailableWrite(r)}))}

BytesRead(r, loop) == [k \in DOMAIN loop.offs |-> StoredByte(r, loop.offs[k])]

AfterRead(r, loop) ==
  ReclaimConsumedPages([r EXCEPT !.head = loop.pos, !.status = loop.status])

AfterWrite(r, loop, src) ==
  [r EXCEPT !.pages = Store(@, loop.offs, src), !.tail = loop.pos, !.status = loop.status]

DiscardSlice(r, n) ==
  LET len == Min({n, AvailableRead(r)})
      new == (r.head + len) % r.capacity
  IN IF len = 0 THEN r
     ELSE ReclaimConsumedPages([r EXCEPT !.head = new, !.status = StatusAfterRead(new, r.tail)])

\* The bytes that can be read, oldest first.
Content(r) ==
  [i \in 1..AvailableRead(r) |-> StoredByte(r, (r.head + i - 1) % r.capacity)]

\* Bug: the tail of a ring that the copy fills is not wrapped.
UnwrappedTail(len, capacity) == len

NewTail(len, capacity) == len % capacity

\* resize: the bytes are copied one by one to the front of new pages.
ResizeTo(r, n) ==
  LET bytes == Content(r)
      len   == Len(bytes)
      page(i) == [o \in 0..(PAGE_SIZE - 1) |->
                    IF i * PAGE_SIZE + o < len THEN bytes[i * PAGE_SIZE + o + 1] ELSE 0]
  IN [r EXCEPT !.pages = [i \in {j \in 0..len : j * PAGE_SIZE < len} |-> page(i)],
               !.capacity = n, !.head = 0, !.tail = NewTail(len, n),
               !.status = IF len = 0 THEN "Empty" ELSE IF len = n THEN "Full" ELSE "Normal"]

\* close_read_end drops the bytes.
CloseReadEnd(r) ==
  ReclaimConsumedPages([r EXCEPT !.read_end_open = FALSE, !.head = r.tail, !.status = "Empty"])

\* register_waiter: a task is queued once.
Registered(q, t) == IF Contains(q, t) THEN q ELSE Append(q, t)

\* clear_waiter: retain, of a queue that has a task once.
Cleared(q, t) ==
  IF Contains(q, t) THEN RemoveAt(q, CHOOSE i \in DOMAIN q : q[i] = t) ELSE q

TakeWriters(r) == [r EXCEPT !.write_waiters = <<>>, !.poll_waiters = <<>>]
TakeReaders(r) == [r EXCEPT !.read_waiters = <<>>, !.poll_waiters = <<>>]

\* Bug: one writer is woken, and the others are dropped from the queue.
FirstWriter(r) ==
  SubSeq(r.write_waiters, 1, Min({1, Len(r.write_waiters)})) \o r.poll_waiters

Writers(r) == r.write_waiters \o r.poll_waiters
Readers(r) == r.read_waiters \o r.poll_waiters

-----------------------------------------------------------------------------
(* Tasks *)

NoAux == [done |-> 0, room |-> 0, peeked |-> <<>>, i |-> 1, hit |-> FALSE]

\* Where the first call of a program begins.
Entry(pr) ==
  IF pr = <<>> THEN "done"
  ELSE IF Head(pr).op \in {"splice", "drain"} THEN "waitin"
  ELSE IF Head(pr).op = "fill" THEN "waitout"
  ELSE IF Head(pr).op = "poll" THEN "scan"
  ELSE Head(pr).op

Ends(e, pr) == [p \in Pipes |-> {t \in Tasks : \E i \in DOMAIN pr[t] :
                  pr[t][i] = [op |-> "close", pipe |-> p, end |-> e]}]

Init ==
  /\ ring = [p \in Pipes |-> NewRing]
  /\ prog \in Programs
  /\ holders = [r |-> Ends("r", prog), w |-> Ends("w", prog)]
  /\ at = [t \in Tasks |-> Entry(prog[t])]
  /\ st = [t \in Tasks |-> "run"]
  /\ aux = [t \in Tasks |-> NoAux]
  /\ token = [t \in Tasks |-> FALSE]
  /\ intr = [t \in Tasks |-> FALSE]
  /\ toWake = [t \in Tasks |-> <<>>]
  /\ signals = 0
  /\ taken = [p \in Pipes |-> <<>>]
  /\ stream = [p \in Pipes |-> <<>>]
  /\ grown = {}

Call(t) == Head(prog[t])

\* Task t runs at `label', with no wakeup left to make.
Runs(t, label) == st[t] = "run" /\ toWake[t] = <<>> /\ at[t] = label

Goto(t, label) == at' = [at EXCEPT ![t] = label]

\* The call ends; on the way back to user code pending signals are handled.
Return(t) ==
  /\ prog' = [prog EXCEPT ![t] = Tail(@)]
  /\ Goto(t, Entry(Tail(prog[t])))
  /\ aux' = [aux EXCEPT ![t] = NoAux]
  /\ intr' = [intr EXCEPT ![t] = FALSE]

\* A reader that reads to the end makes the same call again.
ReturnSome(t) ==
  IF Call(t).op = "read" /\ Call(t).all
  THEN intr' = [intr EXCEPT ![t] = FALSE] /\ UNCHANGED <<prog, at, aux>>
  ELSE Return(t)

Stay(t) == UNCHANGED <<prog, at, aux, intr>>

Wake(t, q) == toWake' = [toWake EXCEPT ![t] = q]

\* What no step inside a critical section of the ring changes.
RingStep == UNCHANGED <<holders, st, token, signals, grown>>

-----------------------------------------------------------------------------
(* read, and the waits of splice for a pipe to read from *)

Reading == {"read", "waitin"}

ReadData(t) ==
  /\ Runs(t, "read")
  /\ LET p == Call(t).pipe
     IN \E loop \in Reads(ring[p], Call(t).n) :
          /\ loop.offs # <<>>
          /\ ring' = [ring EXCEPT ![p] = TakeWriters(AfterRead(@, loop))]
          /\ taken' = [taken EXCEPT ![p] = @ \o BytesRead(ring[p], loop)]
          /\ Wake(t, Writers(ring[p]))
  /\ ReturnSome(t)
  /\ RingStep /\ UNCHANGED stream

\* Empty with no writer left: end of file.  Splice stops there too.
ReadEof(t) ==
  /\ at[t] \in Reading /\ Runs(t, at[t])
  /\ LET p == Call(t).pipe
     IN /\ AvailableRead(ring[p]) = 0 /\ ~ring[p].write_end_open
        /\ ring' = [ring EXCEPT ![p].poll_waiters = <<>>]
        /\ Wake(t, ring[p].poll_waiters)
  /\ Return(t)
  /\ RingStep /\ UNCHANGED <<taken, stream>>

\* EAGAIN.
ReadAgain(t) ==
  /\ at[t] \in Reading /\ Runs(t, at[t])
  /\ LET r == ring[Call(t).pipe]
     IN AvailableRead(r) = 0 /\ r.write_end_open /\ Call(t).nonblock
  /\ Return(t)
  /\ RingStep /\ UNCHANGED <<ring, toWake, taken, stream>>

RegisterReader(t) ==
  /\ at[t] \in Reading /\ Runs(t, at[t])
  /\ LET p == Call(t).pipe
         r == ring[p]
     IN /\ AvailableRead(r) = 0 /\ r.write_end_open /\ ~Call(t).nonblock
        /\ ring' = [ring EXCEPT ![p].read_waiters = Registered(@, t)]
  /\ st' = [st EXCEPT ![t] = "block"]
  /\ Stay(t)
  /\ UNCHANGED <<holders, token, toWake, signals, taken, stream, grown>>

-----------------------------------------------------------------------------
(* write, and the waits of splice for a pipe to write to *)

Writing == {"write", "writev", "waitout"}

OutPipe(t) == IF Call(t).op \in {"splice", "fill"} THEN Call(t).out ELSE Call(t).pipe

\* Bug: a small write goes in as far as there is room.
MustWaitFull(r, label, want) == AvailableWrite(r) = 0

\* A write inside one page (write_user_slice) waits until all of it fits; one
\* across pages, and splice, for any room at all.
MustWait(r, label, want) ==
  \/ AvailableWrite(r) = 0
  \/ label = "write" /\ want <= PIPE_BUF /\ AvailableWrite(r) < want

\* EPIPE.
WritePipe(t) ==
  /\ at[t] \in Writing /\ Runs(t, at[t])
  /\ ~ring[OutPipe(t)].read_end_open
  /\ Return(t)
  /\ RingStep /\ UNCHANGED <<ring, toWake, taken, stream>>

Want(t) == IF Call(t).op \in {"write", "writev"} THEN Len(Call(t).data) - aux[t].done ELSE 1

\* EAGAIN, or the count of a write that has begun.
WriteAgain(t) ==
  /\ at[t] \in Writing /\ Runs(t, at[t])
  /\ LET r == ring[OutPipe(t)]
     IN r.read_end_open /\ MustWait(r, at[t], Want(t)) /\ Call(t).nonblock
  /\ Return(t)
  /\ RingStep /\ UNCHANGED <<ring, toWake, taken, stream>>

RegisterWriter(t) ==
  /\ at[t] \in Writing /\ Runs(t, at[t])
  /\ LET p == OutPipe(t)
     IN /\ ring[p].read_end_open
        /\ MustWait(ring[p], at[t], Want(t)) /\ ~Call(t).nonblock
        /\ ring' = [ring EXCEPT ![p].write_waiters = Registered(@, t)]
  /\ st' = [st EXCEPT ![t] = "block"]
  /\ Stay(t)
  /\ UNCHANGED <<holders, token, toWake, signals, taken, stream, grown>>

\* Bug: only a write that has ended wakes the readers.
WakeAtEnd(r, ended) == IF ended THEN Readers(r) ELSE <<>>

\* Readers are woken after every section that stored bytes, for a write larger
\* than the pipe would wait for them forever.
WakeAfterWrite(r, ended) == Readers(r)

\* A write inside one page returns what went in; one across pages goes on
\* until all of it has.
WriteData(t) ==
  /\ at[t] \in {"write", "writev"} /\ Runs(t, at[t])
  /\ LET p   == Call(t).pipe
         src == SubSeq(Call(t).data, aux[t].done + 1, Len(Call(t).data))
     IN /\ ring[p].read_end_open
        /\ ~MustWait(ring[p], at[t], Len(src))
        /\ \E loop \in Writes(ring[p], Len(src)) :
             LET n     == Len(loop.offs)
                 ended == at[t] = "write" \/ n = Len(src)
                 new   == AfterWrite(ring[p], loop, src)
                 woken == WakeAfterWrite(ring[p], ended)
             IN /\ ring' = [ring EXCEPT ![p] = IF woken = <<>> THEN new ELSE TakeReaders(new)]
                /\ stream' = [stream EXCEPT ![p] = @ \o SubSeq(src, 1, n)]
                /\ Wake(t, woken)
                /\ IF ended
                   THEN Return(t)
                   ELSE /\ aux' = [aux EXCEPT ![t].done = @ + n]
                        /\ UNCHANGED <<prog, at, intr>>
  /\ RingStep /\ UNCHANGED taken

-----------------------------------------------------------------------------
(* splice *)

\* wait_readable found bytes.  What they are for is decided later, after the
\* lock is released: a file takes no more than the bytes seen here.
SpliceReadable(t) ==
  /\ Runs(t, "waitin")
  /\ LET n == AvailableRead(ring[Call(t).pipe])
     IN /\ n > 0
        /\ aux' = [aux EXCEPT ![t].room =
                     IF Call(t).op = "drain" THEN Min({n, Call(t).n}) ELSE n]
  /\ Goto(t, IF Call(t).op = "drain" THEN "peek" ELSE "waitout")
  /\ RingStep /\ UNCHANGED <<ring, prog, intr, toWake, taken, stream>>

\* wait_writable found room.
SpliceWritable(t) ==
  /\ Runs(t, "waitout")
  /\ LET r == ring[Call(t).out]
         n == AvailableWrite(r)
     IN /\ r.read_end_open /\ n > 0
        /\ aux' = [aux EXCEPT ![t].room =
             IF Call(t).op = "fill"
             THEN Min({n, Len(Call(t).data) - aux[t].done, SPLICE_CHUNK_SIZE})
             ELSE Min({n, @, Call(t).n - aux[t].done, SPLICE_CHUNK_SIZE})]
  /\ Goto(t, IF Call(t).op = "fill" THEN "store" ELSE "transfer")
  /\ RingStep /\ UNCHANGED <<ring, prog, intr, toWake, taken, stream>>

\* transfer_to: both rings are locked, in the order of their addresses, and as
\* much is moved as is there now.  Nothing to move: wait again.
Transfer(t) ==
  /\ Runs(t, "transfer")
  /\ LET p == Call(t).pipe
         q == Call(t).out
     IN \/ /\ ~ring[q].read_end_open
           /\ Return(t) /\ UNCHANGED <<ring, toWake, taken, stream>>
        \/ /\ ring[q].read_end_open
           /\ Min({AvailableRead(ring[p]), AvailableWrite(ring[q])}) = 0
           /\ Goto(t, "waitin")
           /\ UNCHANGED <<ring, prog, aux, intr, toWake, taken, stream>>
        \/ /\ ring[q].read_end_open
           /\ \E peek \in Reads(ring[p], Min({aux[t].room, AvailableWrite(ring[q])})) :
              \E bytes \in {BytesRead(ring[p], peek)} :
              \E loop \in Writes(ring[q], Len(bytes)) :
                /\ bytes # <<>>
                /\ ring' = [ring EXCEPT ![p] = TakeWriters(DiscardSlice(@, Len(bytes))),
                                        ![q] = TakeReaders(AfterWrite(@, loop, bytes))]
                /\ taken' = [taken EXCEPT ![p] = @ \o bytes]
                /\ stream' = [stream EXCEPT ![q] = @ \o bytes]
                /\ Wake(t, Writers(ring[p]) \o Readers(ring[q]))
                /\ IF Len(bytes) < aux[t].room \/ aux[t].done + Len(bytes) >= Call(t).n
                   THEN Return(t)
                   ELSE /\ aux' = [aux EXCEPT ![t].done = @ + Len(bytes)]
                        /\ Goto(t, "waitin")
                        /\ UNCHANGED <<prog, intr>>
  /\ RingStep

\* A file to a pipe: the bytes read from it go in as far as they fit now.
SpliceStore(t) ==
  /\ Runs(t, "store")
  /\ LET q   == Call(t).out
         src == SubSeq(Call(t).data, aux[t].done + 1, aux[t].done + aux[t].room)
     IN \/ /\ ~ring[q].read_end_open
           /\ Return(t) /\ UNCHANGED <<ring, toWake, stream>>
        \/ /\ ring[q].read_end_open
           /\ \E loop \in Writes(ring[q], Len(src)) :
                LET n    == Len(loop.offs)
                    done == aux[t].done + n
                IN /\ ring' = [ring EXCEPT ![q] = IF n > 0 THEN TakeReaders(AfterWrite(@, loop, src)) ELSE @]
                   /\ stream' = [stream EXCEPT ![q] = @ \o SubSeq(src, 1, n)]
                   /\ Wake(t, IF n > 0 THEN Readers(ring[q]) ELSE <<>>)
                   /\ IF n < Len(src) \/ done = Len(Call(t).data)
                      THEN Return(t)
                      ELSE /\ aux' = [aux EXCEPT ![t].done = done]
                           /\ Goto(t, "waitout")
                           /\ UNCHANGED <<prog, intr>>
  /\ RingStep /\ UNCHANGED taken

\* A pipe to a file: the bytes are peeked, written to the file with the ring
\* unlocked, and only then taken out of the pipe.
SplicePeek(t) ==
  /\ Runs(t, "peek")
  /\ LET r == ring[Call(t).pipe]
     IN \E loop \in Reads(r, Min({aux[t].room - aux[t].done, SPLICE_CHUNK_SIZE})) :
          IF loop.offs = <<>>
          THEN Return(t)
          ELSE /\ aux' = [aux EXCEPT ![t].peeked = BytesRead(r, loop)]
               /\ Goto(t, "discard")
               /\ UNCHANGED <<prog, intr>>
  /\ RingStep /\ UNCHANGED <<ring, toWake, taken, stream>>

SpliceDiscard(t) ==
  /\ Runs(t, "discard")
  /\ LET p    == Call(t).pipe
         n    == Min({Len(aux[t].peeked), AvailableRead(ring[p])})
         done == aux[t].done + n
     IN /\ ring' = [ring EXCEPT ![p] = IF n > 0 THEN TakeWriters(DiscardSlice(@, n)) ELSE @]
        /\ taken' = [taken EXCEPT ![p] = @ \o aux[t].peeked]
        /\ Wake(t, IF n > 0 THEN Writers(ring[p]) ELSE <<>>)
        /\ IF n < Len(aux[t].peeked) \/ done >= aux[t].room
           THEN Return(t)
           ELSE /\ aux' = [aux EXCEPT ![t].done = done, ![t].peeked = <<>>]
                /\ Goto(t, "peek")
                /\ UNCHANGED <<prog, intr>>
  /\ RingStep /\ UNCHANGED stream

-----------------------------------------------------------------------------
(* ppoll without a timeout *)

\* check_file_ready, and the hang-up and error conditions ppoll adds.
IsReady(fd) ==
  LET r == ring[fd.pipe]
  IN IF fd.end = "r" THEN AvailableRead(r) > 0 \/ ~r.write_end_open
                     ELSE AvailableWrite(r) > 0 \/ ~r.read_end_open

Fd(t)     == Call(t).fds[aux[t].i]
LastFd(t) == aux[t].i = Len(Call(t).fds)
NextFd(t) == aux' = [aux EXCEPT ![t].i = @ + 1]
FirstFd(t) == aux' = [aux EXCEPT ![t].i = 1, ![t].hit = FALSE]

\* The first scan looks at every descriptor.
PollScan(t) ==
  /\ Runs(t, "scan")
  /\ LET hit == aux[t].hit \/ IsReady(Fd(t))
     IN IF ~LastFd(t)
        THEN /\ aux' = [aux EXCEPT ![t].i = @ + 1, ![t].hit = hit]
             /\ UNCHANGED <<prog, at, intr>>
        ELSE IF hit THEN Return(t)
        ELSE FirstFd(t) /\ Goto(t, "enlist") /\ UNCHANGED <<prog, intr>>
  /\ RingStep /\ UNCHANGED <<ring, toWake, taken, stream>>

PollRegister(t) ==
  /\ Runs(t, "enlist")
  /\ ring' = [ring EXCEPT ![Fd(t).pipe].poll_waiters = Registered(@, t)]
  /\ IF LastFd(t) THEN FirstFd(t) /\ Goto(t, "rescan") ELSE NextFd(t) /\ UNCHANGED at
  /\ RingStep /\ UNCHANGED <<prog, intr, toWake, taken, stream>>

\* Bug: what was found not ready before the registration is not looked at again.
TrustFirstScan(fd) == FALSE

RescanReady(fd) == IsReady(fd)

\* The second scan stops at the first descriptor that is ready, and starts
\* over.  If none is, a pending signal ends the call; else the task blocks.
PollRescan(t) ==
  /\ Runs(t, "rescan")
  /\ \/ /\ RescanReady(Fd(t))
        /\ FirstFd(t) /\ Goto(t, "delist ready") /\ UNCHANGED st
     \/ /\ ~RescanReady(Fd(t)) /\ ~LastFd(t)
        /\ NextFd(t) /\ UNCHANGED <<at, st>>
     \/ /\ ~RescanReady(Fd(t)) /\ LastFd(t)
        /\ FirstFd(t) /\ Goto(t, "delist")
        /\ st' = [st EXCEPT ![t] = IF intr[t] THEN "run" ELSE "block"]
  /\ UNCHANGED <<ring, holders, prog, token, intr, toWake, signals, taken, stream, grown>>

PollClear(t) ==
  /\ at[t] \in {"delist", "delist ready"} /\ Runs(t, at[t])
  /\ ring' = [ring EXCEPT ![Fd(t).pipe].poll_waiters = Cleared(@, t)]
  /\ IF ~LastFd(t) THEN NextFd(t) /\ UNCHANGED <<prog, at, intr>>
     ELSE IF at[t] = "delist" /\ intr[t] THEN Return(t)
     ELSE FirstFd(t) /\ Goto(t, "scan") /\ UNCHANGED <<prog, intr>>
  /\ RingStep /\ UNCHANGED <<toWake, taken, stream>>

-----------------------------------------------------------------------------
(* close, F_SETPIPE_SZ, sleep and wakeup *)

\* Drop for Pipe, when the last holder closes.
Close(t) ==
  /\ Runs(t, "close")
  /\ LET p    == Call(t).pipe
         e    == Call(t).end
         last == holders[e][p] = {t}
     IN /\ holders' = [holders EXCEPT ![e][p] = @ \ {t}]
        /\ ring' = [ring EXCEPT ![p] =
                      IF ~last THEN @
                      ELSE IF e = "r" THEN TakeWriters(CloseReadEnd(@))
                      ELSE TakeReaders([@ EXCEPT !.write_end_open = FALSE])]
        /\ Wake(t, IF ~last THEN <<>> ELSE IF e = "r" THEN Writers(ring[p]) ELSE Readers(ring[p]))
  /\ Return(t)
  /\ UNCHANGED <<st, token, signals, taken, stream, grown>>

\* set_pipe_capacity: EBUSY if the bytes do not fit.  Writers that wait for
\* room are not woken.
Resize(t) ==
  /\ Runs(t, "resize")
  /\ LET p   == Call(t).pipe
         new == Max({Call(t).n, PIPE_BUF})
     IN IF new < AvailableRead(ring[p])
        THEN UNCHANGED <<ring, grown>>
        ELSE /\ ring' = [ring EXCEPT ![p] = ResizeTo(@, new)]
             /\ grown' = IF new > ring[p].capacity
                         THEN grown \cup ToSet(Writers(ring[p])) ELSE grown
  /\ Return(t)
  /\ UNCHANGED <<holders, st, token, toWake, signals, taken, stream>>

Block(t) ==
  /\ st[t] = "block"
  /\ st' = [st EXCEPT ![t] = IF token[t] THEN "awake" ELSE "asleep"]
  /\ token' = [token EXCEPT ![t] = FALSE]
  /\ UNCHANGED <<ring, holders, prog, at, aux, intr, toWake, signals, taken, stream, grown>>

\* After the sleep: a signal ends the call (poll leaves the queues first),
\* anything else is a reason to look again.
Awake(t) ==
  /\ st[t] = "awake"
  /\ st' = [st EXCEPT ![t] = "run"]
  /\ grown' = grown \ {t}
  /\ IF intr[t] /\ at[t] # "delist" THEN Return(t) ELSE Stay(t)
  /\ UNCHANGED <<ring, holders, token, toWake, signals, taken, stream>>

\* wakeup_task
Wakeup(t) ==
  /\ st' = [st EXCEPT ![t] = IF @ = "asleep" THEN "awake" ELSE @]
  /\ token' = [token EXCEPT ![t] = @ \/ (st[t] # "asleep" /\ at[t] # "done")]

\* wake_waiter_queue, after the ring is unlocked.
WakeNext(t) ==
  /\ toWake[t] # <<>>
  /\ Wakeup(Head(toWake[t]))
  /\ toWake' = [toWake EXCEPT ![t] = Tail(@)]
  /\ UNCHANGED <<ring, holders, prog, at, aux, intr, signals, taken, stream, grown>>

Signal(t) ==
  /\ signals < MaxSignals /\ at[t] # "done"
  /\ signals' = signals + 1
  /\ intr' = [intr EXCEPT ![t] = TRUE]
  /\ Wakeup(t)
  /\ UNCHANGED <<ring, holders, prog, at, aux, toWake, taken, stream, grown>>

Step(t) ==
  \/ ReadData(t) \/ ReadEof(t) \/ ReadAgain(t) \/ RegisterReader(t)
  \/ WritePipe(t) \/ WriteAgain(t) \/ RegisterWriter(t) \/ WriteData(t)
  \/ SpliceReadable(t) \/ SpliceWritable(t) \/ Transfer(t) \/ SpliceStore(t)
  \/ SplicePeek(t) \/ SpliceDiscard(t)
  \/ PollScan(t) \/ PollRegister(t) \/ PollRescan(t) \/ PollClear(t)
  \/ Close(t) \/ Resize(t) \/ Block(t) \/ Awake(t) \/ WakeNext(t)

Next == \E t \in Tasks : Step(t) \/ Signal(t)

Spec == Init /\ [][Next]_vars

\* A task that can run does: the scheduler strands no runnable task.
FairSpec == Spec /\ \A t \in Tasks : WF_vars(Step(t))

-----------------------------------------------------------------------------
(* Properties *)

WaiterQueue == {q \in Seq(Tasks) : IsInjective(q)}

IsRing(r) ==
  /\ r.capacity \in Nat /\ r.capacity >= PIPE_BUF
  /\ r.head \in 0..(r.capacity - 1) /\ r.tail \in 0..(r.capacity - 1)
  /\ r.status \in Statuses
  /\ r.status # "Normal" <=> r.head = r.tail
  /\ \A i \in DOMAIN r.pages : /\ i * PAGE_SIZE < r.capacity
                               /\ r.pages[i] \in [0..(PAGE_SIZE - 1) -> Bytes]
  /\ {r.read_end_open, r.write_end_open} \subseteq BOOLEAN
  /\ {r.read_waiters, r.write_waiters, r.poll_waiters} \subseteq WaiterQueue

\* Types, and the shape of a ring (PipeRingBuffer): head and tail stay inside
\* the capacity that F_SETPIPE_SZ last set, and meet only when the ring is full
\* or empty, as the status says.
TypeOK ==
  /\ \A p \in Pipes : IsRing(ring[p])
  /\ \A t \in Tasks : st[t] \in {"run", "block", "asleep", "awake"}
  /\ token \in [Tasks -> BOOLEAN] /\ intr \in [Tasks -> BOOLEAN]
  /\ \A t \in Tasks : toWake[t] \in Seq(Tasks)
  /\ signals \in 0..MaxSignals

\* Some task has t among the waiters it is about to wake.
WakeComing(t) == \E u \in Tasks : Contains(toWake[u], t)

\* A reader (read, or splice in wait_readable) does not sleep while its pipe has
\* bytes or has lost its last writer, unless the task that changed this is
\* about to wake it: the registration under the ring lock and the wakeup after
\* it leave no gap.
NoSleepOverData ==
  \A t \in Tasks :
    st[t] = "asleep" /\ at[t] \in Reading =>
      LET r == ring[Call(t).pipe]
      IN (AvailableRead(r) = 0 /\ r.write_end_open) \/ WakeComing(t)

\* A writer does not sleep while what it waits for fits, or while nobody is left
\* to read.  One exception is the code's own: set_pipe_capacity makes room
\* without a wakeup, so writers queued then sleep until the next read.
NoSleepOverRoom ==
  \A t \in Tasks :
    st[t] = "asleep" /\ at[t] \in Writing =>
      LET r == ring[OutPipe(t)]
      IN \/ r.read_end_open /\ MustWait(r, at[t], Want(t))
         \/ WakeComing(t) \/ t \in grown

\* ppoll does not sleep with a descriptor ready: an event that falls between its
\* first scan and its registration is seen by the second scan, a later one
\* finds it registered (same exception).
NoPollOverEvent ==
  \A t \in Tasks :
    st[t] = "asleep" /\ at[t] = "delist" =>
      \/ \A i \in DOMAIN Call(t).fds : ~IsReady(Call(t).fds[i])
      \/ WakeComing(t) \/ t \in grown

SmallWrites ==
  LET made(pr) == UNION {ToSet(pr[t]) : t \in Tasks}
  IN {c \in UNION {made(pr) : pr \in Programs} : c.op = "write"}

\* A write of at most PIPE_BUF bytes inside one page enters the pipe as a whole,
\* however many writers and splices share it.
SmallWriteWhole ==
  \A c \in SmallWrites : \A k \in DOMAIN stream[c.pipe] : \A j \in DOMAIN c.data :
    stream[c.pipe][k] = c.data[j] =>
      /\ k >= j /\ k - j + Len(c.data) <= Len(stream[c.pipe])
      /\ SubSeq(stream[c.pipe], k - j + 1, k - j + Len(c.data)) = c.data

\* The ring of pages is a bounded FIFO: every step of fs/pipe.rs and of splice is
\* a step of PipeFifo or changes nothing it can see.
Fifo == INSTANCE PipeFifo WITH
  content   <- [p \in Pipes |-> Content(ring[p])],
  capacity  <- [p \in Pipes |-> ring[p].capacity],
  readOpen  <- [p \in Pipes |-> ring[p].read_end_open],
  writeOpen <- [p \in Pipes |-> ring[p].write_end_open]

ImplementsFifo == Fifo!Spec

Consumes(c, p) == c.op \in {"read", "splice", "drain"} /\ c.pipe = p
ReadClose(p)   == [op |-> "close", pipe |-> p, end |-> "r"]

\* Who splices a pipe to a file is the only one to take bytes from it, and keeps
\* its read end until then: nobody else comes between the peek and the discard.
SoleDrain(pr) ==
  \A t \in Tasks : \A i \in DOMAIN pr[t] :
    pr[t][i].op = "drain" =>
      /\ \E j \in DOMAIN pr[t] : pr[t][j] = ReadClose(pr[t][i].pipe)
      /\ \A j \in 1..i : pr[t][j] # ReadClose(pr[t][i].pipe)
      /\ \A u \in Tasks \ {t} : \A j \in DOMAIN pr[u] : ~Consumes(pr[u][j], pr[t][i].pipe)

\* Readers and writers of one pipe never wait for each other forever: programs
\* that read to the end of file and close what they hold all end.
AllFinish == <>(\A t \in Tasks : at[t] = "done")
=============================================================================
