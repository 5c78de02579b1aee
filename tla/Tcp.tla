-------------------------------- MODULE Tcp ---------------------------------
(***************************************************************************)
(* One TCP connection between a client and a server socket of socket/      *)
(* tcp.rs: handshake, tracked sending, acknowledgement, retransmission and *)
(* its give-up, reassembly, half-close and close (socket/mod.rs), path-MTU *)
(* feedback, and the reset of unmatched segments (net/tcp.rs).             *)
(*                                                                         *)
(* net is the set of all segments ever sent, and any of them may be        *)
(* delivered at any time: a segment is lost when it is never delivered,    *)
(* repeated when it is delivered again, and reordered when a later one is  *)
(* delivered first.  One step is one critical section of a socket's lock   *)
(* with the replies computed in it (they leave after the unlock, which     *)
(* only delays them); a tracked data segment leaves in a step of its own,  *)
(* which may fail.  Sequence numbers are modulo SeqSpace, as u32 is modulo *)
(* 2^32.  The n-th byte an endpoint sends is the number n.  One thread of  *)
(* each application uses its socket.                                       *)
(*                                                                         *)
(* Blocking receive and connect yield and look again, so their wakers are  *)
(* hints and are left out.                                                 *)
(***************************************************************************)
EXTENDS Integers, FiniteSets, SequencesExt

CONSTANTS
  Client, Server,
  SeqSpace,                         \* 2^32
  Iss,                            \* initial sequence number of each endpoint
  TCP_MAX_RETRIES,
  TCP_SEND_WINDOW_SEGMENTS,
  TCP_MAX_RETRANSMIT_SEGMENTS,
  TCP_MAX_OUT_OF_ORDER_SEGMENTS,
  Scenarios                       \* calls of the two applications, first mss (the
                                  \* path MTU may shrink once, to mss 1), and how
                                  \* many timeouts and failures of
                                  \* tcp_send_segment may happen

Ends == {Client, Server}

\* "connecting" is a connect that waits in its loop.
Calls == [op : {"connect", "connect_nonblock", "connecting", "accept", "read", "shutdown", "close"}]
         \cup [op : {"send"}, n : Nat]

\* The descriptor is gone after close.
CloseIsLast(calls) == \A i \in DOMAIN calls : calls[i].op = "close" => i = Len(calls)

ASSUME TcpAssumption ==
  /\ Client # Server
  /\ SeqSpace \in Nat /\ SeqSpace > 1 /\ Iss \in [Ends -> 0..(SeqSpace - 1)]
  /\ TCP_MAX_RETRIES \in Nat
  /\ TCP_SEND_WINDOW_SEGMENTS \in Nat \ {0}
  /\ TCP_MAX_RETRANSMIT_SEGMENTS \in Nat
  /\ TCP_MAX_RETRANSMIT_SEGMENTS > TCP_SEND_WINDOW_SEGMENTS
  /\ TCP_MAX_OUT_OF_ORDER_SEGMENTS \in Nat
  /\ Scenarios \subseteq [calls : [Ends -> Seq(Calls)], mss : Nat \ {0},
                          timeouts : Nat, failures : Nat]
  /\ \A x \in Scenarios : \A e \in Ends : CloseIsLast(x.calls[e])

VARIABLES
  sock,       \* TcpSocket of each end
  listening,  \* the server's listener is registered
  net,        \* the segments sent so far
  mss,        \* tcp_mss_for_dst
  prog,       \* the calls an application has yet to make
  left,       \* bytes of the current send call not yet tracked
  sending,    \* the segment that send_tracked has tracked and is sending
  failures,   \* of tcp_send_segment yet to come
  timeouts,   \* yet to come
  unsent,     \* history: sending, as long as it has not left by a retransmission
  sent,       \* history: bytes whose send has not failed
  got,        \* history: bytes the application has read
  escaped,    \* history: a segment whose send failed is in the network
  aborted     \* history: ends whose connection was reset, given up or cut off

appVars == <<prog, left, sending, unsent>>
faults == <<failures, timeouts>>
fate == <<escaped, aborted>>
vars == <<sock, listening, net, mss, appVars, faults, sent, got, fate>>

States == {"Open", "SynSent", "SynReceived", "Established", "FinWait1",
           "FinWait2", "CloseWait", "LastAck", "Closed"}

Peer(e) == CHOOSE x \in Ends : x # e

-----------------------------------------------------------------------------
(* Sequence numbers and queues *)

Seqs == 0..(SeqSpace - 1)

Add(a, n) == (a + n) % SeqSpace

\* Bug: compared as plain integers.
SeqBeforeUnwrapped(x, y) == x < y

\* seq_before: the wrapped difference is negative.
SeqBefore(x, y) == (x - y) % SeqSpace >= SeqSpace \div 2

SeqAfter(x, y) == SeqBefore(y, x)

SegmentEndSeq(g) == Add(g.seq, Len(g.data) + Cardinality(g.flags \cap {"SYN", "FIN"}))

\* track_segment: the oldest segment makes room in a full queue.
Track(q, g) ==
  Append(IF Len(q) >= TCP_MAX_RETRANSMIT_SEGMENTS THEN Tail(q) ELSE q,
         [seg |-> g, retries |-> 0, needs |-> FALSE])

\* VecDeque::retain: what q has at the positions I.
Retain(q, I) ==
  LET keep[k \in 0..Len(q)] ==
        IF k = 0 THEN <<>> ELSE IF k \in I THEN Append(keep[k - 1], q[k]) ELSE keep[k - 1]
  IN keep[Len(q)]

\* ack_retransmit_queue: what ends beyond the acknowledgement stays.
AckRetransmitQueue(q, ack) ==
  Retain(q, {i \in DOMAIN q : SeqAfter(SegmentEndSeq(q[i].seg), ack)})

\* untrack_segment
Untrack(q, seq) == Retain(q, {i \in DOMAIN q : q[i].seg.seq # seq})

\* Bug: out-of-order segments are queued as they come.
InsertLast(q, seq, data) == Append(q, [seq |-> seq, data |-> data])

\* insert_out_of_order: sorted by sequence number, no exact repeat, bounded.
InsertOutOfOrder(q, seq, data) ==
  LET later == {i \in DOMAIN q : SeqBefore(seq, q[i].seq)}
      pos   == Min(later \cup {Len(q) + 1})
  IN IF \/ \E i \in DOMAIN q : q[i].seq = seq /\ Len(q[i].data) = Len(data)
        \/ Len(q) >= TCP_MAX_OUT_OF_ORDER_SEGMENTS
     THEN q
     ELSE InsertAt(q, pos, [seq |-> seq, data |-> data])

\* The bytes of data, which starts at seq, that recv_seq has not passed.
Trimmed(seq, data, recv) == SubSeq(data, ((recv - seq) % SeqSpace) + 1, Len(data))

\* take_next_out_of_order: drop what is stale, deliver what has become due, stop
\* at the first that is still ahead.
DrainTurn(acc, g) ==
  IF acc.stop THEN [acc EXCEPT !.rest = Append(@, g)]
  ELSE IF ~SeqAfter(Add(g.seq, Len(g.data)), acc.recv) THEN acc
  ELSE IF SeqAfter(g.seq, acc.recv) THEN [acc EXCEPT !.stop = TRUE, !.rest = Append(@, g)]
  ELSE LET new == Trimmed(g.seq, g.data, acc.recv)
       IN [acc EXCEPT !.recv = Add(@, Len(new)), !.queue = @ \o new]

\* drain_out_of_order, from the front of the queue.
DrainOutOfOrder(s) ==
  LET q == s.out_of_order_queue
      drain[k \in 0..Len(q)] ==
        IF k = 0 THEN [recv |-> s.recv_seq, queue |-> s.receive_queue, rest |-> <<>>, stop |-> FALSE]
                 ELSE DrainTurn(drain[k - 1], q[k])
      done == drain[Len(q)]
  IN [s EXCEPT !.recv_seq = done.recv, !.receive_queue = done.queue,
               !.out_of_order_queue = done.rest]

\* Bug: bytes that were received before are delivered again.
UntrimmedPayload(seq, data, recv) == data

NewPayload(seq, data, recv) == Trimmed(seq, data, recv)

\* ingest_payload
IngestPayload(s, seq, data) ==
  IF data = <<>> THEN s
  ELSE IF SeqAfter(seq, s.recv_seq)
       THEN [s EXCEPT !.out_of_order_queue = InsertOutOfOrder(@, seq, data)]
  ELSE IF ~SeqAfter(Add(seq, Len(data)), s.recv_seq) THEN s
  ELSE LET new == NewPayload(seq, data, s.recv_seq)
       IN DrainOutOfOrder([s EXCEPT !.recv_seq = Add(@, Len(new)), !.receive_queue = @ \o new])

-----------------------------------------------------------------------------
(* Sockets and segments *)

NoFin == SeqSpace

NewSocket(e) ==
  [state |-> "Open", send_seq |-> Iss[e], recv_seq |-> 0, receive_queue |-> <<>>,
   out_of_order_queue |-> <<>>, retransmit_queue |-> <<>>, so_error |-> "none",
   pending_fin_seq |-> NoFin, registered |-> FALSE]

Segment(to, seq, ack, flags, data) ==
  [to |-> to, seq |-> seq, ack |-> ack, flags |-> flags, data |-> data]

\* An empty acknowledgement of all that socket s has received.
AckOf(e, s) == Segment(Peer(e), s.send_seq, s.recv_seq, {"ACK"}, <<>>)

NoSegment == Segment(Client, 0, 0, {}, <<>>)

Init ==
  /\ sock = [e \in Ends |-> NewSocket(e)]
  /\ listening = TRUE
  /\ net = {}
  /\ \E x \in Scenarios :
       /\ prog = x.calls /\ mss = x.mss
       /\ failures = x.failures /\ timeouts = x.timeouts
  /\ left = [e \in Ends |-> 0]
  /\ sending = [e \in Ends |-> NoSegment]
  /\ unsent = [e \in Ends |-> NoSegment]
  /\ sent = [e \in Ends |-> 0]
  /\ got = [e \in Ends |-> <<>>]
  /\ escaped = FALSE /\ aborted = {}

At(e, op) ==
  /\ prog[e] # <<>> /\ Head(prog[e]).op = op
  /\ left[e] = 0 /\ sending[e] = NoSegment

NextCall(e) == prog' = [prog EXCEPT ![e] = Tail(@)]

SetSock(e, s) == sock' = [sock EXCEPT ![e] = s]

\* neighbour_output puts a packet in the queue of its neighbour before arp_request,
\* which may fail: the caller has its error, and the packet leaves when the address
\* is known.
Queued(queued, g) == IF queued THEN net \cup {g} ELSE net

-----------------------------------------------------------------------------
(* The applications *)

Syn == Segment(Server, sock[Client].send_seq, 0, {"SYN"}, <<>>)

\* do_connect_setup: registered, SYN tracked and sent.  connect then waits.
Connect ==
  /\ At(Client, "connect") \/ At(Client, "connect_nonblock")
  /\ sock[Client].state = "Open"
  /\ SetSock(Client, [sock[Client] EXCEPT !.state = "SynSent", !.registered = TRUE,
                        !.send_seq = Add(@, 1), !.retransmit_queue = Track(@, Syn)])
  /\ net' = net \cup {Syn}
  /\ IF Head(prog[Client]).op = "connect"
     THEN prog' = [prog EXCEPT ![Client][1] = [op |-> "connecting"]]
     ELSE NextCall(Client)
  /\ UNCHANGED <<listening, mss, left, sending, unsent, faults, sent, got, fate>>

\* tcp_send_segment fails: the SYN is untracked, and the call returns ENETUNREACH
\* with the socket registered.  The SYN may leave later (Queued).
ConnectFail ==
  /\ At(Client, "connect") \/ At(Client, "connect_nonblock")
  /\ sock[Client].state = "Open"
  /\ failures > 0
  /\ failures' = failures - 1
  /\ SetSock(Client, [sock[Client] EXCEPT !.state = "SynSent", !.registered = TRUE,
                                          !.send_seq = Add(@, 1)])
  /\ \E queued \in BOOLEAN : net' = Queued(queued, Syn)
  /\ NextCall(Client)
  /\ UNCHANGED <<listening, mss, left, sending, unsent, timeouts, sent, got, fate>>

\* EISCONN
ConnectAgain ==
  /\ At(Client, "connect") \/ At(Client, "connect_nonblock")
  /\ sock[Client].state # "Open"
  /\ NextCall(Client)
  /\ UNCHANGED <<sock, listening, net, mss, left, sending, unsent, faults, sent, got, fate>>

\* connect returns: established, or the error of a connection that has ended.
ConnectDone ==
  /\ At(Client, "connecting") /\ sock[Client].state \in {"Established", "Closed"}
  /\ SetSock(Client, IF sock[Client].state = "Closed"
                     THEN [sock[Client] EXCEPT !.so_error = "none"] ELSE sock[Client])
  /\ NextCall(Client)
  /\ UNCHANGED <<listening, net, mss, left, sending, unsent, faults, sent, got, fate>>

\* connect gives up after TCP_CONNECT_TIMEOUT_US, whatever has become of the socket
\* since its loop looked.
ConnectTimeout ==
  /\ At(Client, "connecting") /\ sock[Client].state # "Open"
  /\ timeouts > 0 /\ timeouts' = timeouts - 1
  /\ SetSock(Client, [sock[Client] EXCEPT !.state = "Closed", !.registered = FALSE,
                                          !.so_error = "ETIMEDOUT"])
  /\ aborted' = aborted \cup {Client}
  /\ NextCall(Client)
  /\ UNCHANGED <<listening, net, mss, left, sending, unsent, failures, sent, got, escaped>>

\* accept takes the child, which is queued since its SYN; the application then
\* closes its listener.
Accept ==
  /\ At(Server, "accept") /\ sock[Server].state # "Open"
  /\ listening' = FALSE
  /\ NextCall(Server)
  /\ UNCHANGED <<sock, net, mss, left, sending, unsent, faults, sent, got, fate>>

CanSend(s) == s.state \in {"Established", "CloseWait"}

SendBegin(e) ==
  /\ At(e, "send") /\ CanSend(sock[e])
  /\ left' = [left EXCEPT ![e] = Head(prog[e]).n]
  /\ NextCall(e)
  /\ UNCHANGED <<sock, listening, net, mss, sending, unsent, faults, sent, got, fate>>

\* The pending error, or ENOTCONN, once the connection can no longer send.
SendRefused(e) ==
  /\ ~CanSend(sock[e])
  /\ \/ /\ At(e, "send") /\ sock[e].state # "Open"
        /\ NextCall(e) /\ UNCHANGED left
     \/ /\ left[e] > 0 /\ sending[e] = NoSegment
        /\ left' = [left EXCEPT ![e] = 0] /\ UNCHANGED prog
  /\ SetSock(e, [sock[e] EXCEPT !.so_error = "none"])
  /\ UNCHANGED <<listening, net, mss, sending, unsent, faults, sent, got, fate>>

\* The send window stays full for TCP_SEND_WINDOW_TIMEOUT_US.
SendTimeout(e) ==
  /\ left[e] > 0 /\ sending[e] = NoSegment
  /\ Len(sock[e].retransmit_queue) >= TCP_SEND_WINDOW_SEGMENTS
  /\ timeouts > 0 /\ timeouts' = timeouts - 1
  /\ left' = [left EXCEPT ![e] = 0]
  /\ UNCHANGED <<sock, listening, net, mss, prog, sending, unsent, failures, sent, got, fate>>

\* Within the send window the next segment gets its sequence number and is
\* tracked.  The code looks at the window in one critical section and tracks in the
\* next: between them only acknowledgements change the queue, which shorten it.
SendTrack(e) ==
  /\ left[e] > 0 /\ sending[e] = NoSegment
  /\ CanSend(sock[e])
  /\ Len(sock[e].retransmit_queue) < TCP_SEND_WINDOW_SEGMENTS
  /\ LET s    == sock[e]
         take == Min({mss, left[e]})
         g    == Segment(Peer(e), s.send_seq, s.recv_seq, {"ACK"},
                         [i \in 1..take |-> sent[e] + i])
     IN /\ SetSock(e, [s EXCEPT !.send_seq = SegmentEndSeq(g), !.retransmit_queue = Track(@, g)])
        /\ sending' = [sending EXCEPT ![e] = g]
        /\ unsent' = [unsent EXCEPT ![e] = g]
        /\ left' = [left EXCEPT ![e] = @ - take]
        /\ sent' = [sent EXCEPT ![e] = @ + take]
  /\ UNCHANGED <<listening, net, mss, prog, faults, got, fate>>

SendReturns(e) ==
  /\ sending[e] # NoSegment
  /\ sending' = [sending EXCEPT ![e] = NoSegment]
  /\ unsent' = [unsent EXCEPT ![e] = NoSegment]

\* tcp_send_segment, with the socket unlocked.
SendOk(e) ==
  /\ SendReturns(e)
  /\ net' = net \cup {sending[e]}
  /\ UNCHANGED <<sock, listening, mss, prog, left, faults, sent, got, fate>>

\* After a failed send the sequence number goes back, if no other segment has
\* been numbered since.
RolledBack(s, g) == IF s.send_seq = SegmentEndSeq(g) THEN g.seq ELSE s.send_seq

\* The segment is forgotten, although it may be in the queue of the neighbour or
\* may have left by a retransmission: the peer then has bytes that, for the sender,
\* are still to be sent.
SendFail(e) ==
  /\ SendReturns(e)
  /\ failures > 0
  /\ failures' = failures - 1
  /\ SetSock(e, [sock[e] EXCEPT !.send_seq = RolledBack(sock[e], sending[e]),
                                !.retransmit_queue = Untrack(@, sending[e].seq)])
  /\ sent' = [sent EXCEPT ![e] = @ - Len(sending[e].data)]
  /\ left' = [left EXCEPT ![e] = 0]
  /\ \E queued \in BOOLEAN :
       /\ net' = Queued(queued, sending[e])
       /\ escaped' = (escaped \/ queued \/ unsent[e] = NoSegment)
  /\ UNCHANGED <<listening, mss, prog, timeouts, got, aborted>>

\* read until it returns 0; recv_user_buffer takes what is queued.
ReadSome(e) ==
  /\ At(e, "read") /\ sock[e].receive_queue # <<>>
  /\ got' = [got EXCEPT ![e] = @ \o sock[e].receive_queue]
  /\ SetSock(e, [sock[e] EXCEPT !.receive_queue = <<>>])
  /\ UNCHANGED <<listening, net, mss, appVars, faults, sent, fate>>

ReadEof(e) ==
  /\ At(e, "read") /\ sock[e].receive_queue = <<>>
  /\ sock[e].state \in {"CloseWait", "LastAck", "Closed"}
  /\ NextCall(e)
  /\ UNCHANGED <<sock, listening, net, mss, left, sending, unsent, faults, sent, got, fate>>

\* A FIN takes the next sequence number, is tracked and sent.
SendFin(e, new) ==
  LET s   == sock[e]
      fin == Segment(Peer(e), s.send_seq, s.recv_seq, {"FIN", "ACK"}, <<>>)
  IN /\ SetSock(e, [s EXCEPT !.state = new, !.send_seq = Add(@, 1),
                             !.retransmit_queue = Track(@, fin)])
     /\ net' = net \cup {fin}

\* shutdown(SHUT_WR): only an established connection sends FIN.
Shutdown(e) ==
  /\ At(e, "shutdown") /\ sock[e].state # "Open"
  /\ IF sock[e].state = "Established"
     THEN SendFin(e, "FinWait1")
     ELSE UNCHANGED <<sock, net>>
  /\ NextCall(e)
  /\ UNCHANGED <<listening, mss, left, sending, unsent, faults, sent, got, fate>>

\* close: FIN, or the end of a connection that is not in a state for one.
Close(e) ==
  /\ At(e, "close") /\ sock[e].state # "Open"
  /\ IF sock[e].state = "Established" THEN SendFin(e, "FinWait1")
     ELSE IF sock[e].state = "CloseWait" THEN SendFin(e, "LastAck")
     ELSE IF sock[e].state = "Closed" THEN UNCHANGED <<sock, net>>
     ELSE /\ SetSock(e, [sock[e] EXCEPT !.state = "Closed", !.registered = FALSE,
               !.receive_queue = <<>>, !.out_of_order_queue = <<>>,
               !.retransmit_queue = <<>>, !.pending_fin_seq = NoFin])
          /\ UNCHANGED net
  /\ aborted' = IF sock[e].state \in {"Established", "CloseWait", "Closed"}
                THEN aborted ELSE aborted \cup {e}
  /\ NextCall(e)
  /\ UNCHANGED <<listening, mss, left, sending, unsent, faults, sent, got, escaped>>

-----------------------------------------------------------------------------
(* Reception: try_dispatch_or_rst, dispatch_tcp_segment *)

\* A segment for a connection in the table; any but a reset is acknowledged
\* against the retransmission queue before its state looks at it.
Matched(m, state) ==
  /\ sock[m.to].registered /\ sock[m.to].state = state
  /\ "RST" \notin m.flags

Acked(m) ==
  IF "ACK" \in m.flags
  THEN [sock[m.to] EXCEPT !.retransmit_queue = AckRetransmitQueue(@, m.ack)]
  ELSE sock[m.to]

Receive(m, s, replies) ==
  /\ SetSock(m.to, s)
  /\ net' = net \cup replies
  /\ UNCHANGED <<listening, mss, appVars, faults, sent, got, fate>>

\* A SYN for the listener makes a child socket; its SYN-ACK is not tracked.  A
\* SYN that comes after the child has gone starts another connection.
RcvListen(m) ==
  /\ m.to = Server /\ listening /\ sock[Server].state = "Open"
  /\ m.flags = {"SYN"}
  /\ Receive(m, [sock[Server] EXCEPT !.state = "SynReceived", !.registered = TRUE,
                   !.send_seq = Add(@, 1), !.recv_seq = Add(m.seq, 1)],
             {Segment(Client, Iss[Server], Add(m.seq, 1), {"SYN", "ACK"}, <<>>)})

RcvReset(m) ==
  /\ sock[m.to].registered /\ "RST" \in m.flags
  /\ SetSock(m.to, [sock[m.to] EXCEPT !.state = "Closed", !.registered = FALSE,
                      !.receive_queue = <<>>, !.out_of_order_queue = <<>>,
                      !.pending_fin_seq = NoFin,
                      !.so_error = IF sock[m.to].state = "SynSent" THEN "ECONNREFUSED"
                                                                   ELSE "ECONNRESET"])
  /\ aborted' = aborted \cup {m.to}
  /\ UNCHANGED <<listening, net, mss, appVars, faults, sent, got, escaped>>

RcvSynSent(m) ==
  /\ Matched(m, "SynSent")
  /\ LET s   == Acked(m)
         new == [s EXCEPT !.state = "Established", !.recv_seq = Add(m.seq, 1),
                          !.so_error = "none"]
     IN IF {"SYN", "ACK"} \subseteq m.flags /\ m.ack = s.send_seq
        THEN Receive(m, new, {AckOf(m.to, new)})
        ELSE Receive(m, s, {})

\* The segment that completes the handshake is used for its acknowledgement
\* only.
RcvSynReceived(m) ==
  /\ Matched(m, "SynReceived")
  /\ LET s == Acked(m)
     IN IF "ACK" \in m.flags /\ m.ack = s.send_seq
        THEN Receive(m, [s EXCEPT !.state = "Established"], {})
        ELSE IF m.flags = {"SYN"}
        THEN Receive(m, [s EXCEPT !.recv_seq = Add(m.seq, 1)],
                     {Segment(Peer(m.to), Add(s.send_seq, -1), Add(m.seq, 1), {"SYN", "ACK"}, <<>>)})
        ELSE Receive(m, s, {})

FinSeq(m) == Add(m.seq, Len(m.data))

\* Bug: the FIN of a segment is accepted before the data ahead of it.
AcceptAnyFin(m, s) == "FIN" \in m.flags /\ ~SeqBefore(FinSeq(m), s.recv_seq)

FinIsNext(m, s) == "FIN" \in m.flags /\ FinSeq(m) = s.recv_seq

\* consume_pending_fin_if_ready when it returns false.
DropStaleFin(s) ==
  IF s.pending_fin_seq # NoFin /\ SeqBefore(s.pending_fin_seq, s.recv_seq)
  THEN [s EXCEPT !.pending_fin_seq = NoFin]
  ELSE s

\* Data first, then a FIN that was waiting for it, then the segment's own FIN,
\* which waits if it is ahead of the data.
RcvEstablished(m) ==
  /\ Matched(m, "Established")
  /\ LET s    == IngestPayload(Acked(m), m.seq, m.data)
         fin  == [s EXCEPT !.pending_fin_seq = NoFin, !.recv_seq = Add(@, 1),
                           !.state = "CloseWait"]
         kept == DropStaleFin(s)
         new  == IF "FIN" \in m.flags /\ SeqAfter(FinSeq(m), s.recv_seq)
                 THEN [kept EXCEPT !.pending_fin_seq = FinSeq(m)]
                 ELSE kept
     IN IF s.pending_fin_seq = s.recv_seq \/ FinIsNext(m, s)
        THEN Receive(m, fin, {AckOf(m.to, fin)})
        ELSE Receive(m, new, IF m.data # <<>> \/ "FIN" \in m.flags
                             THEN {AckOf(m.to, new)} ELSE {})

\* After the own FIN: the peer's FIN, in order, ends the connection; one that
\* is ahead of the data is answered and not remembered.
RcvHalfClosed(m, s0) ==
  LET s   == IngestPayload(s0, m.seq, m.data)
      fin == [s EXCEPT !.recv_seq = Add(@, 1), !.state = "Closed", !.registered = FALSE]
  IN IF FinIsNext(m, s)
     THEN Receive(m, fin, {AckOf(m.to, fin)})
     ELSE Receive(m, s, IF m.data # <<>> \/ "FIN" \in m.flags THEN {AckOf(m.to, s)} ELSE {})

\* Bug: any acknowledgement is taken for that of the FIN.
AnyAck(m, s) == "ACK" \in m.flags

FinAcked(m, s) == "ACK" \in m.flags /\ m.ack = s.send_seq

RcvFinWait1(m) ==
  /\ Matched(m, "FinWait1")
  /\ RcvHalfClosed(m, IF FinAcked(m, Acked(m))
                      THEN [Acked(m) EXCEPT !.state = "FinWait2"] ELSE Acked(m))

RcvFinWait2(m) ==
  /\ Matched(m, "FinWait2")
  /\ RcvHalfClosed(m, Acked(m))

RcvLastAck(m) ==
  /\ Matched(m, "LastAck")
  /\ Receive(m, IF FinAcked(m, Acked(m))
                THEN [Acked(m) EXCEPT !.state = "Closed", !.registered = FALSE]
                ELSE Acked(m), {})

\* CloseWait does not answer, not even a FIN that is sent again.
RcvIgnored(m) ==
  /\ \E state \in {"CloseWait", "Closed"} : Matched(m, state)
  /\ Receive(m, Acked(m), {})

\* send_unmatched_rst; a SYN for a listener that closed within
\* TCP_RECENT_LISTENER_CLOSE_GRACE_US is dropped instead.
RcvUnmatched(m) ==
  /\ ~sock[m.to].registered /\ "RST" \notin m.flags
  /\ ~(m.to = Server /\ listening /\ m.flags = {"SYN"})
  /\ LET rst == IF "ACK" \in m.flags
                THEN Segment(Peer(m.to), m.ack, 0, {"RST"}, <<>>)
                ELSE Segment(Peer(m.to), 0, SegmentEndSeq(m), {"RST", "ACK"}, <<>>)
     IN Receive(m, sock[m.to], {rst})

-----------------------------------------------------------------------------
(* Retransmission and path-MTU feedback *)

\* append_retransmit_chunks: the segment again, in pieces that fit the mss.
Chunks(g) ==
  IF Len(g.data) <= mss THEN {g}
  ELSE {[g EXCEPT !.seq = Add(@, i - 1),
                  !.data = SubSeq(g.data, i, Min({i + mss - 1, Len(g.data)}))]
          : i \in {j \in DOMAIN g.data : (j - 1) % mss = 0}}

\* collect_retransmits: what path-MTU feedback has marked, and what has waited for
\* its timeout, even before send_tracked has sent it.
Retransmit(e) ==
  /\ sock[e].registered /\ sock[e].state # "Closed"
  /\ LET s      == sock[e]
         q      == s.retransmit_queue
         forced == {i \in DOMAIN q : q[i].needs}
     IN \E late \in SUBSET (DOMAIN q \ forced) :
          /\ forced \cup late # {}
          /\ late # {} => timeouts > 0
          /\ timeouts' = IF late = {} THEN timeouts ELSE timeouts - 1
          /\ IF \E i \in late : q[i].retries >= TCP_MAX_RETRIES
             THEN /\ SetSock(e, [s EXCEPT !.state = "Closed", !.so_error = "ETIMEDOUT",
                                   !.retransmit_queue = <<>>, !.receive_queue = <<>>,
                                   !.out_of_order_queue = <<>>, !.pending_fin_seq = NoFin])
                  /\ aborted' = aborted \cup {e}
                  /\ UNCHANGED <<net, unsent>>
             ELSE /\ SetSock(e, [s EXCEPT !.retransmit_queue =
                       [i \in DOMAIN q |->
                          IF i \in forced THEN [q[i] EXCEPT !.retries = 0, !.needs = FALSE]
                          ELSE IF i \in late THEN [q[i] EXCEPT !.retries = @ + 1]
                          ELSE q[i]]])
                  /\ net' = net \cup UNION {Chunks(q[i].seg) : i \in forced \cup late}
                  /\ unsent' = IF \E i \in forced \cup late : q[i].seg = unsent[e]
                               THEN [unsent EXCEPT ![e] = NoSegment] ELSE unsent
                  /\ UNCHANGED aborted
  /\ UNCHANGED <<listening, mss, prog, left, sending, failures, sent, got, escaped>>

\* poll_retransmits drops a connection that has ended.
PollClosed(e) ==
  /\ sock[e].registered /\ sock[e].state = "Closed"
  /\ SetSock(e, [sock[e] EXCEPT !.retransmit_queue = <<>>, !.registered = FALSE])
  /\ UNCHANGED <<listening, net, mss, appVars, faults, sent, got, fate>>

\* handle_pmtu_update of a segment under way that was too large for the path.
PmtuUpdate(e) ==
  /\ mss > 1 /\ sock[e].registered
  /\ \E m \in net :
       /\ m.to = Peer(e) /\ Len(m.data) > 1
       /\ mss' = 1
       /\ SetSock(e, [sock[e] EXCEPT !.retransmit_queue =
            [i \in DOMAIN @ |-> IF @[i].seg.seq = m.seq \/ Len(@[i].seg.data) > 1
                                THEN [@[i] EXCEPT !.needs = TRUE] ELSE @[i]]])
  /\ UNCHANGED <<listening, net, appVars, faults, sent, got, fate>>

-----------------------------------------------------------------------------
(* Specification *)

App(e) ==
  \/ SendBegin(e) \/ SendRefused(e) \/ SendTimeout(e)
  \/ SendTrack(e) \/ SendOk(e) \/ SendFail(e)
  \/ ReadSome(e) \/ ReadEof(e) \/ Shutdown(e) \/ Close(e)

Rcv(m) ==
  \/ RcvListen(m) \/ RcvReset(m) \/ RcvSynSent(m) \/ RcvSynReceived(m)
  \/ RcvEstablished(m) \/ RcvFinWait1(m) \/ RcvFinWait2(m) \/ RcvLastAck(m)
  \/ RcvIgnored(m) \/ RcvUnmatched(m)

Next ==
  \/ Connect \/ ConnectFail \/ ConnectAgain \/ ConnectDone \/ ConnectTimeout \/ Accept
  \/ \E e \in Ends : App(e) \/ Retransmit(e) \/ PollClosed(e) \/ PmtuUpdate(e)
  \/ \E m \in net : Rcv(m)

Spec == Init /\ [][Next]_vars

-----------------------------------------------------------------------------
(* Properties *)

Bytes(n) == [i \in 1..n |-> i]

Segments ==
  [to : Ends, seq : Seqs, ack : Seqs,
   flags : SUBSET {"SYN", "ACK", "FIN", "RST"}, data : Seq(Nat)]

\* Types; the send window bounds the tracked segments (one FIN may follow a
\* full window) and the reassembly queue keeps to its limit.
TypeOK ==
  /\ \A e \in Ends :
       LET s == sock[e]
       IN /\ s.state \in States /\ s.send_seq \in Seqs /\ s.recv_seq \in Seqs
          /\ s.pending_fin_seq \in Seqs \cup {NoFin} /\ s.registered \in BOOLEAN
          /\ s.so_error \in {"none", "ETIMEDOUT", "ECONNRESET", "ECONNREFUSED"}
          /\ Len(s.retransmit_queue) <= TCP_SEND_WINDOW_SEGMENTS + 1
          /\ \A i \in DOMAIN s.retransmit_queue :
               /\ s.retransmit_queue[i].seg \in Segments
               /\ s.retransmit_queue[i].retries \in 0..TCP_MAX_RETRIES
          /\ Len(s.out_of_order_queue) <= TCP_MAX_OUT_OF_ORDER_SEGMENTS
          /\ left[e] \in Nat /\ sent[e] \in Nat /\ got[e] \in Seq(Nat)
          /\ sending[e] \in Segments /\ unsent[e] \in {sending[e], NoSegment}
  /\ net \subseteq Segments /\ listening \in BOOLEAN /\ mss \in Nat \ {0}
  /\ failures \in Nat /\ timeouts \in Nat
  /\ escaped \in BOOLEAN /\ aborted \subseteq Ends

\* The stream bytes of its peer that socket e has received in order, by its
\* recv_seq (which also counts SYN and FIN).
Received(e) ==
  LET n == (sock[e].recv_seq - Iss[Peer(e)] - 1) % SeqSpace
  IN Min({n, sent[Peer(e)]})

Connected(e) == sock[e].state \notin {"Open", "SynSent"}

\* What the application has read and what waits for it is the peer's stream
\* from its first byte, with no gap, repeat or swap, and is all that recv_seq
\* acknowledges, whatever the network, retransmission in other pieces, a failed
\* send or the wrap of sequence numbers do, as long as no segment whose send
\* failed gets into the network (escaped): send_tracked then gives the numbers of
\* that segment to the next bytes, and the peer has others for them.
PrefixDelivered ==
  ~escaped =>
    \A e \in Ends :
      LET stream == got[e] \o sock[e].receive_queue
      IN /\ stream = Bytes(Len(stream))
         /\ Connected(e) /\ sock[e].state # "Closed" => Len(stream) = Received(e)

\* A byte that an open connection has accepted is with the peer or still
\* tracked for retransmission: no acknowledgement, however late or repeated,
\* retires it early.
NothingForgotten ==
  ~escaped =>
    \A e \in Ends :
      Connected(e) /\ sock[e].state # "Closed" /\ Connected(Peer(e)) =>
        \A b \in (Received(Peer(e)) + 1)..sent[e] :
          \E i \in DOMAIN sock[e].retransmit_queue :
            b \in ToSet(sock[e].retransmit_queue[i].seg.data)

\* A reader is told of the end of the stream only after all of it: in every state
\* in which read returns 0 for an empty queue (CloseWait, LastAck and Closed, which
\* the peer's FIN makes of FinWait1 and FinWait2), what has been read and what waits
\* is all that the peer has sent.  The exception is a connection that was reset,
\* given up after TCP_MAX_RETRIES or the connect timeout, or closed by its own end
\* before the peer's FIN (aborted): read returns 0 there too, with bytes missing.
EofAfterAllData ==
  ~escaped =>
    \A e \in Ends \ aborted :
      sock[e].state \in {"CloseWait", "LastAck", "Closed"} =>
        Len(got[e] \o sock[e].receive_queue) = sent[Peer(e)]

\* A socket leaves FinWait1 for FinWait2, or LastAck for an error-free Closed,
\* only when the peer has received all its bytes and its FIN.
CloseDelivers ==
  [][~escaped =>
       \A e \in Ends :
         \/ sock[e].state = "FinWait1" /\ sock'[e].state = "FinWait2"
         \/ /\ sock[e].state = "LastAck" /\ sock'[e].state = "Closed"
            /\ sock'[e].so_error = "none"
         => sock[Peer(e)].recv_seq = sock[e].send_seq]_vars

\* Both streams, with SYN and FIN, are shorter than half the sequence space.  No
\* segment ever leaves net, so that a longer stream could meet its own past, which
\* the lifetime of a segment excludes in a real network.
ShortStreams == \A e \in Ends : sent[e] + 2 < SeqSpace \div 2
=============================================================================
