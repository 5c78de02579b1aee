------------------------------- MODULE MCTcp --------------------------------
(* An instance of Tcp: sequence numbers modulo 16 that wrap in the stream of *)
(* the client, segments of at most two bytes.                                *)
EXTENDS Tcp

CONSTANTS cli, srv

Do(name) == [op |-> name]
Send(n)  == [op |-> "send", n |-> n]

Start == (cli :> 13) @@ (srv :> 5)

Scenario(x, y, mss0, t, f) ==
  [calls |-> (cli :> x) @@ (srv :> <<Do("accept")>> \o y),
   mss |-> mss0, timeouts |-> t, failures |-> f]

Mix == {
  \* a request of several segments, read to its end; the reassembly queue fills
  Scenario(<<Do("connect"), Send(5), Do("close")>>, <<Do("read"), Do("close")>>, 1, 0, 0),
  \* the path MTU shrinks under way
  Scenario(<<Do("connect"), Send(5), Do("close")>>, <<Do("read"), Do("close")>>, 2, 0, 0),
  \* request, half-close, response; timeouts
  Scenario(<<Do("connect"), Send(1), Do("shutdown"), Do("read"), Do("close")>>,
           <<Do("read"), Send(2), Do("close")>>, 1, 1, 0),
  \* a server that speaks first; both close at once
  Scenario(<<Do("connect"), Do("read"), Send(1), Do("close")>>, <<Send(2), Do("close")>>, 2, 0, 0),
  Scenario(<<Do("connect_nonblock"), Do("close")>>, <<Send(1), Do("close")>>, 1, 0, 0),
  \* segments are given up; connect is called twice
  Scenario(<<Do("connect"), Do("connect"), Send(2), Do("close")>>, <<Do("read"), Do("close")>>, 1, 3, 0),
  \* a send fails and the next call goes on
  Scenario(<<Do("connect"), Send(3), Send(2), Do("close")>>, <<Do("read"), Do("close")>>, 1, 1, 1)
}

\* No application sends so much that ShortStreams could fail, which the theorems of
\* TcpProofs about the streams assume.
ASSUME MixIsShort ==
  \A x \in Mix : \A e \in Ends :
    FoldLeft(LAMBDA n, c : IF c.op = "send" THEN n + c.n ELSE n, 0, x.calls[e]) + 2 < SeqSpace \div 2
=============================================================================
