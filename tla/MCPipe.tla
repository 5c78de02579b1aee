------------------------------- MODULE MCPipe -------------------------------
(* An instance of Pipe: two-byte pages, three tasks, one or two pipes. *)
EXTENDS Pipe

CONSTANTS a, b, c, pA, pB

Rd(x, n)      == [op |-> "read", pipe |-> x, n |-> n, nonblock |-> FALSE, all |-> FALSE]
RdAll(x, n)   == [op |-> "read", pipe |-> x, n |-> n, nonblock |-> FALSE, all |-> TRUE]
RdNow(x, n)   == [op |-> "read", pipe |-> x, n |-> n, nonblock |-> TRUE, all |-> FALSE]
Wr(x, d)      == [op |-> "write", pipe |-> x, data |-> d, nonblock |-> FALSE]
WrNow(x, d)   == [op |-> "write", pipe |-> x, data |-> d, nonblock |-> TRUE]
WrV(x, d)     == [op |-> "writev", pipe |-> x, data |-> d, nonblock |-> FALSE]
Splice(x, y, n) == [op |-> "splice", pipe |-> x, out |-> y, n |-> n, nonblock |-> FALSE]
Drain(x, n)   == [op |-> "drain", pipe |-> x, n |-> n, nonblock |-> FALSE]
Fill(x, d)    == [op |-> "fill", out |-> x, data |-> d, nonblock |-> FALSE]
PollFds(fds)  == [op |-> "poll", fds |-> fds]
R(x)          == [pipe |-> x, end |-> "r"]
W(x)          == [pipe |-> x, end |-> "w"]
Cl(x, e)      == [op |-> "close", pipe |-> x, end |-> e]
Size(x, n)    == [op |-> "resize", pipe |-> x, n |-> n]

Prog(x, y, z) == (a :> x) @@ (b :> y) @@ (c :> z)

Mix == {
  \* a write larger than the ring meets a small one; the reader wraps around
  Prog(<<WrV(pA, <<1, 2, 3, 4, 5, 6>>), Cl(pA, "w")>>,
       <<Wr(pA, <<7, 8>>), Cl(pA, "w")>>,
       <<RdAll(pA, 3), Cl(pA, "r")>>),
  \* two readers, short reads, one leaves early
  Prog(<<Wr(pA, <<11, 12>>), Wr(pA, <<13, 14>>), Wr(pA, <<15>>), Cl(pA, "w")>>,
       <<Rd(pA, 1), RdNow(pA, 2), Cl(pA, "r")>>,
       <<Rd(pA, 3), Cl(pA, "r")>>),
  \* the capacity changes under a full pipe
  Prog(<<WrV(pA, <<21, 22, 23, 24, 25>>), WrNow(pA, <<26, 27>>), Cl(pA, "w")>>,
       <<Size(pA, 1), Size(pA, 5), Size(pA, 3), Cl(pA, "w")>>,
       <<Rd(pA, 1), RdAll(pA, 4), Cl(pA, "r")>>),
  \* one pipe spliced into another
  Prog(<<WrV(pA, <<31, 32, 33, 34, 35>>), Cl(pA, "w")>>,
       <<Splice(pA, pB, 5), Cl(pA, "r"), Cl(pB, "w")>>,
       <<Rd(pB, 1), RdAll(pB, 3), Cl(pB, "r")>>),
  \* a file into a pipe and a pipe into a file, with a second writer
  Prog(<<Fill(pA, <<41, 42, 43, 44, 45>>), Cl(pA, "w")>>,
       <<Wr(pA, <<46, 47>>), Cl(pA, "w")>>,
       <<Drain(pA, 3), Drain(pA, 3), Cl(pA, "r")>>),
  \* ppoll on two ends
  Prog(<<Wr(pA, <<51, 52>>), Wr(pB, <<53, 54>>), Cl(pA, "w"), Cl(pB, "w")>>,
       <<PollFds(<<R(pA), R(pB)>>), RdNow(pA, 2), PollFds(<<R(pB)>>), Rd(pB, 1), Cl(pB, "r"), Cl(pA, "r")>>,
       <<>>),
  Prog(<<WrV(pA, <<61, 62, 63, 64>>), PollFds(<<W(pA)>>), WrNow(pA, <<65, 66>>), Cl(pA, "w")>>,
       <<Rd(pA, 1), Rd(pA, 3), Cl(pA, "r")>>,
       <<Rd(pA, 1), Cl(pA, "r")>>),
  \* a reader takes the bytes that splice has seen
  Prog(<<WrV(pA, <<71, 72, 73, 74>>), Cl(pA, "w")>>,
       <<Splice(pA, pB, 4), Cl(pA, "r"), Cl(pB, "w")>>,
       <<Rd(pA, 3), Cl(pA, "r"), RdAll(pB, 2), Cl(pB, "r")>>)
}

\* In the mix splice to a file is alone with its pipe, as the refinement needs.
ASSUME MixSoleDrain == \A prg \in Programs : SoleDrain(prg)
=============================================================================
