----------------------------- MODULE MCProcess ------------------------------
(* Process for init, a process of two threads and two more processes.  Each   *)
(* scenario is a use in which the calls meet each other.                      *)
EXTENDS Process

CONSTANTS init, pP, pC, pD, i1, p1, p2, c1, d1, nobody, any

AllProcs == {init, pP, pC, pD}
AllTasks == {i1, p1, p2, c1, d1}
InProc   == i1 :> init @@ p1 :> pP @@ p2 :> pP @@ c1 :> pC @@ d1 :> pD
Leaders  == init :> i1 @@ pP :> p1 @@ pC :> c1 @@ pD :> d1

F(x)    == [op |-> "fork", child |-> x, vfork |-> FALSE]
V(x)    == [op |-> "fork", child |-> x, vfork |-> TRUE]
W(x)    == [op |-> "wait", want |-> x, nohang |-> FALSE, nowait |-> FALSE]
Poll(x) == [op |-> "wait", want |-> x, nohang |-> TRUE, nowait |-> FALSE]
Peek(x) == [op |-> "wait", want |-> x, nohang |-> FALSE, nowait |-> TRUE]
K(x)    == [op |-> "kill", target |-> x]
Ex      == [op |-> "exec"]
Quit    == [op |-> "exit"]
Group   == [op |-> "exitgroup"]

Scenario(start, a, b1, b2, e, f) ==
  [start |-> start, prog |-> i1 :> a @@ p1 :> b1 @@ p2 :> b2 @@ c1 :> e @@ d1 :> f]

Mix ==
  { \* two threads wait for the same child, one looks first
    Scenario({i1, p1, p2}, <<>>, <<F(pC), Peek(any), W(any)>>, <<W(any)>>, <<Quit>>, <<>>),
    \* init waits for a process whose threads exit one by one, and kills it then
    Scenario({i1, p1, p2}, <<W(pP), K(pP)>>, <<Quit>>, <<Quit>>, <<>>, <<>>),
    \* vfork and exec; the other thread ends the group meanwhile
    Scenario({i1, p1, p2}, <<Poll(any)>>, <<V(pC), W(pC)>>, <<Group>>, <<Ex, Quit>>, <<>>),
    \* vfork without exec, then a fork of the child
    Scenario({i1, p1}, <<W(pP)>>, <<V(pC), W(pC)>>, <<>>, <<F(pD), Group>>, <<Quit>>),
    \* orphans: the child of a child outlives its parent
    Scenario({i1, p1}, <<W(any), W(any)>>, <<F(pC), Quit>>, <<>>, <<Ex, Quit>>, <<>>),
    \* the parent kills its child while the child forks; the child its parent
    Scenario({i1, p1}, <<>>, <<F(pC), K(pC), W(pC)>>, <<>>, <<F(pD), W(pD)>>, <<Quit>>),
    Scenario({i1, p1, p2}, <<W(pP)>>, <<V(pC), W(pC)>>, <<W(any)>>, <<K(pP), Quit>>, <<>>),
    \* a thread kills and reaps the child that another thread is forking
    Scenario({i1, p1, p2}, <<>>, <<F(pC)>>, <<K(pC), W(pC)>>, <<Quit>>, <<>>),
    \* a third process kills a parent while its child exits
    Scenario({i1, p1, d1}, <<>>, <<F(pC), W(pC)>>, <<>>, <<>>, <<K(pP)>>) }

\* A thread kills the child that another thread of its process is vforking.
KillDuringVfork ==
  { Scenario({i1, p1, p2}, <<W(pP)>>, <<V(pC), W(pC)>>, <<K(pC)>>, <<Ex>>, <<>>) }
=============================================================================
