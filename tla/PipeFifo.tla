------------------------------ MODULE PipeFifo ------------------------------
(***************************************************************************)
(* What a pipe promises: a bounded FIFO of bytes between two ends.  Bytes  *)
(* leave in the order they came, each once, to one consumer; nothing is    *)
(* put beyond the capacity or after the read end has closed; changing the  *)
(* capacity loses nothing.  Module Pipe shows that the ring of             *)
(* demand-allocated pages in fs/pipe.rs implements it.                     *)
(***************************************************************************)
EXTENDS Naturals, Sequences

CONSTANTS Pipes, Bytes

VARIABLES
  content,   \* the bytes in each pipe, oldest first
  capacity,
  readOpen,
  writeOpen,
  taken      \* the bytes each pipe has handed to a consumer

vars == <<content, capacity, readOpen, writeOpen, taken>>

Init ==
  /\ content = [p \in Pipes |-> <<>>]
  /\ capacity \in [Pipes -> Nat \ {0}]
  /\ readOpen = [p \in Pipes |-> TRUE]
  /\ writeOpen = [p \in Pipes |-> TRUE]
  /\ taken = [p \in Pipes |-> <<>>]

First(p, n) == SubSeq(content[p], 1, n)
Rest(p, n)  == SubSeq(content[p], n + 1, Len(content[p]))

\* Any bytes at all are appended, within the capacity.
Put(p) ==
  /\ readOpen[p]
  /\ content' = [content EXCEPT ![p] = content'[p]]
  /\ content'[p] \in Seq(Bytes)
  /\ Len(content'[p]) \in Len(content[p])..capacity[p]
  /\ SubSeq(content'[p], 1, Len(content[p])) = content[p]
  /\ UNCHANGED <<capacity, readOpen, writeOpen, taken>>

Take(p) ==
  \E n \in 1..Len(content[p]) :
    /\ content' = [content EXCEPT ![p] = Rest(p, n)]
    /\ taken' = [taken EXCEPT ![p] = @ \o First(p, n)]
    /\ UNCHANGED <<capacity, readOpen, writeOpen>>

\* Bytes go from one pipe to another in one step.
Move(p, q) ==
  \E n \in 1..Len(content[p]) :
    /\ readOpen[q]
    /\ Len(content[q]) + n <= capacity[q]
    /\ content' = [content EXCEPT ![p] = Rest(p, n), ![q] = @ \o First(p, n)]
    /\ taken' = [taken EXCEPT ![p] = @ \o First(p, n)]
    /\ UNCHANGED <<capacity, readOpen, writeOpen>>

\* Nobody is left to read: the bytes are dropped.
CloseRead(p) ==
  /\ readOpen' = [readOpen EXCEPT ![p] = FALSE]
  /\ content' = [content EXCEPT ![p] = <<>>]
  /\ UNCHANGED <<capacity, writeOpen, taken>>

CloseWrite(p) ==
  /\ writeOpen' = [writeOpen EXCEPT ![p] = FALSE]
  /\ UNCHANGED <<content, capacity, readOpen, taken>>

Resize(p) ==
  /\ capacity' = [capacity EXCEPT ![p] = capacity'[p]]
  /\ capacity'[p] >= Len(content[p])
  /\ UNCHANGED <<content, readOpen, writeOpen, taken>>

Next ==
  \E p \in Pipes :
    \/ Put(p) \/ Take(p) \/ CloseRead(p) \/ CloseWrite(p) \/ Resize(p)
    \/ \E q \in Pipes \ {p} : Move(p, q)

Spec == Init /\ [][Next]_vars
=============================================================================
