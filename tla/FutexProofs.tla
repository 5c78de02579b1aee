---------------------------- MODULE FutexProofs -----------------------------
(***************************************************************************)
(* Proofs about module Futex, for every number of waiters, wakers and      *)
(* scheduler loops, every set of words, and every program of calls.        *)
(*                                                                         *)
(* The inductive invariant is FutexInv.  Its core is an order on calls: a  *)
(* task numbers its calls downwards, so an entry of an earlier call is     *)
(* told from one of the call the task is in (Numbered), and can only be    *)
(* there after a completion crossed an interrupted return (Belongs).  From *)
(* that, a claimed entry and a queued one of the same task are of          *)
(* different calls, and one of them crossed (ClaimedCrossed), which is     *)
(* what a result in the TCB says of the queues (Quiet).                    *)
(*                                                                         *)
(* The table is reasoned about through what a section does to it: Thin     *)
(* (entries only left), Moving (entries left or were requeued), Extended   *)
(* (a call was pushed), and Sparse, which keeps two entries of one call    *)
(* apart unless both are of a futex_waitv list.  Every action but those    *)
(* that begin, publish or end a call leaves each waiter Steady.            *)
(***************************************************************************)
EXTENDS Futex, FiniteSetTheorems, WellFoundedInduction, TLAPS

\* The calls a waiter may be in: the words it lists, one value for each.
WaitRecords ==
  [keys : Seq(Keys), vals : Seq(Values), mask : SUBSET Bits, deadline : 0..NoDeadline,
   vector : BOOLEAN, number : Nat]

\* A list has a value for each word and a length the code accepts; a plain wait has one word.
IsWait(c) ==
  /\ c \in WaitRecords
  /\ Len(c.vals) = Len(c.keys) /\ Len(c.keys) <= FUTEX_WAITV_MAX
  /\ c.vector \/ Len(c.keys) <= 1

\* check_futex_timeouts on a CPU: where it is, its clock and the entry it took.
TimerRecords ==
  [pc : {"idle", "scan", "deliver", "wakeup"}, now : 0..MaxTime, entry : Seq(Entries)]

\* The futex table: a queue for each word.
Tables == [Keys -> Seq(Entries)]

\* The variables are what their comments say ...
DataInv ==
  /\ val \in [Keys -> Values] /\ owing \in [Keys -> BOOLEAN]
  /\ next \in 0..NoDeadline /\ now \in 0..MaxTime /\ signals \in 0..MaxSignals
  /\ woken \in [Waiters -> BOOLEAN] /\ timedOut \in [Waiters -> BOOLEAN]
  /\ intr \in [Waiters -> BOOLEAN] /\ zombie \in [Waiters -> BOOLEAN]
  /\ token \in [Waiters -> BOOLEAN] /\ crossed \in [Waiters -> BOOLEAN]
  /\ killing \subseteq Waiters

\* ... the calls and the programs are calls of the right kind ...
CallInv ==
  /\ call \in [Waiters -> WaitRecords] /\ \A t \in Waiters : IsWait(call[t])
  /\ prog = [t \in Tasks |-> prog[t]]
  /\ \A t \in Waiters : prog[t] \in Seq(WaitCalls)
  /\ \A w \in Wakers : prog[w] \in Seq(WakeCalls)

\* ... queues, selections and timers hold entries ...
EntriesInv ==
  /\ table \in Tables /\ toWake \in [Wakers -> Seq(Entries)]
  /\ timer \in [Cpus -> TimerRecords]

\* ... and the locals of a waker or of a scheduler loop go with where it is.
PlaceInv ==
  /\ pc \in [Tasks -> {"user", "gone"} \cup WaitPcs \cup WakePcs]
  /\ \A t \in Waiters : pc[t] \notin WakePcs
  /\ \A w \in Wakers : pc[w] \in {"user"} \cup WakePcs
  /\ \A w \in Wakers : /\ pc[w] \in {"user", "exit"} => toWake[w] = <<>>
                       /\ pc[w] = "wakeup" => toWake[w] # <<>>
                       /\ pc[w] = "exit" => prog[w] # <<>> /\ Head(prog[w]).op = "exit"
  /\ \A c \in Cpus : timer[c].pc \in {"deliver", "wakeup"} => Len(timer[c].entry) = 1

\* All of these.
ShapeInv == DataInv /\ CallInv /\ EntriesInv /\ PlaceInv

\* Calls are numbered downwards: an entry that is queued or claimed is of the
\* call its task is in or of an earlier one, and of an earlier one while the
\* task is still about to enqueue.
Numbered(e) ==
  /\ e.call > Len(prog[e.task])
  /\ pc[e.task] = "enqueue" => e.call > call[e.task].number

\* It is of the call its task is in, unless a completion crossed a return.
Belongs(e) == (InWait(e.task) /\ e.call = call[e.task].number) \/ crossed[e.task]

\* What is true of an entry in the queue of k: it has the deadline of its call;
\* a result in the TCB of its task crossed a return; the published deadline
\* covers it; and its word is as it expects, or a wake is owed.
Timed(e) ==
  InWait(e.task) /\ e.call = call[e.task].number => e.deadline = call[e.task].deadline

\* A result of some completion is in the TCB of t.
Result(t) == woken[t] \/ timedOut[t]

Quiet(e) == Result(e.task) => crossed[e.task]

Publishing(e) == pc[e.task] = "publish" /\ e.call = call[e.task].number

Covered(e) == e.deadline >= next \/ Publishing(e)

Expects(k, e) == e.exp \in {val[k], Moved} \/ owing[k]

QueuedOk(k, e) ==
  Numbered(e) /\ Belongs(e) /\ Timed(e) /\ Quiet(e) /\ Covered(e) /\ Expects(k, e)

\* This is so of every queued entry.
QueueInv == \A k \in Keys : \A i \in DOMAIN table[k] : QueuedOk(k, table[k][i])

\* Claimed entries are numbered and belong like queued ones.
ClaimInv ==
  \A x \in Claimers : \A i \in DOMAIN Claims(x) : Numbered(Claims(x)[i]) /\ Belongs(Claims(x)[i])

\* What is true of a waiter.
WaiterOk(t) ==
  /\ InWait(t) => call[t].number > Len(prog[t])
  /\ pc[t] = "enqueue" /\ Result(t) => crossed[t]

\* This is so of every waiter.
WaiterInv == \A t \in Waiters : WaiterOk(t)

\* Two entries of one call are both of a list.
Siblings(d, e) == SameCall(d, e) => IsVector(d) /\ IsVector(e)

\* Different places of a table hold entries of different calls, or siblings.
Sparse(tab) ==
  \A k, l \in Keys : \A i \in DOMAIN tab[k], j \in DOMAIN tab[l] :
    Siblings(tab[k][i], tab[l][j]) \/ (k = l /\ i = j)

\* The inductive invariant.
FutexInv ==
  ShapeInv /\ QueueInv /\ ClaimInv /\ WaiterInv /\ Sparse(table) /\ ClaimedOnce

-----------------------------------------------------------------------------
(* What Only returns *)

\* The pairs of naturals in order.
Less == {p \in Nat \X Nat : p[1] < p[2]}

\* The order of the naturals is well-founded.
LEMMA LessWellFounded == IsWellFoundedOn(Less, Nat)
<1>1. OpToRel(<, Nat) = Less
  BY Zenon DEF OpToRel, Less
<1> QED BY <1>1, NatLessThanWellFounded, Zenon

\* A set of naturals that is not empty has a least element.
LEMMA LeastNat ==
  ASSUME NEW T \in SUBSET Nat, T # {}
  PROVE  \E m \in T : \A n \in T : m <= n
<1>1. PICK x \in T : \A y \in T : ~(<<y, x>> \in Less)
  BY LessWellFounded, WFMin
<1>2. ASSUME NEW y \in T PROVE x <= y
  <2>1. x \in Nat /\ y \in Nat
    OBVIOUS
  <2>2. y < x => <<y, x>> \in Less
    BY <2>1 DEF Less
  <2> QED BY <1>1, <2>1, <2>2
<1> QED BY <1>2

\* A set of positions is finite.
LEMMA FinitePositions ==
  ASSUME NEW n \in Nat, NEW I \in SUBSET (1..n)
  PROVE  IsFiniteSet(I)
<1>1. IsFiniteSet(1..n)
  BY FS_Interval
<1> QED BY <1>1, FS_Subset

\* How many positions of I are not after i.
Rank(I, i) == Cardinality({x \in I : x <= i})

\* The rank of a position, from the one before it.
LEMMA RankStep ==
  ASSUME NEW n \in Nat, NEW I \in SUBSET (1..n), NEW m \in Nat \ {0}
  PROVE  /\ Rank(I, m) \in Nat /\ Rank(I, m - 1) \in Nat
         /\ m \notin I => Rank(I, m) = Rank(I, m - 1)
         /\ m \in I => Rank(I, m) = Rank(I, m - 1) + 1
<1> DEFINE A == {x \in I : x <= m}
           B == {x \in I : x <= m - 1}
<1>1. IsFiniteSet(A) /\ IsFiniteSet(B)
  <2>1. IsFiniteSet(1..n)
    BY FS_Interval
  <2> QED BY <2>1, FS_Subset
<1>2. Cardinality(A) \in Nat /\ Cardinality(B) \in Nat
  BY <1>1, FS_CardinalityType
<1>3. m \notin I => A = B
  <2> SUFFICES ASSUME m \notin I PROVE A = B
    OBVIOUS
  <2>1. ASSUME NEW x \in I PROVE x <= m <=> x <= m - 1
    <3>1. x \in Nat /\ x # m
      OBVIOUS
    <3> QED BY <3>1
  <2> QED BY <2>1, Zenon
<1>4. m \in I => A = B \cup {m} /\ m \notin B
  <2> SUFFICES ASSUME m \in I PROVE A = B \cup {m} /\ m \notin B
    OBVIOUS
  <2>1. ASSUME NEW x \in I PROVE x <= m <=> x <= m - 1 \/ x = m
    <3>1. x \in Nat
      OBVIOUS
    <3> QED BY <3>1
  <2>2. ~(m <= m - 1)
    OBVIOUS
  <2> QED BY <2>1, <2>2, Zenon
<1>5. m \in I => Cardinality(A) = Cardinality(B) + 1
  BY <1>1, <1>4, FS_AddElement
<1> QED BY <1>2, <1>3, <1>5 DEF Rank

\* A position not after another has no greater rank.
LEMMA RankMonotone ==
  ASSUME NEW n \in Nat, NEW I \in SUBSET (1..n), NEW a \in I, NEW b \in I, a <= b
  PROVE  Rank(I, a) <= Rank(I, b)
<1> DEFINE A == {x \in I : x <= a}
           B == {x \in I : x <= b}
<1>1. IsFiniteSet(B)
  <2>1. IsFiniteSet(1..n)
    BY FS_Interval
  <2> QED BY <2>1, FS_Subset
<1>2. A \subseteq B
  <2>1. ASSUME NEW x \in I, x <= a PROVE x <= b
    <3>1. x \in Nat /\ a \in Nat /\ b \in Nat
      OBVIOUS
    <3> QED BY <2>1, <3>1
  <2> QED BY <2>1
<1>3. Cardinality(A) <= Cardinality(B)
  BY <1>1, <1>2, FS_Subset
<1> QED BY <1>3 DEF Rank

\* Every number up to the number of positions is the rank of one of them.
LEMMA RankOnto ==
  ASSUME NEW n \in Nat, NEW I \in SUBSET (1..n), NEW j \in 1..Cardinality(I)
  PROVE  \E i \in I : Rank(I, i) = j
<1> DEFINE T == {m \in Nat : Rank(I, m) >= j}
<1>1. n \in T
  <2>1. {x \in I : x <= n} = I
    <3>1. \A x \in I : x <= n
      OBVIOUS
    <3> QED BY <3>1, Zenon
  <2>2. IsFiniteSet(I)
    BY FinitePositions
  <2>3. Cardinality(I) \in Nat
    BY <2>2, FS_CardinalityType
  <2> QED BY <2>1, <2>3 DEF Rank
<1>2. PICK m \in T : \A k \in T : m <= k
  BY <1>1, LeastNat
<1>3. m # 0
  <2>1. {x \in I : x <= 0} = {}
    <3>1. \A x \in I : ~(x <= 0)
      OBVIOUS
    <3> QED BY <3>1, Zenon
  <2>2. Rank(I, 0) = 0
    BY <2>1, FS_EmptySet DEF Rank
  <2> QED BY <2>2
<1>4. m \in Nat \ {0} /\ m - 1 \in Nat /\ m - 1 \notin T
  BY <1>2, <1>3
<1>5. /\ Rank(I, m) \in Nat /\ Rank(I, m - 1) \in Nat
      /\ m \notin I => Rank(I, m) = Rank(I, m - 1)
      /\ m \in I => Rank(I, m) = Rank(I, m - 1) + 1
  BY <1>4, RankStep
<1>6. ~(Rank(I, m - 1) >= j) /\ Rank(I, m) >= j
  BY <1>2, <1>4
<1>7. j \in Nat
  OBVIOUS
<1>8. m \in I /\ Rank(I, m) = j
  BY <1>5, <1>6, <1>7
<1> QED BY <1>8

\* InOrder lists the positions of I, each once.
LEMMA InOrderFacts ==
  ASSUME NEW n \in Nat, NEW I \in SUBSET (1..n)
  PROVE  /\ Cardinality(I) \in Nat
         /\ InOrder(I) \in [1..Cardinality(I) -> I]
         /\ \A a, b \in 1..Cardinality(I) : a < b => InOrder(I)[a] < InOrder(I)[b]
<1> DEFINE c == Cardinality(I)
           g == [j \in 1..c |-> CHOOSE i \in I : Rank(I, i) = j]
           Ok(f) == \A a, b \in DOMAIN f : a < b => f[a] < f[b]
<1>1. c \in Nat
  <2>1. IsFiniteSet(I)
    BY FinitePositions
  <2> QED BY <2>1, FS_CardinalityType
<1>2. ASSUME NEW j \in 1..c PROVE g[j] \in I /\ Rank(I, g[j]) = j
  BY RankOnto
<1>3. g \in [1..c -> I]
  BY <1>2
<1>4. ASSUME NEW a \in 1..c, NEW b \in 1..c, a < b PROVE g[a] < g[b]
  <2>1. g[a] \in I /\ g[b] \in I /\ Rank(I, g[a]) = a /\ Rank(I, g[b]) = b
    BY <1>2
  <2>2. g[b] <= g[a] => b <= a
    BY <2>1, RankMonotone
  <2> HIDE DEF g
  <2>3. g[a] \in Nat /\ g[b] \in Nat
    <3>1. g[a] \in 1..n /\ g[b] \in 1..n
      BY <2>1
    <3> QED BY <3>1
  <2> QED BY <1>1, <1>4, <2>2, <2>3
<1>5. \E f \in [1..c -> I] : Ok(f)
  <2>1. Ok(g)
    BY <1>3, <1>4
  <2> QED BY <1>3, <2>1
<1>6. InOrder(I) \in [1..c -> I] /\ Ok(InOrder(I))
  BY <1>5 DEF InOrder
<1> QED BY <1>1, <1>6

\* Only keeps entries of the queue at the given positions, each once.
LEMMA OnlyFacts ==
  ASSUME NEW S, NEW q \in Seq(S), NEW I \in SUBSET DOMAIN q
  PROVE  /\ Only(q, I) \in Seq(S)
         /\ InOrder(I) \in [DOMAIN Only(q, I) -> I]
         /\ \A j \in DOMAIN Only(q, I) : Only(q, I)[j] = q[InOrder(I)[j]]
         /\ \A a, b \in DOMAIN Only(q, I) : a # b => InOrder(I)[a] # InOrder(I)[b]
         /\ \A a, b \in DOMAIN Only(q, I) : a < b => InOrder(I)[a] < InOrder(I)[b]
<1>1. DOMAIN q = 1..Len(q) /\ Len(q) \in Nat
  OBVIOUS
<1>2. /\ Cardinality(I) \in Nat
      /\ InOrder(I) \in [1..Cardinality(I) -> I]
      /\ \A a, b \in 1..Cardinality(I) : a < b => InOrder(I)[a] < InOrder(I)[b]
  BY <1>1, InOrderFacts
<1>3. Only(q, I) = [j \in 1..Cardinality(I) |-> q[InOrder(I)[j]]]
  BY <1>2 DEF Only
<1>4. \A j \in 1..Cardinality(I) : InOrder(I)[j] \in DOMAIN q
  BY <1>2
<1>5. Only(q, I) \in Seq(S)
  BY <1>1, <1>2, <1>3, <1>4
<1>6. \A a, b \in 1..Cardinality(I) : a # b => InOrder(I)[a] # InOrder(I)[b]
  <2>1. SUFFICES ASSUME NEW a \in 1..Cardinality(I), NEW b \in 1..Cardinality(I), a # b
                 PROVE  InOrder(I)[a] # InOrder(I)[b]
    OBVIOUS
  <2>2. a < b \/ b < a
    BY <1>2, <2>1
  <2>3. InOrder(I)[a] \in Nat /\ InOrder(I)[b] \in Nat
    BY <1>1, <1>4
  <2> QED BY <1>2, <2>2, <2>3
<1> QED BY <1>2, <1>3, <1>5, <1>6

-----------------------------------------------------------------------------
(* What a section of the table keeps *)

\* Every entry of a queue of the first table is in that queue of the second.
Thin(new, old) ==
  \A k \in Keys : \A i \in DOMAIN new[k] : \E j \in DOMAIN old[k] : new[k][i] = old[k][j]

\* Every entry of a sequence is an entry of the other.
From(s, q) == \A j \in DOMAIN s : \E i \in DOMAIN q : s[j] = q[i]

\* What was selected and what stays come from different places of a sparse table.
Parted(tab, sel) ==
  /\ Sparse(tab)
  /\ \A k \in Keys : \A i \in DOMAIN tab[k], j \in DOMAIN sel : Siblings(tab[k][i], sel[j])
  /\ \A i, j \in DOMAIN sel : Siblings(sel[i], sel[j]) \/ i = j

\* A table that keeps some places of each queue is thinner and still sparse.
LEMMA KeepPlaces ==
  ASSUME NEW tab \in Tables, Sparse(tab), NEW I \in [Keys -> SUBSET Nat],
         \A k \in Keys : I[k] \subseteq DOMAIN tab[k],
         NEW new, new = [k \in Keys |-> Only(tab[k], I[k])]
  PROVE  new \in Tables /\ Thin(new, tab) /\ Sparse(new)
<1>1. ASSUME NEW k \in Keys
      PROVE  /\ new[k] \in Seq(Entries)
             /\ InOrder(I[k]) \in [DOMAIN new[k] -> I[k]]
             /\ \A j \in DOMAIN new[k] : /\ InOrder(I[k])[j] \in DOMAIN tab[k]
                                         /\ new[k][j] = tab[k][InOrder(I[k])[j]]
             /\ \A a, b \in DOMAIN new[k] : a # b => InOrder(I[k])[a] # InOrder(I[k])[b]
  <2>1. tab[k] \in Seq(Entries) /\ I[k] \in SUBSET DOMAIN tab[k] /\ new[k] = Only(tab[k], I[k])
    BY DEF Tables
  <2> QED BY <2>1, OnlyFacts
<1>2. new \in Tables
  BY <1>1 DEF Tables
<1>3. Thin(new, tab)
  BY <1>1 DEF Thin
<1>4. Sparse(new)
  <2> SUFFICES ASSUME NEW k \in Keys, NEW l \in Keys,
                      NEW i \in DOMAIN new[k], NEW j \in DOMAIN new[l]
               PROVE  Siblings(new[k][i], new[l][j]) \/ (k = l /\ i = j)
    BY DEF Sparse
  <2> DEFINE a == InOrder(I[k])[i]
             b == InOrder(I[l])[j]
  <2>1. /\ a \in DOMAIN tab[k] /\ new[k][i] = tab[k][a]
        /\ b \in DOMAIN tab[l] /\ new[l][j] = tab[l][b]
    BY <1>1
  <2>2. k = l /\ i # j => a # b
    BY <1>1
  <2> HIDE DEF a, b
  <2>3. Siblings(tab[k][a], tab[l][b]) \/ (k = l /\ a = b)
    BY <2>1 DEF Sparse
  <2> QED BY <2>1, <2>2, <2>3
<1> QED BY <1>2, <1>3, <1>4

\* Taking tasks out of the table.
LEMMA WithoutFacts ==
  ASSUME NEW tab \in Tables, Sparse(tab), NEW S
  PROVE  /\ Without(tab, S) \in Tables /\ Thin(Without(tab, S), tab)
         /\ Sparse(Without(tab, S))
         /\ \A k \in Keys : \A i \in DOMAIN Without(tab, S)[k] :
              Without(tab, S)[k][i].task \notin S
<1> DEFINE I == [k \in Keys |-> {i \in DOMAIN tab[k] : tab[k][i].task \notin S}]
           new == Without(tab, S)
<1>1. I \in [Keys -> SUBSET Nat] /\ \A k \in Keys : I[k] \subseteq DOMAIN tab[k]
  <2>1. \A k \in Keys : DOMAIN tab[k] \subseteq Nat
    BY DEF Tables
  <2> QED BY <2>1
<1>2. new = [k \in Keys |-> Only(tab[k], I[k])]
  BY DEF Without
<1>3. ASSUME NEW k \in Keys, NEW i \in DOMAIN new[k]
      PROVE  new[k][i].task \notin S
  <2>1. tab[k] \in Seq(Entries) /\ I[k] \in SUBSET DOMAIN tab[k] /\ new[k] = Only(tab[k], I[k])
    BY <1>1, <1>2 DEF Tables
  <2> DEFINE P == I[k]
  <2>2. InOrder(P) \in [DOMAIN new[k] -> P] /\ new[k][i] = tab[k][InOrder(P)[i]]
    <3> HIDE DEF P, new
    <3>1. tab[k] \in Seq(Entries) /\ P \in SUBSET DOMAIN tab[k] /\ new[k] = Only(tab[k], P)
      BY <2>1 DEF P
    <3> QED BY <3>1, OnlyFacts
  <2>3. InOrder(P)[i] \in P
    BY <2>2
  <2> QED BY <2>2, <2>3
<1> HIDE DEF I, new
<1>4. new \in Tables /\ Thin(new, tab) /\ Sparse(new)
  BY <1>1, <1>2, KeepPlaces
<1> QED BY <1>3, <1>4 DEF new

\* Dividing one queue: the places I are selected, the others stay.
LEMMA DivideFacts ==
  ASSUME NEW tab \in Tables, Sparse(tab), NEW k \in Keys, NEW I \in SUBSET DOMAIN tab[k],
         NEW new, new = [tab EXCEPT ![k] = Only(tab[k], DOMAIN tab[k] \ I)],
         NEW sel, sel = Only(tab[k], I)
  PROVE  /\ new \in Tables /\ sel \in Seq(Entries) /\ Thin(new, tab)
         /\ From(sel, tab[k])
         /\ Parted(new, sel)
<1> DEFINE J == DOMAIN tab[k] \ I
<1>1. tab[k] \in Seq(Entries) /\ J \in SUBSET DOMAIN tab[k]
  BY DEF Tables
<1>2. /\ sel \in Seq(Entries)
      /\ \A j \in DOMAIN sel : InOrder(I)[j] \in I /\ sel[j] = tab[k][InOrder(I)[j]]
      /\ \A a, b \in DOMAIN sel : a # b => InOrder(I)[a] # InOrder(I)[b]
  <2> HIDE DEF J
  <2> QED BY <1>1, OnlyFacts
<1>3. /\ new[k] \in Seq(Entries)
      /\ \A j \in DOMAIN new[k] : InOrder(J)[j] \in J /\ new[k][j] = tab[k][InOrder(J)[j]]
      /\ \A a, b \in DOMAIN new[k] : a # b => InOrder(J)[a] # InOrder(J)[b]
  <2>1. new[k] = Only(tab[k], J)
    BY DEF Tables
  <2> HIDE DEF J
  <2>2. /\ new[k] \in Seq(Entries)
        /\ InOrder(J) \in [DOMAIN new[k] -> J]
        /\ \A j \in DOMAIN new[k] : new[k][j] = tab[k][InOrder(J)[j]]
        /\ \A a, b \in DOMAIN new[k] : a # b => InOrder(J)[a] # InOrder(J)[b]
    BY ONLY <1>1, <2>1, OnlyFacts
  <2> QED BY <2>2
<1>4. \A l \in Keys \ {k} : new[l] = tab[l]
  BY DEF Tables
<1>5. new \in Tables
  BY <1>3, <1>4 DEF Tables
<1> DEFINE p == [l \in Keys |-> IF l = k THEN InOrder(J) ELSE [i \in DOMAIN tab[l] |-> i]]
<1>6. ASSUME NEW l \in Keys, NEW i \in DOMAIN new[l]
      PROVE  /\ p[l][i] \in DOMAIN tab[l] /\ new[l][i] = tab[l][p[l][i]]
             /\ l = k => p[l][i] \notin I
  BY <1>3, <1>4
<1>7. ASSUME NEW l \in Keys, NEW i \in DOMAIN new[l], NEW j \in DOMAIN new[l], i # j
      PROVE  p[l][i] # p[l][j]
  BY <1>3, <1>4, <1>7
<1> HIDE DEF p, J
<1>8. Thin(new, tab)
  BY <1>6 DEF Thin
<1>9. Sparse(new)
  <2> SUFFICES ASSUME NEW m \in Keys, NEW l \in Keys,
                      NEW i \in DOMAIN new[m], NEW j \in DOMAIN new[l]
               PROVE  Siblings(new[m][i], new[l][j]) \/ (m = l /\ i = j)
    BY DEF Sparse
  <2> DEFINE a == p[m][i]
             b == p[l][j]
  <2>1. a \in DOMAIN tab[m] /\ new[m][i] = tab[m][a]
    BY ONLY <1>6
  <2>2. b \in DOMAIN tab[l] /\ new[l][j] = tab[l][b]
    BY ONLY <1>6
  <2>3. m = l /\ i # j => a # b
    BY ONLY <1>7
  <2> HIDE DEF a, b
  <2>4. Siblings(tab[m][a], tab[l][b]) \/ (m = l /\ a = b)
    BY <2>1, <2>2 DEF Sparse
  <2> QED BY ONLY <2>1, <2>2, <2>3, <2>4
<1>10. ASSUME NEW l \in Keys, NEW i \in DOMAIN new[l], NEW j \in DOMAIN sel
       PROVE  Siblings(new[l][i], sel[j])
  <2> DEFINE a == p[l][i]
             b == InOrder(I)[j]
  <2>1. a \in DOMAIN tab[l] /\ new[l][i] = tab[l][a] /\ (l = k => a \notin I)
    BY ONLY <1>6
  <2>2. b \in I /\ b \in DOMAIN tab[k] /\ sel[j] = tab[k][b]
    BY <1>2
  <2> HIDE DEF a, b
  <2>3. Siblings(tab[l][a], tab[k][b]) \/ (l = k /\ a = b)
    BY <2>1, <2>2 DEF Sparse
  <2> QED BY ONLY <2>1, <2>2, <2>3
<1>11. ASSUME NEW i \in DOMAIN sel, NEW j \in DOMAIN sel
       PROVE  Siblings(sel[i], sel[j]) \/ i = j
  <2>1. Siblings(tab[k][InOrder(I)[i]], tab[k][InOrder(I)[j]]) \/ InOrder(I)[i] = InOrder(I)[j]
    BY <1>2 DEF Sparse
  <2> QED BY <1>2, <2>1
<1>12. From(sel, tab[k])
  BY <1>2 DEF From
<1> QED BY <1>2, <1>5, <1>8, <1>9, <1>10, <1>11, <1>12 DEF Parted

\* Selecting entries of one queue.
LEMMA SelectFacts ==
  ASSUME NEW tab \in Tables, Sparse(tab), NEW k \in Keys, NEW S,
         NEW new, new = [tab EXCEPT ![k] = Reject(tab[k], S)],
         NEW sel, sel = Select(tab[k], S)
  PROVE  /\ new \in Tables /\ sel \in Seq(Entries) /\ Thin(new, tab)
         /\ From(sel, tab[k])
         /\ Parted(new, sel)
<1> DEFINE I == {i \in DOMAIN tab[k] : tab[k][i] \in S}
<1>1. {i \in DOMAIN tab[k] : tab[k][i] \notin S} = DOMAIN tab[k] \ I
  OBVIOUS
<1>2. new = [tab EXCEPT ![k] = Only(tab[k], DOMAIN tab[k] \ I)] /\ sel = Only(tab[k], I)
  BY <1>1 DEF Reject, Select
<1>3. I \in SUBSET DOMAIN tab[k]
  OBVIOUS
<1> HIDE DEF I
<1> QED BY ONLY Sparse(tab), <1>2, <1>3, DivideFacts

\* The end of a section: no entry of a selected call stays in the table, and
\* no call is selected twice.
LEMMA FinishFacts ==
  ASSUME NEW tab \in Tables, NEW sel \in Seq(Entries), Parted(tab, sel),
         NEW new, new = RemoveSiblings(tab, sel), NEW com, com = Commit(sel)
  PROVE  /\ new \in Tables /\ Thin(new, tab) /\ Sparse(new)
         /\ com \in Seq(Entries)
         /\ From(com, sel)
         /\ \A i, j \in DOMAIN com : SameCall(com[i], com[j]) => i = j
         /\ \A k \in Keys : \A i \in DOMAIN new[k], j \in DOMAIN sel :
              ~SameCall(sel[j], new[k][i])
<1> DEFINE S == {sel[i].task : i \in {j \in DOMAIN sel : IsVector(sel[j])}}
           I == {i \in DOMAIN sel : ~\E j \in 1..(i - 1) :
                   sel[j].task = sel[i].task /\ IsVector(sel[j])}
<1>1. /\ new \in Tables /\ Thin(new, tab) /\ Sparse(new)
      /\ \A k \in Keys : \A i \in DOMAIN new[k] : new[k][i].task \notin S
  <2> HIDE DEF S
  <2>1. new = Without(tab, S)
    BY DEF RemoveSiblings, S
  <2> QED BY <2>1, WithoutFacts DEF Parted
<1>2. I \in SUBSET DOMAIN sel /\ com = Only(sel, I)
  BY DEF Commit
<1>3. /\ com \in Seq(Entries)
      /\ \A j \in DOMAIN com : InOrder(I)[j] \in I /\ com[j] = sel[InOrder(I)[j]]
      /\ \A a, b \in DOMAIN com : a < b => InOrder(I)[a] < InOrder(I)[b]
  <2> HIDE DEF I
  <2> QED BY <1>2, OnlyFacts
<1>4. From(com, sel)
  BY <1>2, <1>3 DEF From
<1>5. ASSUME NEW a \in DOMAIN com, NEW b \in DOMAIN com, a < b
      PROVE  ~SameCall(com[a], com[b])
  <2> DEFINE i == InOrder(I)[a]
             j == InOrder(I)[b]
  <2>1. i \in I /\ j \in I /\ i < j /\ com[a] = sel[i] /\ com[b] = sel[j]
    BY <1>3, <1>5
  <2> HIDE DEF i, j
  <2>2. i \in DOMAIN sel /\ j \in DOMAIN sel /\ i \in Nat /\ j \in Nat /\ i \in 1..(j - 1) /\ i # j
    BY <2>1
  <2>3. SameCall(sel[i], sel[j]) => IsVector(sel[i])
    BY <2>2 DEF Parted, Siblings
  <2>4. ~(sel[i].task = sel[j].task /\ IsVector(sel[i]))
    BY <2>1, <2>2
  <2> QED BY <2>1, <2>3, <2>4 DEF SameCall
<1>6. ASSUME NEW a \in DOMAIN com, NEW b \in DOMAIN com, SameCall(com[a], com[b])
      PROVE  a = b
  <2>1. a \in Nat /\ b \in Nat
    BY <1>3
  <2>2. SameCall(com[b], com[a])
    BY <1>6 DEF SameCall
  <2> QED BY <1>5, <1>6, <2>1, <2>2
<1>7. ASSUME NEW k \in Keys, NEW i \in DOMAIN new[k], NEW a \in DOMAIN sel,
             SameCall(sel[a], new[k][i])
      PROVE  FALSE
  <2>1. PICK b \in DOMAIN tab[k] : new[k][i] = tab[k][b]
    BY <1>1 DEF Thin
  <2>2. IsVector(sel[a])
    BY <1>7, <2>1 DEF Parted, Siblings, SameCall
  <2>3. sel[a].task \in S
    BY <2>2
  <2> QED BY <1>1, <1>7, <2>3 DEF SameCall
<1> QED BY <1>1, <1>3, <1>4, <1>6, <1>7

\* The least of two numbers.
LEMMA MinTwo ==
  ASSUME NEW a \in Nat, NEW b \in Nat
  PROVE  /\ Min({a, b}) \in Nat /\ Min({a, b}) <= a /\ Min({a, b}) <= b
         /\ Min({a, b}) \in {a, b}
<1>1. \E x \in {a, b} : \A y \in {a, b} : x <= y
  <2>1. CASE a <= b
    BY <2>1
  <2>2. CASE ~(a <= b)
    BY <2>2
  <2> QED BY <2>1, <2>2
<1>2. Min({a, b}) \in {a, b} /\ \A y \in {a, b} : Min({a, b}) <= y
  BY <1>1 DEF Min
<1> QED BY <1>2

\* A stretch of a queue.
LEMMA StretchFacts ==
  ASSUME NEW S, NEW q \in Seq(S), NEW m \in Nat, NEW n \in Nat, m <= n, n <= Len(q)
  PROVE  /\ SubSeq(q, m + 1, n) \in Seq(S)
         /\ Len(SubSeq(q, m + 1, n)) = n - m
         /\ \A i \in 1..(n - m) : SubSeq(q, m + 1, n)[i] = q[i + m]
OBVIOUS

\* One queue after another.
LEMMA ConcatFacts ==
  ASSUME NEW S, NEW q \in Seq(S), NEW r \in Seq(S)
  PROVE  /\ q \o r \in Seq(S)
         /\ DOMAIN (q \o r) = 1..(Len(q) + Len(r))
         /\ \A i \in 1..Len(q) : (q \o r)[i] = q[i]
         /\ \A i \in 1..Len(r) : (q \o r)[Len(q) + i] = r[i]
OBVIOUS

\* An entry, wherever it was requeued to.
Requeued(d) == [d EXCEPT !.exp = Moved]

\* A requeued entry differs in the word it expects only.
LEMMA RequeuedFacts ==
  ASSUME NEW d \in Entries
  PROVE  /\ Requeued(d) \in Entries
         /\ Requeued(d).task = d.task /\ Requeued(d).call = d.call
         /\ Requeued(d).index = d.index /\ Requeued(d).deadline = d.deadline
         /\ Requeued(d).exp = Moved
BY DEF Requeued, Entries

\* Every entry of the table was in the same queue, or was requeued from another.
Moving(new, old) ==
  \A k \in Keys : \A i \in DOMAIN new[k] :
    \/ \E j \in DOMAIN old[k] : new[k][i] = old[k][j]
    \/ \E l \in Keys : \E j \in DOMAIN old[l] : new[k][i] = Requeued(old[l][j])

\* The three parts of a queue that futex_requeue tells apart: the entries to
\* wake, the entries to move, and the others.
Parts(q, sel, mov, rest) ==
  /\ sel \in Seq(Entries) /\ mov \in Seq(Entries) /\ rest \in Seq(Entries)
  /\ Len(q) = Len(sel) + Len(mov) + Len(rest)
  /\ \A i \in 1..Len(sel) : sel[i] = q[i]
  /\ \A i \in 1..Len(mov) : mov[i] = q[Len(sel) + i]
  /\ \A i \in 1..Len(rest) : rest[i] = q[Len(sel) + Len(mov) + i]

\* The stretches that futex_requeue cuts are the three parts of the queue.
LEMMA PartsFacts ==
  ASSUME NEW q \in Seq(Entries), NEW n \in Nat, NEW m \in Nat
  PROVE  LET sel  == SubSeq(q, 1, Min({n, Len(q)}))
             mov  == SubSeq(q, Len(sel) + 1, Min({Len(sel) + m, Len(q)}))
             rest == SubSeq(q, Len(sel) + Len(mov) + 1, Len(q))
         IN Parts(q, sel, mov, rest)
<1> DEFINE sel == SubSeq(q, 1, Min({n, Len(q)}))
           mov == SubSeq(q, Len(sel) + 1, Min({Len(sel) + m, Len(q)}))
           rest == SubSeq(q, Len(sel) + Len(mov) + 1, Len(q))
           c == Min({n, Len(q)})
<1>1. Len(q) \in Nat
  OBVIOUS
<1>2. c \in Nat /\ c <= Len(q)
  BY <1>1, MinTwo
<1>3. sel \in Seq(Entries) /\ Len(sel) = c /\ \A i \in 1..c : sel[i] = q[i]
  <2> HIDE DEF c
  <2>1. SubSeq(q, 0 + 1, c) \in Seq(Entries) /\ Len(SubSeq(q, 0 + 1, c)) = c - 0
        /\ \A i \in 1..(c - 0) : SubSeq(q, 0 + 1, c)[i] = q[i + 0]
    BY <1>1, <1>2, StretchFacts
  <2>2. \A i \in 1..c : SubSeq(q, 1, c)[i] = q[i]
    BY <1>2, <2>1
  <2>3. SubSeq(q, 1, c) \in Seq(Entries) /\ Len(SubSeq(q, 1, c)) = c
    BY <1>2, <2>1
  <2> QED BY <2>2, <2>3 DEF c
<1> DEFINE a == Len(sel)
           d == Min({a + m, Len(q)})
<1>4. a \in Nat /\ a <= Len(q)
  BY <1>2, <1>3
<1> HIDE DEF sel, c
<1>5. d \in Nat /\ a <= d /\ d <= Len(q)
  BY <1>1, <1>4, MinTwo
<1>6. mov = SubSeq(q, a + 1, d)
  OBVIOUS
<1> HIDE DEF mov, d, a
<1>7. mov \in Seq(Entries) /\ Len(mov) = d - a /\ \A i \in 1..(d - a) : mov[i] = q[i + a]
  BY <1>4, <1>5, <1>6, StretchFacts
<1> DEFINE b == Len(mov)
<1>8. b \in Nat /\ a + b = d
  BY <1>4, <1>5, <1>7
<1> HIDE DEF b
<1>9. rest = SubSeq(q, d + 1, Len(q))
  BY <1>8 DEF a, b
<1> HIDE DEF rest
<1>10. rest \in Seq(Entries) /\ Len(rest) = Len(q) - d /\ \A i \in 1..(Len(q) - d) : rest[i] = q[i + d]
  BY <1>1, <1>5, <1>9, StretchFacts
<1>11. Len(q) = a + b + Len(rest)
  <2>1. Len(rest) = Len(q) - d
    BY <1>10
  <2> QED BY ONLY <1>1, <1>4, <1>5, <1>8, <2>1
<1>12. \A i \in 1..a : sel[i] = q[i]
  BY <1>3 DEF a
<1>13. \A i \in 1..b : mov[i] = q[a + i]
  <2> SUFFICES ASSUME NEW i \in 1..b PROVE mov[i] = q[a + i]
    OBVIOUS
  <2>1. i \in 1..(d - a) /\ a + i = i + a
    BY <1>4, <1>5, <1>8
  <2> QED BY <1>7, <2>1
<1>14. \A i \in 1..Len(rest) : rest[i] = q[a + b + i]
  <2> SUFFICES ASSUME NEW i \in 1..Len(rest) PROVE rest[i] = q[a + b + i]
    OBVIOUS
  <2>1. i \in 1..(Len(q) - d) /\ a + b + i = i + d
    BY <1>1, <1>5, <1>8, <1>10
  <2> QED BY <1>10, <2>1
<1>15. Parts(q, sel, mov, rest)
  BY <1>3, <1>7, <1>10, <1>11, <1>12, <1>13, <1>14 DEF Parts, a, b
<1> QED BY <1>15 DEF sel, mov, rest

\* The table after a requeue that moves `mov' to the queue of k2.
RequeuedTable(tab, k1, k2, mov, rest) ==
  LET tab1 == [tab EXCEPT ![k1] = rest]
  IN [tab1 EXCEPT ![k2] = tab1[k2] \o [i \in DOMAIN mov |-> Requeued(mov[i])]]

\* What it holds: one queue is now `head' and then the moved entries.
Assembled(new, head, tab, k1, k2, mov, rest) ==
  /\ new \in Tables
  /\ k1 # k2 => new[k1] = rest
  /\ \A k \in Keys \ {k1, k2} : new[k] = tab[k]
  /\ DOMAIN new[k2] = 1..(Len(head) + Len(mov))
  /\ \A i \in 1..Len(head) : new[k2][i] = head[i]
  /\ \A i \in 1..Len(mov) : new[k2][Len(head) + i] = Requeued(mov[i])

\* Where every entry of the table after a requeue comes from.
LEMMA RequeuedTableFacts ==
  ASSUME NEW tab \in Tables, NEW k1 \in Keys, NEW k2 \in Keys,
         NEW mov \in Seq(Entries), NEW rest \in Seq(Entries),
         NEW new, new = RequeuedTable(tab, k1, k2, mov, rest),
         NEW head, head = IF k1 = k2 THEN rest ELSE tab[k2]
  PROVE  Assembled(new, head, tab, k1, k2, mov, rest)
<1> DEFINE tab1 == [tab EXCEPT ![k1] = rest]
           moved == [i \in DOMAIN mov |-> Requeued(mov[i])]
<1>1. moved \in Seq(Entries) /\ Len(moved) = Len(mov) /\ \A i \in 1..Len(mov) : moved[i] = Requeued(mov[i])
  <2>1. ASSUME NEW i \in 1..Len(mov) PROVE Requeued(mov[i]) \in Entries
    BY RequeuedFacts
  <2> QED BY <2>1
<1>2. tab1 \in Tables /\ tab1[k2] = head /\ tab1[k1] = rest /\ \A k \in Keys \ {k1} : tab1[k] = tab[k]
  BY DEF Tables
<1> HIDE DEF tab1, moved
<1>3. head \in Seq(Entries)
  BY DEF Tables
<1>4. /\ head \o moved \in Seq(Entries)
      /\ DOMAIN (head \o moved) = 1..(Len(head) + Len(mov))
      /\ \A i \in 1..Len(head) : (head \o moved)[i] = head[i]
      /\ \A i \in 1..Len(mov) : (head \o moved)[Len(head) + i] = Requeued(mov[i])
  <2>1. /\ head \o moved \in Seq(Entries)
        /\ DOMAIN (head \o moved) = 1..(Len(head) + Len(moved))
        /\ \A i \in 1..Len(head) : (head \o moved)[i] = head[i]
        /\ \A i \in 1..Len(moved) : (head \o moved)[Len(head) + i] = moved[i]
    <3>1. moved \in Seq(Entries) /\ head \in Seq(Entries)
      BY <1>1, <1>3
    <3> QED BY ONLY <3>1
  <2> QED BY <1>1, <2>1
<1>5. new = [tab1 EXCEPT ![k2] = tab1[k2] \o moved]
  BY DEF RequeuedTable, tab1, moved
<1>6. new[k2] = head \o moved /\ \A k \in Keys \ {k2} : new[k] = tab1[k]
  BY <1>2, <1>5 DEF Tables
<1>7. new \in Tables
  BY <1>2, <1>4, <1>5 DEF Tables
<1>8. k1 # k2 => new[k1] = rest
  BY <1>2, <1>6
<1>9. \A k \in Keys \ {k1, k2} : new[k] = tab[k]
  BY <1>2, <1>6
<1> QED BY <1>4, <1>6, <1>7, <1>8, <1>9 DEF Assembled

\* A requeue keeps the table sparse, and parts it from what it wakes.
LEMMA RequeueFacts ==
  ASSUME NEW tab \in Tables, Sparse(tab), NEW k1 \in Keys, NEW k2 \in Keys,
         NEW sel, NEW mov, NEW rest, Parts(tab[k1], sel, mov, rest)
  PROVE  LET new == RequeuedTable(tab, k1, k2, mov, rest)
         IN /\ new \in Tables /\ sel \in Seq(Entries) /\ From(sel, tab[k1])
            /\ Moving(new, tab) /\ Parted(new, sel)
<1> DEFINE q == tab[k1]
           a == Len(sel)
           b == Len(mov)
           h == IF k1 = k2 THEN Len(rest) ELSE Len(tab[k2])
           new == RequeuedTable(tab, k1, k2, mov, rest)
<1>1. q \in Seq(Entries) /\ Len(q) \in Nat /\ DOMAIN q = 1..Len(q)
  BY DEF Tables
<1> HIDE DEF q
<1>2. /\ sel \in Seq(Entries) /\ a \in Nat /\ DOMAIN sel = 1..a
      /\ mov \in Seq(Entries) /\ b \in Nat
      /\ rest \in Seq(Entries) /\ Len(rest) \in Nat
      /\ Len(q) = a + b + Len(rest)
      /\ \A i \in 1..a : sel[i] = q[i]
      /\ \A i \in 1..b : mov[i] = q[a + i]
      /\ \A i \in 1..Len(rest) : rest[i] = q[a + b + i]
  BY DEF Parts, q
<1> HIDE DEF a, b
<1>3. h \in Nat
  BY <1>2 DEF Tables
<1>4. /\ new \in Tables
      /\ k1 # k2 => new[k1] = rest
      /\ \A k \in Keys \ {k1, k2} : new[k] = tab[k]
      /\ DOMAIN new[k2] = 1..(h + b)
      /\ \A i \in 1..h : new[k2][i] = IF k1 = k2 THEN rest[i] ELSE tab[k2][i]
      /\ \A i \in 1..b : new[k2][h + i] = Requeued(mov[i])
  <2>1. mov \in Seq(Entries) /\ rest \in Seq(Entries)
    BY <1>2
  <2> DEFINE head == IF k1 = k2 THEN rest ELSE tab[k2]
  <2>2. Assembled(new, head, tab, k1, k2, mov, rest)
    <3> HIDE DEF new, head
    <3>1. new = RequeuedTable(tab, k1, k2, mov, rest) /\ head = IF k1 = k2 THEN rest ELSE tab[k2]
      BY DEF new, head
    <3> QED BY <2>1, <3>1, RequeuedTableFacts
  <2> HIDE DEF new
  <2>3. h = Len(head) /\ \A i \in Nat : head[i] = IF k1 = k2 THEN rest[i] ELSE tab[k2][i]
    OBVIOUS
  <2> HIDE DEF head, h
  <2> QED BY <1>3, <2>2, <2>3 DEF b, Assembled
<1> HIDE DEF new

<1>5. k1 = k2 => h = Len(rest)
  OBVIOUS
<1>6. k1 # k2 => h = Len(tab[k2])
  OBVIOUS
<1> HIDE DEF h
\* Where an entry of the new table comes from.
<1> DEFINE IsMoved(k, i) == k = k2 /\ i > h
           src == [k \in Keys |-> [i \in DOMAIN new[k] |-> IF IsMoved(k, i) THEN k1 ELSE k]]
           pos == [k \in Keys |-> [i \in DOMAIN new[k] |->
                     IF IsMoved(k, i) THEN a + (i - h)
                     ELSE IF k = k1 THEN a + b + i ELSE i]]
<1>7. ASSUME NEW k \in Keys, NEW i \in DOMAIN new[k]
      PROVE  /\ i \in Nat /\ i >= 1
             /\ src[k][i] = IF IsMoved(k, i) THEN k1 ELSE k
             /\ pos[k][i] = IF IsMoved(k, i) THEN a + (i - h)
                            ELSE IF k = k1 THEN a + b + i ELSE i
  <2>1. new[k] \in Seq(Entries)
    BY <1>4 DEF Tables
  <2> QED BY <2>1
<1> HIDE DEF src, pos
<1>8. ASSUME NEW k \in Keys, NEW i \in DOMAIN new[k], IsMoved(k, i)
      PROVE  /\ k = k2 /\ i - h \in 1..b
             /\ a + (i - h) \in 1..Len(q) /\ a + (i - h) > a
             /\ new[k][i] = Requeued(q[a + (i - h)])
  <2>1. i \in 1..(h + b) /\ k = k2
    BY <1>4, <1>8
  <2>2. i - h \in 1..b /\ i = h + (i - h)
    BY <1>2, <1>3, <1>8, <2>1
  <2>3. new[k2][h + (i - h)] = Requeued(mov[i - h])
    BY <1>4, <2>2
  <2>4. mov[i - h] = q[a + (i - h)]
    BY <1>2, <2>2
  <2>5. a + (i - h) \in 1..Len(q) /\ a + (i - h) > a
    BY <1>2, <1>3, <2>2
  <2> QED BY <2>1, <2>2, <2>3, <2>4, <2>5
<1>9. ASSUME NEW k \in Keys, NEW i \in DOMAIN new[k], ~IsMoved(k, i), k = k1
      PROVE  /\ i \in 1..Len(rest)
             /\ a + b + i \in 1..Len(q) /\ a + b + i > a
             /\ new[k][i] = q[a + b + i]
  <2>1. i \in 1..Len(rest) /\ new[k][i] = rest[i]
    <3>1. CASE k1 = k2
      <4>1. i \in 1..h
        BY <1>2, <1>3, <1>4, <1>9, <3>1
      <4> QED BY <1>4, <1>5, <1>9, <3>1, <4>1
    <3>2. CASE k1 # k2
      BY <1>2, <1>4, <1>9, <3>2
    <3> QED BY <3>1, <3>2
  <2>2. a + b + i \in 1..Len(q) /\ a + b + i > a
    BY <1>2, <2>1
  <2>3. rest[i] = q[a + b + i]
    BY <1>2, <2>1
  <2> QED BY <2>1, <2>2, <2>3
<1>10. ASSUME NEW k \in Keys, NEW i \in DOMAIN new[k], ~IsMoved(k, i), k # k1
       PROVE  i \in DOMAIN tab[k] /\ new[k][i] = tab[k][i]
  <2>1. CASE k = k2
    <3>1. i \in 1..h
      BY <1>2, <1>3, <1>4, <1>10, <2>1
    <3>2. h = Len(tab[k2]) /\ tab[k2] \in Seq(Entries)
      BY <1>6, <1>10, <2>1 DEF Tables
    <3> QED BY <1>4, <1>10, <2>1, <3>1, <3>2
  <2>2. CASE k # k2
    BY <1>4, <1>10, <2>2
  <2> QED BY <2>1, <2>2
<1> DEFINE Like(d, e) == d.task = e.task /\ d.call = e.call /\ d.index = e.index
<1>11. ASSUME NEW k \in Keys, NEW i \in DOMAIN new[k]
       PROVE  /\ src[k][i] \in Keys /\ pos[k][i] \in DOMAIN tab[src[k][i]]
              /\ src[k][i] = k1 => pos[k][i] > a /\ pos[k][i] \in Nat
              /\ Like(new[k][i], tab[src[k][i]][pos[k][i]])
              /\ \/ src[k][i] = k /\ new[k][i] = tab[k][pos[k][i]]
                 \/ new[k][i] = Requeued(tab[src[k][i]][pos[k][i]])
  <2>1. CASE IsMoved(k, i)
    <3>1. src[k][i] = k1 /\ pos[k][i] = a + (i - h)
      BY <1>7, <2>1
    <3>2. /\ a + (i - h) \in 1..Len(q) /\ a + (i - h) > a
          /\ new[k][i] = Requeued(q[a + (i - h)])
      BY <1>8, <2>1
    <3>3. q[a + (i - h)] \in Entries
      BY <1>1, <3>2
    <3>4. Like(new[k][i], q[a + (i - h)])
      BY <3>2, <3>3, RequeuedFacts
    <3>5. a + (i - h) \in Nat /\ a + (i - h) \in DOMAIN q
      BY <1>1, <3>2
    <3> HIDE DEF IsMoved, Like
    <3> QED BY <3>1, <3>2, <3>4, <3>5 DEF q
  <2>2. CASE ~IsMoved(k, i) /\ k = k1
    <3>1. src[k][i] = k1 /\ pos[k][i] = a + b + i
      BY <1>7, <2>2
    <3>2. a + b + i \in 1..Len(q) /\ a + b + i > a /\ new[k][i] = q[a + b + i]
      BY <1>9, <2>2
    <3>3. a + b + i \in Nat /\ a + b + i \in DOMAIN q
      BY <1>1, <3>2
    <3> QED BY <2>2, <3>1, <3>2, <3>3 DEF q
  <2>3. CASE ~IsMoved(k, i) /\ k # k1
    <3>1. src[k][i] = k /\ pos[k][i] = i
      BY <1>7, <2>3
    <3>2. i \in DOMAIN tab[k] /\ new[k][i] = tab[k][i]
      BY <1>10, <2>3
    <3> QED BY <2>3, <3>1, <3>2
  <2> QED BY <2>1, <2>2, <2>3
<1>12. ASSUME NEW k \in Keys, NEW i \in DOMAIN new[k], NEW l \in Keys, NEW j \in DOMAIN new[l],
              src[k][i] = src[l][j], pos[k][i] = pos[l][j]
       PROVE  k = l /\ i = j
  <2>1. /\ i \in Nat /\ i >= 1
        /\ src[k][i] = IF IsMoved(k, i) THEN k1 ELSE k
        /\ pos[k][i] = IF IsMoved(k, i) THEN a + (i - h)
                       ELSE IF k = k1 THEN a + b + i ELSE i
    BY ONLY <1>7
  <2>2. /\ j \in Nat /\ j >= 1
        /\ src[l][j] = IF IsMoved(l, j) THEN k1 ELSE l
        /\ pos[l][j] = IF IsMoved(l, j) THEN a + (j - h)
                       ELSE IF l = k1 THEN a + b + j ELSE j
    BY ONLY <1>7
  <2>3. IsMoved(k, i) => k = k2 /\ i - h \in 1..b
    BY ONLY <1>8
  <2>4. IsMoved(l, j) => l = k2 /\ j - h \in 1..b
    BY ONLY <1>8
  <2> HIDE DEF IsMoved
  <2>5. a \in Nat /\ b \in Nat /\ h \in Nat
    BY <1>2, <1>3
  <2>6. CASE IsMoved(k, i) /\ IsMoved(l, j)
    <3>1. k = k2 /\ l = k2 /\ pos[k][i] = a + (i - h) /\ pos[l][j] = a + (j - h)
      BY <2>1, <2>2, <2>3, <2>4, <2>6
    <3>2. a + (i - h) = a + (j - h)
      BY <1>12, <3>1
    <3> QED BY <2>1, <2>2, <2>5, <3>1, <3>2
  <2>7. CASE IsMoved(k, i) /\ ~IsMoved(l, j)
    <3>1. src[k][i] = k1 /\ pos[k][i] = a + (i - h) /\ src[l][j] = l
      BY <2>1, <2>2, <2>7
    <3>2. l = k1
      BY <1>12, <3>1
    <3>3. pos[l][j] = a + b + j
      BY <2>2, <2>7, <3>2
    <3>4. a + (i - h) = a + b + j
      BY <1>12, <3>1, <3>3
    <3>5. i - h <= b
      BY <2>1, <2>3, <2>5, <2>7
    <3> QED BY ONLY <2>1, <2>2, <2>5, <3>4, <3>5
  <2>8. CASE ~IsMoved(k, i) /\ IsMoved(l, j)
    <3>1. src[l][j] = k1 /\ pos[l][j] = a + (j - h) /\ src[k][i] = k
      BY <2>1, <2>2, <2>8
    <3>2. k = k1
      BY <1>12, <3>1
    <3>3. pos[k][i] = a + b + i
      BY <2>1, <2>8, <3>2
    <3>4. a + (j - h) = a + b + i
      BY <1>12, <3>1, <3>3
    <3>5. j - h <= b
      BY <2>2, <2>4, <2>5, <2>8
    <3> QED BY ONLY <2>1, <2>2, <2>5, <3>4, <3>5
  <2>9. CASE ~IsMoved(k, i) /\ ~IsMoved(l, j)
    <3>1. k = l
      BY <1>12, <2>1, <2>2, <2>9
    <3>2. CASE k = k1
      <4>1. a + b + i = a + b + j
        BY <1>12, <2>1, <2>2, <2>9, <3>1, <3>2
      <4> QED BY <2>1, <2>2, <2>5, <3>1, <4>1
    <3>3. CASE k # k1
      BY <1>12, <2>1, <2>2, <2>9, <3>1, <3>3
    <3> QED BY <3>2, <3>3
  <2> QED BY <2>6, <2>7, <2>8, <2>9
<1>13. From(sel, tab[k1])
  <2>1. \A j \in DOMAIN sel : j \in DOMAIN q /\ sel[j] = q[j]
    BY <1>1, <1>2
  <2> QED BY <2>1 DEF From, q
<1>14. Moving(new, tab)
  <2> SUFFICES ASSUME NEW k \in Keys, NEW i \in DOMAIN new[k]
               PROVE  \/ \E j \in DOMAIN tab[k] : new[k][i] = tab[k][j]
                      \/ \E l \in Keys : \E j \in DOMAIN tab[l] : new[k][i] = Requeued(tab[l][j])
    BY DEF Moving
  <2> HIDE DEF Like
  <2> QED BY <1>11
<1>15. Sparse(new)
  <2> SUFFICES ASSUME NEW k \in Keys, NEW l \in Keys,
                      NEW i \in DOMAIN new[k], NEW j \in DOMAIN new[l]
               PROVE  Siblings(new[k][i], new[l][j]) \/ (k = l /\ i = j)
    BY DEF Sparse
  <2> DEFINE c == src[k][i]
             d == src[l][j]
             x == pos[k][i]
             y == pos[l][j]
  <2>1. c \in Keys /\ x \in DOMAIN tab[c] /\ Like(new[k][i], tab[c][x])
    BY ONLY <1>11
  <2>2. d \in Keys /\ y \in DOMAIN tab[d] /\ Like(new[l][j], tab[d][y])
    BY ONLY <1>11
  <2>3. c = d /\ x = y => k = l /\ i = j
    BY ONLY <1>12
  <2> HIDE DEF c, d, x, y
  <2>4. Siblings(tab[c][x], tab[d][y]) \/ (c = d /\ x = y)
    BY <2>1, <2>2 DEF Sparse
  <2> QED BY ONLY <2>1, <2>2, <2>3, <2>4 DEF Siblings, SameCall, IsVector
<1>16. ASSUME NEW k \in Keys, NEW i \in DOMAIN new[k], NEW j \in DOMAIN sel
       PROVE  Siblings(new[k][i], sel[j])
  <2> DEFINE c == src[k][i]
             x == pos[k][i]
  <2>1. /\ c \in Keys /\ x \in DOMAIN tab[c] /\ Like(new[k][i], tab[c][x])
        /\ c = k1 => x > a /\ x \in Nat
    BY ONLY <1>11
  <2>2. j \in DOMAIN tab[k1] /\ sel[j] = tab[k1][j] /\ j \in Nat /\ j <= a
    BY <1>1, <1>2 DEF q
  <2> HIDE DEF c, x
  <2>3. Siblings(tab[c][x], tab[k1][j]) \/ (c = k1 /\ x = j)
    BY <2>1, <2>2 DEF Sparse
  <2>4. ~(c = k1 /\ x = j)
    BY <1>2, <2>1, <2>2
  <2> QED BY ONLY <2>1, <2>2, <2>3, <2>4 DEF Siblings, SameCall, IsVector
<1>17. ASSUME NEW i \in DOMAIN sel, NEW j \in DOMAIN sel
       PROVE  Siblings(sel[i], sel[j]) \/ i = j
  <2>1. /\ i \in DOMAIN tab[k1] /\ sel[i] = tab[k1][i]
        /\ j \in DOMAIN tab[k1] /\ sel[j] = tab[k1][j]
    BY <1>1, <1>2 DEF q
  <2> QED BY <2>1 DEF Sparse
<1> QED BY <1>2, <1>4, <1>13, <1>14, <1>15, <1>16, <1>17 DEF Parted, new

\* The entries of a new call, one for each word it lists, none of a call that
\* is in the table; the table with them, and what it holds.
Fresh(tab, r) ==
  \A k \in Keys : \A i \in DOMAIN tab[k], j \in DOMAIN r : ~SameCall(tab[k][i], r[j])

OfList(r, ks) == Len(r) = Len(ks) /\ ((\A j \in DOMAIN r : IsVector(r[j])) \/ Len(ks) <= 1)

PushOn(tab, r, ks) == [k \in Keys |-> tab[k] \o Only(r, {i \in DOMAIN ks : ks[i] = k})]

Extended(new, tab, r, ks) ==
  /\ new \in Tables /\ Sparse(new)
  /\ \A k \in Keys : \A i \in DOMAIN new[k] :
       \/ \E j \in DOMAIN tab[k] : new[k][i] = tab[k][j]
       \/ \E j \in DOMAIN ks : ks[j] = k /\ new[k][i] = r[j]

\* Pushing the entries of a new call keeps the table sparse.
LEMMA PushFacts ==
  ASSUME NEW tab \in Tables, Sparse(tab), NEW r \in Seq(Entries), NEW ks \in Seq(Keys),
         Fresh(tab, r), OfList(r, ks)
  PROVE  Extended(PushOn(tab, r, ks), tab, r, ks)
<1> DEFINE new == PushOn(tab, r, ks)
<1>01. new = [k \in Keys |-> tab[k] \o Only(r, {i \in DOMAIN ks : ks[i] = k})]
  BY DEF PushOn
<1>02. \A k \in Keys : \A i \in DOMAIN tab[k], j \in DOMAIN r : ~SameCall(tab[k][i], r[j])
  BY DEF Fresh
<1>03. Len(r) = Len(ks) /\ ((\A j \in DOMAIN r : IsVector(r[j])) \/ Len(ks) <= 1)
  BY DEF OfList
<1> HIDE DEF new
<1> DEFINE P == [k \in Keys |-> {i \in DOMAIN ks : ks[i] = k}]
           at == [k \in Keys |-> Only(r, P[k])]
<1>1. \A k \in Keys : P[k] \in SUBSET DOMAIN r /\ \A i \in P[k] : ks[i] = k /\ i \in DOMAIN ks
  BY <1>03
<1>2. new = [k \in Keys |-> tab[k] \o at[k]]
  BY <1>01
<1>3. ASSUME NEW k \in Keys
      PROVE  /\ at[k] \in Seq(Entries)
             /\ \A j \in DOMAIN at[k] : InOrder(P[k])[j] \in P[k] /\ at[k][j] = r[InOrder(P[k])[j]]
             /\ \A a, b \in DOMAIN at[k] : a # b => InOrder(P[k])[a] # InOrder(P[k])[b]
  <2> DEFINE I == P[k]
  <2>1. I \in SUBSET DOMAIN r
    BY ONLY <1>1, k \in Keys
  <2>2. at[k] = Only(r, I)
    OBVIOUS
  <2> HIDE DEF P, at, I
  <2>3. /\ at[k] \in Seq(Entries)
        /\ InOrder(I) \in [DOMAIN at[k] -> I]
        /\ \A j \in DOMAIN at[k] : at[k][j] = r[InOrder(I)[j]]
        /\ \A a, b \in DOMAIN at[k] : a # b => InOrder(I)[a] # InOrder(I)[b]
    BY ONLY <2>1, <2>2, r \in Seq(Entries), OnlyFacts
  <2>4. \A j \in DOMAIN at[k] : InOrder(I)[j] \in I
    BY ONLY <2>3
  <2> QED BY ONLY <2>3, <2>4 DEF I
<1> HIDE DEF P, at
<1>4. ASSUME NEW k \in Keys
      PROVE  /\ tab[k] \in Seq(Entries) /\ new[k] \in Seq(Entries)
             /\ \A i \in DOMAIN new[k] :
                  \/ i \in DOMAIN tab[k] /\ new[k][i] = tab[k][i]
                  \/ /\ i \notin DOMAIN tab[k] /\ i - Len(tab[k]) \in DOMAIN at[k]
                     /\ i \in Nat /\ new[k][i] = at[k][i - Len(tab[k])]
  <2>1. tab[k] \in Seq(Entries) /\ at[k] \in Seq(Entries)
    BY ONLY <1>3, tab \in Tables, k \in Keys DEF Tables
  <2>2. new[k] = tab[k] \o at[k]
    BY ONLY <1>2, k \in Keys
  <2> DEFINE q == tab[k]
             p == at[k]
  <2> HIDE DEF q, p
  <2>3. q \in Seq(Entries) /\ p \in Seq(Entries) /\ new[k] = q \o p
    BY ONLY <2>1, <2>2 DEF q, p
  <2>4. /\ q \o p \in Seq(Entries)
        /\ DOMAIN (q \o p) = 1..(Len(q) + Len(p))
        /\ \A i \in 1..Len(q) : (q \o p)[i] = q[i]
        /\ \A i \in 1..Len(p) : (q \o p)[Len(q) + i] = p[i]
    BY ONLY <2>3
  <2>5. ASSUME NEW i \in DOMAIN new[k]
        PROVE  \/ i \in DOMAIN q /\ new[k][i] = q[i]
               \/ /\ i \notin DOMAIN q /\ i - Len(q) \in DOMAIN p
                  /\ i \in Nat /\ new[k][i] = p[i - Len(q)]
    <3>1. i \in 1..(Len(q) + Len(p)) /\ Len(q) \in Nat /\ Len(p) \in Nat
      BY ONLY <2>3, <2>4, i \in DOMAIN new[k]
    <3>2. DOMAIN q = 1..Len(q) /\ DOMAIN p = 1..Len(p)
      BY ONLY <2>3
    <3>3. CASE i <= Len(q)
      <4>1. i \in 1..Len(q)
        BY ONLY <3>1, <3>3
      <4> QED BY ONLY <2>3, <2>4, <3>2, <4>1
    <3>4. CASE ~(i <= Len(q))
      <4>1. i \notin 1..Len(q) /\ i - Len(q) \in 1..Len(p) /\ i \in Nat /\ Len(q) + (i - Len(q)) = i
        BY ONLY <3>1, <3>4
      <4>2. (q \o p)[Len(q) + (i - Len(q))] = p[i - Len(q)]
        BY ONLY <2>4, <4>1
      <4> QED BY ONLY <2>3, <3>2, <4>1, <4>2
    <3> QED BY ONLY <3>3, <3>4
  <2> QED BY ONLY <2>3, <2>4, <2>5 DEF q, p
<1>5. new \in Tables
  BY ONLY <1>2, <1>4 DEF Tables
<1>6. ASSUME NEW k \in Keys, NEW i \in DOMAIN new[k]
      PROVE  \/ \E j \in DOMAIN tab[k] : new[k][i] = tab[k][j]
             \/ \E j \in DOMAIN ks : ks[j] = k /\ new[k][i] = r[j]
  <2>1. CASE i \in DOMAIN tab[k] /\ new[k][i] = tab[k][i]
    BY ONLY <2>1
  <2>2. CASE i - Len(tab[k]) \in DOMAIN at[k] /\ new[k][i] = at[k][i - Len(tab[k])]
    <3> DEFINE j == InOrder(P[k])[i - Len(tab[k])]
    <3>1. j \in P[k] /\ new[k][i] = r[j]
      BY ONLY <1>3, <2>2, k \in Keys
    <3> HIDE DEF j
    <3>2. ks[j] = k /\ j \in DOMAIN ks
      BY ONLY <1>1, <3>1, k \in Keys
    <3> QED BY ONLY <3>1, <3>2
  <2> QED BY ONLY <1>4, <2>1, <2>2, k \in Keys, i \in DOMAIN new[k]
<1>7. Sparse(new)
  <2> SUFFICES ASSUME NEW k \in Keys, NEW l \in Keys,
                      NEW i \in DOMAIN new[k], NEW j \in DOMAIN new[l]
               PROVE  Siblings(new[k][i], new[l][j]) \/ (k = l /\ i = j)
    BY DEF Sparse
  <2>1. CASE i \in DOMAIN tab[k] /\ j \in DOMAIN tab[l]
    <3>1. new[k][i] = tab[k][i] /\ new[l][j] = tab[l][j]
      BY ONLY <1>4, <2>1, k \in Keys, l \in Keys, i \in DOMAIN new[k], j \in DOMAIN new[l]
    <3> QED BY ONLY <2>1, <3>1, Sparse(tab), k \in Keys, l \in Keys DEF Sparse
  <2>2. ASSUME NEW m \in Keys, NEW x \in DOMAIN new[m], x \notin DOMAIN tab[m]
        PROVE  /\ x - Len(tab[m]) \in DOMAIN at[m] /\ x \in Nat /\ Len(tab[m]) \in Nat
               /\ InOrder(P[m])[x - Len(tab[m])] \in P[m]
               /\ InOrder(P[m])[x - Len(tab[m])] \in DOMAIN r
               /\ new[m][x] = r[InOrder(P[m])[x - Len(tab[m])]]
    <3>1. x - Len(tab[m]) \in DOMAIN at[m] /\ x \in Nat /\ new[m][x] = at[m][x - Len(tab[m])]
      BY ONLY <1>4, <2>2
    <3>2. tab[m] \in Seq(Entries)
      BY ONLY <1>4, <2>2
    <3>3. Len(tab[m]) \in Nat
      BY ONLY <3>2
    <3> DEFINE c == InOrder(P[m])[x - Len(tab[m])]
    <3>4. c \in P[m] /\ at[m][x - Len(tab[m])] = r[c]
      BY ONLY <1>3, <3>1, m \in Keys
    <3> HIDE DEF c
    <3>5. c \in DOMAIN r
      BY ONLY <1>1, <3>4, m \in Keys
    <3> QED BY ONLY <3>1, <3>3, <3>4, <3>5 DEF c
  <2>3. CASE i \in DOMAIN tab[k] /\ j \notin DOMAIN tab[l]
    <3> DEFINE c == InOrder(P[l])[j - Len(tab[l])]
    <3>1. new[k][i] = tab[k][i]
      BY ONLY <1>4, <2>3, k \in Keys, i \in DOMAIN new[k]
    <3>2. c \in DOMAIN r /\ new[l][j] = r[c]
      BY ONLY <2>2, <2>3, l \in Keys, j \in DOMAIN new[l]
    <3> HIDE DEF c
    <3> QED BY <1>02, <2>3, <3>1, <3>2 DEF Siblings, SameCall
  <2>4. CASE i \notin DOMAIN tab[k] /\ j \in DOMAIN tab[l]
    <3> DEFINE c == InOrder(P[k])[i - Len(tab[k])]
    <3>1. new[l][j] = tab[l][j]
      BY ONLY <1>4, <2>4, l \in Keys, j \in DOMAIN new[l]
    <3>2. c \in DOMAIN r /\ new[k][i] = r[c]
      BY ONLY <2>2, <2>4, k \in Keys, i \in DOMAIN new[k]
    <3> HIDE DEF c
    <3> QED BY <1>02, <2>4, <3>1, <3>2 DEF Siblings, SameCall
  <2>5. CASE i \notin DOMAIN tab[k] /\ j \notin DOMAIN tab[l]
    <3> DEFINE c == InOrder(P[k])[i - Len(tab[k])]
               d == InOrder(P[l])[j - Len(tab[l])]
    <3>1. /\ i - Len(tab[k]) \in DOMAIN at[k] /\ i \in Nat /\ Len(tab[k]) \in Nat
          /\ c \in P[k] /\ c \in DOMAIN r /\ new[k][i] = r[c]
      BY ONLY <2>2, <2>5, k \in Keys, i \in DOMAIN new[k]
    <3>2. /\ j - Len(tab[l]) \in DOMAIN at[l] /\ j \in Nat /\ Len(tab[l]) \in Nat
          /\ d \in P[l] /\ d \in DOMAIN r /\ new[l][j] = r[d]
      BY ONLY <2>2, <2>5, l \in Keys, j \in DOMAIN new[l]
    <3>3. k = l /\ i - Len(tab[k]) # j - Len(tab[l]) => c # d
      BY ONLY <1>3, <3>1, <3>2, k \in Keys, l \in Keys
    <3> HIDE DEF c, d
    <3>4. CASE \A x \in DOMAIN r : IsVector(r[x])
      BY ONLY <3>1, <3>2, <3>4 DEF Siblings
    <3>5. CASE Len(ks) <= 1
      <4>1. c = 1 /\ d = 1
        <5>1. c \in DOMAIN ks /\ d \in DOMAIN ks
          BY ONLY <1>1, <3>1, <3>2, k \in Keys, l \in Keys
        <5> QED BY ONLY <3>5, <5>1, ks \in Seq(Keys)
      <4>2. ks[c] = k /\ ks[d] = l
        BY ONLY <1>1, <3>1, <3>2, k \in Keys, l \in Keys
      <4>3. k = l
        BY ONLY <4>1, <4>2
      <4>4. i - Len(tab[k]) = j - Len(tab[k])
        BY ONLY <3>3, <4>1, <4>3
      <4>5. i = j
        BY ONLY <3>1, <3>2, <4>3, <4>4
      <4> QED BY ONLY <4>3, <4>5
    <3> QED BY <1>03, <3>4, <3>5
  <2> QED BY ONLY <2>1, <2>3, <2>4, <2>5
<1>8. Extended(new, tab, r, ks)
  BY ONLY <1>5, <1>6, <1>7 DEF Extended
<1> QED BY <1>8 DEF new

-----------------------------------------------------------------------------
(* Every step keeps the shape *)

\* A deadline is a time, or none.
LEMMA DeadlineType ==
  ASSUME DataInv, NEW x \in 0..NoDeadline
  PROVE  Deadline(x) \in 0..NoDeadline
<1>1. MaxTime \in Nat
  BY FutexAssumption
<1>2. CASE x = NoDeadline
  BY <1>1, <1>2 DEF Deadline, NoDeadline
<1>3. CASE x # NoDeadline
  <2>1. now + x \in Nat /\ NoDeadline - 1 \in Nat
    BY <1>1 DEF NoDeadline, DataInv
  <2>2. Min({now + x, NoDeadline - 1}) \in Nat /\ Min({now + x, NoDeadline - 1}) <= NoDeadline - 1
    BY <2>1, MinTwo
  <2> QED BY <1>1, <1>3, <2>2 DEF Deadline, NoDeadline
<1> QED BY <1>2, <1>3

\* An element of an interval is not above its end.
LEMMA AtMost == ASSUME NEW n, NEW m \in Nat, n \in 1..m PROVE n <= m
OBVIOUS

\* A plain wait lists one word.
LEMMA JustOne == ASSUME NEW n, n \in {1} PROVE n <= 1 /\ n <= 128
OBVIOUS

\* What a wait call is.
LEMMA WaitCallType ==
  ASSUME NEW c \in WaitCalls
  PROVE  /\ c.keys \in Seq(Keys) /\ c.mask \in SUBSET Bits /\ c.timeout \in 0..NoDeadline
         /\ c.vector \in BOOLEAN /\ Len(c.keys) <= FUTEX_WAITV_MAX
         /\ c.vector \/ Len(c.keys) <= 1
<1>1. /\ c.keys \in Seq(Keys) /\ c.mask \in SUBSET Bits /\ c.timeout \in 0..NoDeadline
      /\ c.vector \in BOOLEAN
  BY DEF WaitCalls
<1>2. Len(c.keys) \in IF c.vector THEN 1..FUTEX_WAITV_MAX ELSE {1}
  BY DEF WaitCalls
<1>3. FUTEX_WAITV_MAX = 128
  BY DEF FUTEX_WAITV_MAX
<1>4. CASE c.vector
  <2>1. Len(c.keys) \in 1..FUTEX_WAITV_MAX
    BY <1>2, <1>4, Zenon
  <2>2. Len(c.keys) <= FUTEX_WAITV_MAX
    <3>1. FUTEX_WAITV_MAX \in Nat
      BY <1>3
    <3> QED BY ONLY <2>1, <3>1, AtMost, Zenon
  <2> QED BY <1>1, <1>4, <2>2, Zenon
<1>5. CASE ~c.vector
  <2>1. Len(c.keys) \in {1}
    BY <1>2, <1>5, Zenon
  <2>2. Len(c.keys) <= FUTEX_WAITV_MAX /\ Len(c.keys) <= 1
    BY ONLY <1>3, <2>1, JustOne, Zenon
  <2> QED BY <1>1, <2>2, Zenon
<1> QED BY <1>4, <1>5, Zenon

\* The program of a task after its next call.
LEMMA ProgStep ==
  ASSUME CallInv, NEW t \in Tasks, prog[t] # <<>>, prog' = [prog EXCEPT ![t] = Tail(@)],
         call' = call
  PROVE  CallInv'
<1>1. Waiters \cap Wakers = {}
  BY FutexAssumption
<1>2. prog' = [u \in Tasks |-> IF u = t THEN Tail(prog[t]) ELSE prog[u]]
  BY DEF CallInv
<1>3. ASSUME NEW u \in Waiters PROVE prog'[u] \in Seq(WaitCalls)
  BY <1>2 DEF CallInv, Tasks
<1>4. ASSUME NEW w \in Wakers PROVE prog'[w] \in Seq(WakeCalls)
  BY <1>2 DEF CallInv, Tasks
<1> QED BY <1>2, <1>3, <1>4 DEF CallInv

\* The empty call is one a waiter may be in.
LEMMA NoCallType == NoCall \in WaitRecords /\ IsWait(NoCall)
<1>1. MaxTime \in Nat
  BY FutexAssumption
<1>2. <<>> \in Seq(Keys) /\ <<>> \in Seq(Values)
  OBVIOUS
<1>3. NoCall \in WaitRecords
  BY <1>1, <1>2 DEF NoCall, WaitRecords, NoDeadline
<1> QED BY <1>3 DEF NoCall, IsWait, FUTEX_WAITV_MAX

\* CallWait copies a wait call into the call of its task.
LEMMA CallWaitCall ==
  ASSUME ShapeInv, NEW t \in Waiters, CallWait(t)
  PROVE  CallInv'
<1> DEFINE c == Head(prog[t])
           r == [keys |-> c.keys, vals |-> [i \in DOMAIN c.keys |-> val[c.keys[i]]],
                 mask |-> c.mask, deadline |-> Deadline(c.timeout),
                 vector |-> c.vector, number |-> Len(prog[t])]
<1>1. prog[t] \in Seq(WaitCalls) /\ prog[t] # <<>> /\ t \in Tasks
  BY DEF CallWait, ShapeInv, CallInv, Tasks
<1>2. c \in WaitCalls /\ Len(prog[t]) \in Nat
  BY <1>1
<1>3. call' = [call EXCEPT ![t] = r]
  BY DEF CallWait
<1> HIDE DEF c
<1>4. /\ c.keys \in Seq(Keys) /\ c.mask \in SUBSET Bits /\ c.timeout \in 0..NoDeadline
      /\ c.vector \in BOOLEAN /\ Len(c.keys) <= FUTEX_WAITV_MAX
      /\ c.vector \/ Len(c.keys) <= 1
  BY <1>2, WaitCallType
<1>5. Deadline(c.timeout) \in 0..NoDeadline
  BY <1>4, DeadlineType DEF ShapeInv
<1> DEFINE v == [i \in DOMAIN c.keys |-> val[c.keys[i]]]
<1>6. v \in Seq(Values) /\ Len(v) = Len(c.keys)
  <2>1. \A i \in DOMAIN c.keys : val[c.keys[i]] \in Values
    BY <1>4 DEF ShapeInv, DataInv
  <2> QED BY <1>4, <2>1
<1> HIDE DEF v
<1>7. r.keys = c.keys /\ r.vals = v /\ r.vector = c.vector /\ r \in WaitRecords
  BY <1>2, <1>4, <1>5, <1>6 DEF WaitRecords, v
<1>8. IsWait(r)
  BY <1>4, <1>6, <1>7 DEF IsWait
<1> HIDE DEF r
<1>9. call' \in [Waiters -> WaitRecords] /\ \A u \in Waiters : IsWait(call'[u])
  BY <1>3, <1>7, <1>8 DEF ShapeInv, CallInv
<1>10. prog' = [prog EXCEPT ![t] = Tail(@)]
  BY DEF CallWait
<1>11. prog' = [u \in Tasks |-> IF u = t THEN Tail(prog[t]) ELSE prog[u]]
  BY <1>10 DEF ShapeInv, CallInv
<1>12. Waiters \cap Wakers = {}
  BY FutexAssumption
<1>13. ASSUME NEW u \in Waiters PROVE prog'[u] \in Seq(WaitCalls)
  BY <1>1, <1>11 DEF ShapeInv, CallInv, Tasks
<1>14. ASSUME NEW w \in Wakers PROVE prog'[w] \in Seq(WakeCalls)
  BY <1>11, <1>12 DEF ShapeInv, CallInv, Tasks
<1> QED BY <1>9, <1>11, <1>13, <1>14 DEF CallInv

-----------------------------------------------------------------------------
(* What the sections of the table leave behind *)

\* What a wake section of waker w leaves: the claims it made are of calls that
\* have no entry left and are not claimed twice, and a change of a word is
\* settled only for an empty queue.
Sectioned(w) ==
  /\ table' \in Tables /\ Sparse(table') /\ Moving(table', table)
  /\ toWake' = [toWake EXCEPT ![w] = toWake'[w]] /\ toWake'[w] \in Seq(Entries)
  /\ \A j \in DOMAIN toWake'[w] : \E k \in Keys : \E i \in DOMAIN table[k] :
       toWake'[w][j] = table[k][i]
  /\ \A i, j \in DOMAIN toWake'[w] : SameCall(toWake'[w][i], toWake'[w][j]) => i = j
  /\ \A k \in Keys : \A i \in DOMAIN table'[k], j \in DOMAIN toWake'[w] :
       ~SameCall(toWake'[w][j], table'[k][i])
  /\ val' \in [Keys -> Values] /\ owing' \in [Keys -> BOOLEAN]
  /\ \A k \in Keys : owing[k] \/ val'[k] # val[k] => owing'[k] \/ table'[k] = <<>>

\* Entries that moved and then were thinned have moved.
LEMMA ThinMoving == ASSUME NEW a, NEW b, NEW c, Thin(a, b), Moving(b, c) PROVE Moving(a, c)
<1> SUFFICES ASSUME NEW k \in Keys, NEW i \in DOMAIN a[k]
             PROVE  \/ \E j \in DOMAIN c[k] : a[k][i] = c[k][j]
                    \/ \E l \in Keys : \E j \in DOMAIN c[l] : a[k][i] = Requeued(c[l][j])
  BY DEF Moving
<1>1. PICK j \in DOMAIN b[k] : a[k][i] = b[k][j]
  BY DEF Thin
<1> QED BY <1>1 DEF Moving

\* Entries that stay are a case of entries that moved.
LEMMA StaysMoving == ASSUME NEW a, NEW b, Thin(a, b) PROVE Moving(a, b)
BY DEF Thin, Moving

\* The end of a section, whatever it selected.
LEMMA SectionEnd ==
  ASSUME FutexInv, NEW w \in Wakers, NEW tab \in Tables, NEW sel \in Seq(Entries), NEW keys,
         Moving(tab, table), Parted(tab, sel),
         \A j \in DOMAIN sel : \E k \in Keys : \E i \in DOMAIN table[k] : sel[j] = table[k][i],
         FinishStoring(w, tab, sel, keys), val' \in [Keys -> Values]
  PROVE  Sectioned(w)
<1> DEFINE new == RemoveSiblings(tab, sel)
           com == Commit(sel)
<1>1. /\ table' = new /\ toWake' = [toWake EXCEPT ![w] = com]
      /\ owing' = [k \in Keys |-> /\ owing[k] \/ val'[k] # val[k]
                                  /\ k \in keys => table'[k] # <<>>]
  BY DEF FinishStoring
<1>2. toWake'[w] = com
  BY <1>1 DEF FutexInv, ShapeInv, EntriesInv
<1> HIDE DEF new, com
<1>3. new = RemoveSiblings(tab, sel) /\ com = Commit(sel)
  BY DEF new, com
<1>4. /\ new \in Tables /\ Thin(new, tab) /\ Sparse(new)
      /\ com \in Seq(Entries)
      /\ From(com, sel)
      /\ \A i, j \in DOMAIN com : SameCall(com[i], com[j]) => i = j
      /\ \A k \in Keys : \A i \in DOMAIN new[k], j \in DOMAIN sel :
           ~SameCall(sel[j], new[k][i])
  BY ONLY <1>3, FinishFacts, tab \in Tables, sel \in Seq(Entries), Parted(tab, sel)
<1>5. Moving(new, table)
  BY ONLY <1>4, Moving(tab, table), ThinMoving
<1>6. \A j \in DOMAIN com : \E k \in Keys : \E i \in DOMAIN table[k] : com[j] = table[k][i]
  BY <1>4 DEF From
<1>7. \A k \in Keys : \A i \in DOMAIN new[k], j \in DOMAIN com : ~SameCall(com[j], new[k][i])
  BY <1>4 DEF From
<1>8. owing' \in [Keys -> BOOLEAN]
  BY <1>1, Zenon
<1>9. ASSUME NEW k \in Keys, owing[k] \/ val'[k] # val[k]
      PROVE  owing'[k] \/ table'[k] = <<>>
  BY <1>1, <1>9, Zenon
<1>10. toWake' = [toWake EXCEPT ![w] = toWake'[w]]
  BY ONLY <1>1, <1>2
<1>11. /\ table' \in Tables /\ Sparse(table') /\ Moving(table', table)
       /\ toWake'[w] \in Seq(Entries)
       /\ \A j \in DOMAIN toWake'[w] : \E k \in Keys : \E i \in DOMAIN table[k] :
            toWake'[w][j] = table[k][i]
       /\ \A i, j \in DOMAIN toWake'[w] : SameCall(toWake'[w][i], toWake'[w][j]) => i = j
       /\ \A k \in Keys : \A i \in DOMAIN table'[k], j \in DOMAIN toWake'[w] :
            ~SameCall(toWake'[w][j], table'[k][i])
  <2>1. /\ table' \in Tables /\ Sparse(table') /\ Moving(table', table)
        /\ toWake'[w] \in Seq(Entries)
    BY ONLY <1>1, <1>2, <1>4, <1>5
  <2>2. \A j \in DOMAIN toWake'[w] : \E k \in Keys : \E i \in DOMAIN table[k] :
          toWake'[w][j] = table[k][i]
    BY ONLY <1>2, <1>6
  <2>3. \A i, j \in DOMAIN toWake'[w] : SameCall(toWake'[w][i], toWake'[w][j]) => i = j
    BY ONLY <1>2, <1>4
  <2>4. \A k \in Keys : \A i \in DOMAIN table'[k], j \in DOMAIN toWake'[w] :
          ~SameCall(toWake'[w][j], table'[k][i])
    BY ONLY <1>1, <1>2, <1>7
  <2> QED BY <2>1, <2>2, <2>3, <2>4, Zenon
<1> QED BY <1>8, <1>9, <1>10, <1>11, Zenon DEF Sectioned

\* What the calls of a waker carry.
LEMMA WakeTypes ==
  ASSUME NEW c \in WakeCalls
  PROVE  /\ c.key \in Keys
         /\ c.op = "requeue" => c.key2 \in Keys /\ c.n \in Nat /\ c.m \in Nat
         /\ c.op = "wakeop" => c.key2 \in Keys /\ c.new \in Values
         /\ c.op = "store" => c.new \in Values
BY DEF WakeCalls

\* The next call of a waker is a wake call.
LEMMA HeadCall ==
  ASSUME FutexInv, NEW w \in Wakers, prog[w] # <<>>
  PROVE  Head(prog[w]) \in WakeCalls
<1>1. prog[w] \in Seq(WakeCalls)
  BY DEF FutexInv, ShapeInv, CallInv
<1> QED BY <1>1

\* The word and the value of a store.
LEMMA StoreType ==
  ASSUME FutexInv, NEW w \in Wakers, At(w, "store")
  PROVE  Head(prog[w]).key \in Keys /\ Head(prog[w]).new \in Values
BY HeadCall, WakeTypes DEF At

\* The clear_child_tid word of an exit.
LEMMA ExitType ==
  ASSUME FutexInv, NEW w \in Wakers, At(w, "exit")
  PROVE  Head(prog[w]).key \in Keys
BY HeadCall, WakeTypes DEF At

\* A section that wakes some entries of one queue.
LEMMA OneQueueSection ==
  ASSUME FutexInv, NEW w \in Wakers, NEW k \in Keys, NEW S,
         FinishSection(w, [table EXCEPT ![k] = Reject(table[k], S)], Select(table[k], S), {k})
  PROVE  Sectioned(w)
<1> DEFINE tab == [table EXCEPT ![k] = Reject(table[k], S)]
           sel == Select(table[k], S)
<1>1. val' = val /\ FinishStoring(w, tab, sel, {k})
  BY DEF FinishSection
<1>2. table \in Tables /\ Sparse(table)
  BY DEF FutexInv, ShapeInv, EntriesInv
<1> HIDE DEF tab, sel
<1>3. tab = [table EXCEPT ![k] = Reject(table[k], S)] /\ sel = Select(table[k], S)
  BY DEF tab, sel
<1>4. /\ tab \in Tables /\ sel \in Seq(Entries) /\ Thin(tab, table)
      /\ From(sel, table[k]) /\ Parted(tab, sel)
  BY ONLY <1>2, <1>3, k \in Keys, SelectFacts
<1>5. Moving(tab, table)
  BY <1>4, StaysMoving
<1>6. \A j \in DOMAIN sel : \E l \in Keys : \E i \in DOMAIN table[l] : sel[j] = table[l][i]
  BY <1>4 DEF From
<1>7. val' \in [Keys -> Values]
  BY <1>1 DEF FutexInv, ShapeInv, DataInv
<1> QED BY <1>1, <1>4, <1>5, <1>6, <1>7, SectionEnd

\* FUTEX_WAKE is a section of one queue.
LEMMA FutexWakeSection ==
  ASSUME FutexInv, NEW w \in Wakers, FutexWake(w)
  PROVE  Sectioned(w)
<1> DEFINE c == Head(prog[w])
           S == Chosen(table[c.key], c.n, c.mask)
<1>1. c.key \in Keys
  BY HeadCall, WakeTypes DEF FutexWake, At
<1>2. FinishSection(w, [table EXCEPT ![c.key] = Reject(table[c.key], S)],
                    Select(table[c.key], S), {c.key})
  BY DEF FutexWake
<1> HIDE DEF c, S
<1> QED BY <1>1, <1>2, OneQueueSection

\* The wake of an exit is a section of one queue.
LEMMA FutexWakeOneSection ==
  ASSUME FutexInv, NEW w \in Wakers, FutexWakeOne(w)
  PROVE  Sectioned(w)
<1> DEFINE k == Head(prog[w]).key
           S == Chosen(table[k], 1, Bits)
<1>1. k \in Keys
  <2>1. prog[w] # <<>>
    BY DEF FutexWakeOne, FutexInv, ShapeInv, PlaceInv
  <2> QED BY <2>1, HeadCall, WakeTypes
<1>2. FinishSection(w, [table EXCEPT ![k] = Reject(table[k], S)], Select(table[k], S), {k})
  BY DEF FutexWakeOne, FutexInv, ShapeInv, EntriesInv, Tables
<1> HIDE DEF k, S
<1> QED BY <1>1, <1>2, OneQueueSection

\* FUTEX_(CMP_)REQUEUE wakes a stretch of a queue and moves another, or does nothing.
LEMMA FutexCmpRequeueSection ==
  ASSUME FutexInv, NEW w \in Wakers, FutexCmpRequeue(w)
  PROVE  Sectioned(w)
<1> DEFINE c == Head(prog[w])
<1>1. c \in WakeCalls /\ c.op = "requeue" /\ pc[w] = "user"
  BY HeadCall DEF FutexCmpRequeue, At
<1>2. c.key \in Keys /\ c.key2 \in Keys /\ c.n \in Nat /\ c.m \in Nat
  BY <1>1, WakeTypes
<1>3. table \in Tables /\ Sparse(table)
  BY DEF FutexInv, ShapeInv, EntriesInv
<1>4. \/ Requeue(w, c.key, c.key2, c.n, c.m)
      \/ UNCHANGED <<val, table, toWake, owing>>
  BY DEF FutexCmpRequeue
<1> HIDE DEF c
<1>5. CASE Requeue(w, c.key, c.key2, c.n, c.m)
  <2> DEFINE q    == table[c.key]
             sel  == SubSeq(q, 1, Min({c.n, Len(q)}))
             mov  == SubSeq(q, Len(sel) + 1, Min({Len(sel) + c.m, Len(q)}))
             rest == SubSeq(q, Len(sel) + Len(mov) + 1, Len(q))
             tab  == RequeuedTable(table, c.key, c.key2, mov, rest)
  <2>1. FinishSection(w, tab, sel, {c.key})
    <3> DEFINE tab1 == [table EXCEPT ![c.key] = rest]
               moved == [i \in DOMAIN mov |-> [mov[i] EXCEPT !.exp = Moved]]
               tab2 == [tab1 EXCEPT ![c.key2] = @ \o moved]
    <3>1. FinishSection(w, tab2, sel, {c.key})
      BY <1>5 DEF Requeue
    <3> HIDE DEF mov, rest, sel
    <3>2. tab2 = tab
      BY <1>2, <1>3 DEF RequeuedTable, Requeued, Tables
    <3> QED BY <3>1, <3>2
  <2>2. q \in Seq(Entries)
    BY <1>2, <1>3 DEF Tables
  <2>3. Parts(q, sel, mov, rest)
    <3> HIDE DEF q
    <3> QED BY <1>2, <2>2, PartsFacts
  <2> HIDE DEF sel, mov, rest, tab
  <2>4. /\ tab \in Tables /\ sel \in Seq(Entries) /\ From(sel, table[c.key])
        /\ Moving(tab, table) /\ Parted(tab, sel)
    BY <1>2, <1>3, <2>3, RequeueFacts DEF tab
  <2>5. \A j \in DOMAIN sel : \E l \in Keys : \E i \in DOMAIN table[l] : sel[j] = table[l][i]
    BY <1>2, <2>4 DEF From
  <2>6. val' \in [Keys -> Values] /\ FinishStoring(w, tab, sel, {c.key})
    BY <2>1 DEF FinishSection, FutexInv, ShapeInv, DataInv
  <2> QED BY <2>4, <2>5, <2>6, SectionEnd
<1>6. CASE UNCHANGED <<val, table, toWake, owing>>
  <2>1. toWake[w] = <<>>
    BY <1>1 DEF FutexInv, ShapeInv, PlaceInv
  <2>2. toWake' = [toWake EXCEPT ![w] = toWake'[w]] /\ toWake'[w] \in Seq(Entries)
    BY <1>6 DEF FutexInv, ShapeInv, EntriesInv
  <2>3. DOMAIN toWake'[w] = {}
    BY <1>6, <2>1
  <2>4. Moving(table', table)
    BY <1>6 DEF Moving
  <2>5. table' \in Tables /\ Sparse(table')
    BY <1>3, <1>6
  <2>6. val' \in [Keys -> Values] /\ owing' \in [Keys -> BOOLEAN] /\ val' = val /\ owing' = owing
    BY <1>6 DEF FutexInv, ShapeInv, DataInv
  <2> QED BY <2>2, <2>3, <2>4, <2>5, <2>6 DEF Sectioned
<1> QED BY <1>4, <1>5, <1>6

\* FUTEX_WAKE_OP selects from two queues, one after the other.
LEMMA FutexWakeOpSection ==
  ASSUME FutexInv, NEW w \in Wakers, FutexWakeOp(w)
  PROVE  Sectioned(w)
<1> DEFINE c  == Head(prog[w])
           S1 == Chosen(table[c.key], c.n, Bits)
           tab1 == [table EXCEPT ![c.key] = Reject(table[c.key], S1)]
           S2 == IF val[c.key2] = c.cmp THEN Chosen(tab1[c.key2], c.m, Bits) ELSE {}
           tab2 == [tab1 EXCEPT ![c.key2] = Reject(tab1[c.key2], S2)]
           s1 == Select(table[c.key], S1)
           s2 == Select(tab1[c.key2], S2)
<1>1. c \in WakeCalls /\ c.op = "wakeop"
  BY HeadCall DEF FutexWakeOp, At
<1>2. c.key \in Keys /\ c.key2 \in Keys /\ c.new \in Values
  BY <1>1, WakeTypes
<1>3. table \in Tables /\ Sparse(table)
  BY DEF FutexInv, ShapeInv, EntriesInv
<1>4. val' = [val EXCEPT ![c.key2] = c.new] /\ FinishStoring(w, tab2, s1 \o s2, {c.key, c.key2})
  <2> DEFINE x1 == [table EXCEPT ![c.key] = Reject(@, S1)]
  <2>1. x1 = tab1
    BY <1>2, <1>3 DEF Tables
  <2>2. LET sel2 == IF val[c.key2] = c.cmp THEN Chosen(x1[c.key2], c.m, Bits) ELSE {}
            x2  == [x1 EXCEPT ![c.key2] = Reject(@, sel2)]
            sel == Select(table[c.key], S1) \o Select(x1[c.key2], sel2)
        IN /\ val' = [val EXCEPT ![c.key2] = c.new]
           /\ FinishStoring(w, x2, sel, {c.key, c.key2})
    BY DEF FutexWakeOp
  <2> HIDE DEF x1, tab1, S1, c
  <2> QED BY <2>1, <2>2
<1> HIDE DEF c, S1, s1, tab1
<1>5. tab1 = [table EXCEPT ![c.key] = Reject(table[c.key], S1)] /\ s1 = Select(table[c.key], S1)
  BY DEF tab1, s1
<1>6. /\ tab1 \in Tables /\ s1 \in Seq(Entries) /\ Thin(tab1, table)
      /\ From(s1, table[c.key]) /\ Parted(tab1, s1)
  BY ONLY <1>2, <1>3, <1>5, SelectFacts
<1> HIDE DEF S2, tab2, s2
<1>7. tab2 = [tab1 EXCEPT ![c.key2] = Reject(tab1[c.key2], S2)] /\ s2 = Select(tab1[c.key2], S2)
  BY DEF tab2, s2
<1>8. Sparse(tab1)
  BY <1>6 DEF Parted
<1>9. /\ tab2 \in Tables /\ s2 \in Seq(Entries) /\ Thin(tab2, tab1)
      /\ From(s2, tab1[c.key2]) /\ Parted(tab2, s2)
  BY ONLY <1>2, <1>6, <1>7, <1>8, SelectFacts
<1> DEFINE sel == s1 \o s2
<1>10. /\ sel \in Seq(Entries)
       /\ DOMAIN sel = 1..(Len(s1) + Len(s2))
       /\ \A j \in DOMAIN sel : \/ j \in DOMAIN s1 /\ sel[j] = s1[j]
                                \/ /\ j \notin DOMAIN s1 /\ j - Len(s1) \in DOMAIN s2
                                   /\ sel[j] = s2[j - Len(s1)]
  <2>1. s1 \in Seq(Entries) /\ s2 \in Seq(Entries)
    BY <1>6, <1>9
  <2> QED BY ONLY <2>1
<1> HIDE DEF sel
<1>11. \A j \in DOMAIN sel : \E k \in Keys : \E i \in DOMAIN table[k] : sel[j] = table[k][i]
  <2> SUFFICES ASSUME NEW j \in DOMAIN sel
               PROVE  \E k \in Keys : \E i \in DOMAIN table[k] : sel[j] = table[k][i]
    OBVIOUS
  <2>1. CASE j \in DOMAIN s1 /\ sel[j] = s1[j]
    BY <1>2, <1>6, <2>1 DEF From
  <2>2. CASE j - Len(s1) \in DOMAIN s2 /\ sel[j] = s2[j - Len(s1)]
    <3>1. PICK i \in DOMAIN tab1[c.key2] : sel[j] = tab1[c.key2][i]
      BY <1>9, <2>2 DEF From
    <3>2. PICK x \in DOMAIN table[c.key2] : tab1[c.key2][i] = table[c.key2][x]
      BY <1>2, <1>6 DEF Thin
    <3> QED BY <1>2, <3>1, <3>2
  <2> QED BY <1>10, <2>1, <2>2
<1>12. Moving(tab2, table)
  BY <1>6, <1>9, StaysMoving, ThinMoving
<1>13. Parted(tab2, sel)
  <2>1. ASSUME NEW k \in Keys, NEW i \in DOMAIN tab2[k], NEW j \in DOMAIN sel
        PROVE  Siblings(tab2[k][i], sel[j])
    <3>1. CASE j \in DOMAIN s1 /\ sel[j] = s1[j]
      <4>1. PICK x \in DOMAIN tab1[k] : tab2[k][i] = tab1[k][x]
        BY <1>9 DEF Thin
      <4> QED BY <1>6, <3>1, <4>1 DEF Parted
    <3>2. CASE j - Len(s1) \in DOMAIN s2 /\ sel[j] = s2[j - Len(s1)]
      BY <1>9, <3>2 DEF Parted
    <3> QED BY <1>10, <3>1, <3>2
  <2>2. ASSUME NEW a \in DOMAIN s1, NEW b \in DOMAIN s2
        PROVE  Siblings(s1[a], s2[b]) /\ Siblings(s2[b], s1[a])
    <3>1. PICK x \in DOMAIN tab1[c.key2] : s2[b] = tab1[c.key2][x]
      BY <1>9 DEF From
    <3>2. Siblings(tab1[c.key2][x], s1[a])
      BY <1>2, <1>6 DEF Parted
    <3> QED BY <3>1, <3>2 DEF Siblings, SameCall
  <2>3. ASSUME NEW i \in DOMAIN sel, NEW j \in DOMAIN sel
        PROVE  Siblings(sel[i], sel[j]) \/ i = j
    <3>0. i \in Nat /\ j \in Nat /\ Len(s1) \in Nat
      BY <1>6, <1>10
    <3>1. CASE i \in DOMAIN s1 /\ sel[i] = s1[i] /\ j \in DOMAIN s1 /\ sel[j] = s1[j]
      BY <1>6, <3>1 DEF Parted
    <3>2. CASE i \in DOMAIN s1 /\ sel[i] = s1[i] /\ j - Len(s1) \in DOMAIN s2 /\ sel[j] = s2[j - Len(s1)]
      BY <2>2, <3>2
    <3>3. CASE i - Len(s1) \in DOMAIN s2 /\ sel[i] = s2[i - Len(s1)] /\ j \in DOMAIN s1 /\ sel[j] = s1[j]
      BY <2>2, <3>3
    <3>4. CASE /\ i - Len(s1) \in DOMAIN s2 /\ sel[i] = s2[i - Len(s1)]
               /\ j - Len(s1) \in DOMAIN s2 /\ sel[j] = s2[j - Len(s1)]
      <4>1. Siblings(s2[i - Len(s1)], s2[j - Len(s1)]) \/ i - Len(s1) = j - Len(s1)
        BY <1>9, <3>4 DEF Parted
      <4>2. i - Len(s1) = j - Len(s1) => i = j
        BY <3>0
      <4> QED BY <3>4, <4>1, <4>2
    <3> QED BY <1>10, <3>1, <3>2, <3>3, <3>4
  <2> QED BY <1>9, <2>1, <2>3 DEF Parted
<1>14. val' \in [Keys -> Values]
  BY <1>2, <1>4 DEF FutexInv, ShapeInv, DataInv
<1>15. FinishStoring(w, tab2, sel, {c.key, c.key2})
  BY <1>4 DEF sel
<1> QED BY <1>9, <1>10, <1>11, <1>12, <1>13, <1>14, <1>15, SectionEnd

-----------------------------------------------------------------------------
(* What a waiter and the scheduler loop do to the table *)

\* The least of a set of naturals.
LEMMA MinFacts ==
  ASSUME NEW T \in SUBSET Nat, T # {}
  PROVE  Min(T) \in T /\ \A y \in T : Min(T) <= y
<1>1. \E x \in T : \A y \in T : x <= y
  BY LeastNat
<1> QED BY <1>1 DEF Min

\* One place of a sequence.
LEMMA OnlyOne ==
  ASSUME NEW S, NEW q \in Seq(S), NEW i \in DOMAIN q
  PROVE  Only(q, {i}) = <<q[i]>>
<1> DEFINE o == Only(q, {i})
<1>1. {i} \in SUBSET DOMAIN q /\ DOMAIN q = 1..Len(q) /\ Len(q) \in Nat
  OBVIOUS
<1>2. Cardinality({i}) = 1
  BY FS_Singleton
<1>3. InOrder({i}) \in [1..1 -> {i}]
  BY <1>1, <1>2, InOrderFacts
<1>4. /\ o \in Seq(S) /\ InOrder({i}) \in [DOMAIN o -> {i}]
      /\ \A j \in DOMAIN o : o[j] = q[InOrder({i})[j]]
  BY <1>1, OnlyFacts
<1>5. DOMAIN o = 1..1
  BY <1>3, <1>4
<1> HIDE DEF o
<1>6. 1 \in DOMAIN o /\ o[1] = q[i]
  BY <1>3, <1>4, <1>5
<1>7. o = <<q[i]>>
  BY <1>4, <1>5, <1>6
<1> QED BY <1>7 DEF o

\* What a waiter pushes.
LEMMA EntryFacts ==
  ASSUME FutexInv, NEW t \in Waiters, NEW i \in DOMAIN call[t].keys
  PROVE  /\ EntryOf(t, i) \in Entries
         /\ EntryOf(t, i).task = t /\ EntryOf(t, i).call = call[t].number
         /\ EntryOf(t, i).exp = call[t].vals[i] /\ EntryOf(t, i).deadline = call[t].deadline
         /\ call[t].vector => IsVector(EntryOf(t, i))
         /\ call[t].keys[i] \in Keys
<1> DEFINE x == IF call[t].vector THEN i - 1 ELSE NoIndex
<1>1. /\ call[t].keys \in Seq(Keys) /\ call[t].vals \in Seq(Values) /\ call[t].mask \in SUBSET Bits
      /\ call[t].deadline \in 0..NoDeadline /\ call[t].number \in Nat
      /\ Len(call[t].vals) = Len(call[t].keys) /\ Len(call[t].keys) <= FUTEX_WAITV_MAX
  BY DEF FutexInv, ShapeInv, CallInv, IsWait, WaitRecords
<1>2. i \in 1..Len(call[t].keys) /\ Len(call[t].keys) \in Nat
  BY <1>1
<1>3. i \in DOMAIN call[t].vals /\ call[t].vals[i] \in Values
  BY <1>1, <1>2
<1>4. i - 1 \in Nat /\ i - 1 # NoIndex /\ NoIndex \in Nat
  <2>1. Len(call[t].keys) <= 128 /\ NoIndex = 128
    BY <1>1 DEF FUTEX_WAITV_MAX, NoIndex
  <2>2. ASSUME NEW n \in Nat, n <= 128, NEW j \in 1..n PROVE j - 1 \in Nat /\ j - 1 # 128
    BY <2>2
  <2>3. i - 1 \in Nat /\ i - 1 # 128
    BY ONLY <1>2, <2>1, <2>2
  <2> QED BY ONLY <2>1, <2>3
<1>5. x \in Nat
  BY ONLY <1>4 DEF x
<1> HIDE DEF x
<1>6. EntryOf(t, i) = [task |-> t, call |-> call[t].number, exp |-> call[t].vals[i],
                       mask |-> call[t].mask, deadline |-> call[t].deadline, index |-> x]
  BY DEF EntryOf, x
<1>7. EntryOf(t, i) \in Entries /\ EntryOf(t, i).index = x
  BY <1>1, <1>3, <1>5, <1>6 DEF Entries
<1>8. call[t].vector => x # NoIndex
  BY <1>4 DEF x
<1>9. call[t].vector => IsVector(EntryOf(t, i))
  BY <1>7, <1>8 DEF IsVector
<1>10. call[t].keys[i] \in Keys
  BY <1>1
<1> QED BY <1>6, <1>7, <1>9, <1>10

\* What is in the table once a waiter has enqueued.
LEMMA PushedFacts ==
  ASSUME FutexInv, NEW t \in Waiters, pc[t] = "enqueue"
  PROVE  /\ Pushed(t) \in Tables /\ Sparse(Pushed(t))
         /\ \A k \in Keys : \A i \in DOMAIN Pushed(t)[k] :
              \/ \E j \in DOMAIN table[k] : Pushed(t)[k][i] = table[k][j]
              \/ \E j \in DOMAIN call[t].keys :
                   call[t].keys[j] = k /\ Pushed(t)[k][i] = EntryOf(t, j)
<1> DEFINE ks == call[t].keys
           r == [i \in DOMAIN ks |-> EntryOf(t, i)]
           new == Pushed(t)
<1>1. table \in Tables /\ Sparse(table) /\ ks \in Seq(Keys) /\ (call[t].vector \/ Len(ks) <= 1)
  BY DEF FutexInv, ShapeInv, EntriesInv, CallInv, IsWait, WaitRecords
<1>2. \A i \in DOMAIN ks : EntryOf(t, i) \in Entries
  BY EntryFacts
<1>3. r \in Seq(Entries) /\ Len(r) = Len(ks) /\ DOMAIN r = DOMAIN ks
  BY <1>1, <1>2
<1>4. new = [k \in Keys |-> table[k] \o Only(r, {i \in DOMAIN ks : ks[i] = k})]
  BY DEF Pushed
<1>5. \A j \in DOMAIN r : r[j] = EntryOf(t, j)
  OBVIOUS
<1> HIDE DEF new, r
<1>6. (\A j \in DOMAIN r : IsVector(r[j])) \/ Len(ks) <= 1
  BY <1>1, <1>3, <1>5, EntryFacts
<1>7. ASSUME NEW k \in Keys, NEW i \in DOMAIN table[k], NEW j \in DOMAIN r
      PROVE  ~SameCall(table[k][i], r[j])
  <2>1. r[j].task = t /\ r[j].call = call[t].number
    BY <1>3, <1>5, EntryFacts
  <2>2. Numbered(table[k][i])
    BY DEF FutexInv, QueueInv, QueuedOk
  <2>3. call[t].number \in Nat /\ table[k][i] \in Entries
    BY <1>1 DEF FutexInv, ShapeInv, CallInv, WaitRecords, Tables
  <2>4. table[k][i].call \in Nat
    BY <2>3 DEF Entries
  <2>5. table[k][i].task = t => table[k][i].call > call[t].number
    BY <2>2 DEF Numbered
  <2> QED BY <2>1, <2>3, <2>4, <2>5 DEF SameCall
<1> HIDE DEF ks
<1>8. /\ new \in Tables /\ Sparse(new)
      /\ \A k \in Keys : \A i \in DOMAIN new[k] :
           \/ \E j \in DOMAIN table[k] : new[k][i] = table[k][j]
           \/ \E j \in DOMAIN ks : ks[j] = k /\ new[k][i] = r[j]
  <2>1. Fresh(table, r)
    BY ONLY <1>7 DEF Fresh
  <2>2. OfList(r, ks)
    BY ONLY <1>3, <1>6 DEF OfList
  <2>3. new = PushOn(table, r, ks)
    BY <1>4 DEF PushOn
  <2>4. Extended(new, table, r, ks)
    BY ONLY <1>1, <1>3, <2>1, <2>2, <2>3, PushFacts
  <2> QED BY <2>4 DEF Extended
<1>9. \A k \in Keys : \A i \in DOMAIN new[k] :
           \/ \E j \in DOMAIN table[k] : new[k][i] = table[k][j]
           \/ \E j \in DOMAIN ks : ks[j] = k /\ new[k][i] = EntryOf(t, j)
  BY ONLY <1>3, <1>5, <1>8
<1>10. new = Pushed(t) /\ ks = call[t].keys
  BY DEF new, ks
<1> QED BY ONLY <1>8, <1>9, <1>10

\* What an expiry leaves: the entry it claims was in the table, and nothing of
\* its call is left there.
Expiring(c, e) ==
  /\ table' \in Tables /\ Sparse(table') /\ Thin(table', table)
  /\ \E k \in Keys : \E i \in DOMAIN table[k] : e = table[k][i]
  /\ \A k \in Keys : \A i \in DOMAIN table'[k] : ~SameCall(e, table'[k][i])
  /\ timer' = [timer EXCEPT ![c] = [pc |-> "deliver", now |-> timer[c].now, entry |-> <<e>>]]

\* Thinning twice is thinning.
LEMMA ThinThin == ASSUME NEW a, NEW b, NEW c, Thin(a, b), Thin(b, c) PROVE Thin(a, c)
<1> SUFFICES ASSUME NEW k \in Keys, NEW i \in DOMAIN a[k]
             PROVE  \E j \in DOMAIN c[k] : a[k][i] = c[k][j]
  BY DEF Thin
<1>1. PICK j \in DOMAIN b[k] : a[k][i] = b[k][j]
  BY DEF Thin
<1> QED BY <1>1 DEF Thin

\* An expiry takes one entry and every sibling out of the table.
LEMMA ExpireSection ==
  ASSUME FutexInv, NEW c \in Cpus, NEW k \in Keys, ExpireOne(c, k)
  PROVE  \E e \in Entries : Expiring(c, e)
<1> DEFINE i == Min(DueAt(c, k))
           e == table[k][i]
           tab == [table EXCEPT ![k] = Only(table[k], DOMAIN table[k] \ {i})]
<1>1. table \in Tables /\ Sparse(table) /\ table[k] \in Seq(Entries)
  BY DEF FutexInv, ShapeInv, EntriesInv, Tables
<1>2. DueAt(c, k) \in SUBSET Nat /\ DueAt(c, k) # {} /\ DueAt(c, k) \subseteq DOMAIN table[k]
  <2>1. DOMAIN table[k] \subseteq Nat
    BY <1>1
  <2> QED BY <2>1 DEF ExpireOne, DueAt
<1>3. i \in DOMAIN table[k]
  BY <1>2, MinFacts
<1>4. /\ table' = RemoveSiblings(tab, <<e>>)
      /\ timer' = [timer EXCEPT ![c] = [pc |-> "deliver", now |-> timer[c].now, entry |-> <<e>>]]
  BY <1>1 DEF ExpireOne, SetTimer, Tables
<1> HIDE DEF i
<1>5. e \in Entries
  BY <1>1, <1>3
<1>6. Only(table[k], {i}) = <<e>>
  BY <1>1, <1>3, OnlyOne
<1> HIDE DEF e, tab
<1>7. tab = [table EXCEPT ![k] = Only(table[k], DOMAIN table[k] \ {i})] /\ e = table[k][i]
  BY DEF tab, e
<1>8. {i} \in SUBSET DOMAIN table[k]
  BY <1>3
<1>9. tab \in Tables /\ <<e>> \in Seq(Entries) /\ Thin(tab, table) /\ Parted(tab, <<e>>)
  BY ONLY <1>1, <1>6, <1>7, <1>8, k \in Keys, DivideFacts
<1>10. /\ table' \in Tables /\ Thin(table', tab) /\ Sparse(table')
       /\ \A l \in Keys : \A x \in DOMAIN table'[l], j \in DOMAIN <<e>> :
            ~SameCall(<<e>>[j], table'[l][x])
  <2> DEFINE com == Commit(<<e>>)
  <2>1. com = Commit(<<e>>)
    OBVIOUS
  <2> HIDE DEF com
  <2> QED BY ONLY <1>4, <1>9, <2>1, FinishFacts
<1>11. \A l \in Keys : \A x \in DOMAIN table'[l] : ~SameCall(e, table'[l][x])
  <2>1. 1 \in DOMAIN <<e>> /\ <<e>>[1] = e
    OBVIOUS
  <2> QED BY ONLY <1>10, <2>1
<1>12. Thin(table', table)
  BY ONLY <1>9, <1>10, ThinThin
<1>13. \E l \in Keys : \E j \in DOMAIN table[l] : e = table[l][j]
  BY <1>3, <1>7
<1>14. Expiring(c, e)
  BY <1>4, <1>10, <1>11, <1>12, <1>13 DEF Expiring
<1> QED BY <1>5, <1>14

\* The deadline that check_futex_timeouts leaves is not after any queued one.
LEMMA FollowingFacts ==
  ASSUME FutexInv
  PROVE  /\ FollowingDeadline \in 0..NoDeadline
         /\ \A k \in Keys : \A i \in DOMAIN table[k] : FollowingDeadline <= table[k][i].deadline
<1> DEFINE D == {NoDeadline} \cup UNION {{table[k][i].deadline : i \in DOMAIN table[k]} : k \in Keys}
<1>1. MaxTime \in Nat /\ NoDeadline \in Nat
  BY FutexAssumption DEF NoDeadline
<1>2. ASSUME NEW k \in Keys, NEW i \in DOMAIN table[k]
      PROVE  table[k][i].deadline \in 0..NoDeadline /\ table[k][i].deadline \in D
  <2>1. table[k][i] \in Entries
    BY DEF FutexInv, ShapeInv, EntriesInv, Tables
  <2> QED BY <2>1 DEF Entries
<1>3. D \in SUBSET Nat /\ NoDeadline \in D
  <2>1. ASSUME NEW d \in D PROVE d \in Nat
    <3>1. CASE d = NoDeadline
      BY <1>1, <3>1
    <3>2. CASE d # NoDeadline
      <4>1. PICK k \in Keys : d \in {table[k][i].deadline : i \in DOMAIN table[k]}
        BY <3>2
      <4>2. PICK i \in DOMAIN table[k] : d = table[k][i].deadline
        BY <4>1
      <4> QED BY <1>1, <1>2, <4>2
    <3> QED BY <3>1, <3>2
  <2> QED BY <2>1
<1>4. FollowingDeadline = Min(D)
  BY DEF FollowingDeadline
<1> HIDE DEF D
<1>5. Min(D) \in D /\ \A y \in D : Min(D) <= y
  BY <1>3, MinFacts
<1>6. Min(D) \in Nat /\ Min(D) <= NoDeadline
  BY <1>3, <1>5
<1> QED BY <1>1, <1>2, <1>4, <1>5, <1>6

\* Where the others are after a section of waker w.
LEMMA SectionPlace ==
  ASSUME FutexInv, NEW w \in Wakers, Sectioned(w), CallWith(w), timer' = timer
  PROVE  PlaceInv'
<1>1. w \in Tasks /\ Waiters \cap Wakers = {}
  BY FutexAssumption DEF Tasks
<1>2. pc' = [pc EXCEPT ![w] = "deliver"] /\ prog' = [prog EXCEPT ![w] = Tail(@)]
  BY DEF CallWith, Goto
<1>3. pc'[w] = "deliver" /\ \A x \in Tasks \ {w} : pc'[x] = pc[x]
  BY <1>1, <1>2 DEF FutexInv, ShapeInv, PlaceInv
<1>4. \A x \in Tasks \ {w} : prog'[x] = prog[x]
  BY <1>2 DEF FutexInv, ShapeInv, CallInv
<1>5. toWake' = [toWake EXCEPT ![w] = toWake'[w]]
  BY DEF Sectioned
<1>6. \A x \in Wakers \ {w} : toWake'[x] = toWake[x]
  BY <1>5 DEF FutexInv, ShapeInv, EntriesInv
<1>7. pc' \in [Tasks -> {"user", "gone"} \cup WaitPcs \cup WakePcs]
  BY <1>2 DEF FutexInv, ShapeInv, PlaceInv, WakePcs
<1>8. \A t \in Waiters : pc'[t] \notin WakePcs
  BY <1>1, <1>3 DEF FutexInv, ShapeInv, PlaceInv, Tasks
<1>9. \A x \in Wakers : pc'[x] \in {"user"} \cup WakePcs
  BY <1>3 DEF FutexInv, ShapeInv, PlaceInv, Tasks, WakePcs
<1>10. \A x \in Wakers : /\ pc'[x] \in {"user", "exit"} => toWake'[x] = <<>>
                         /\ pc'[x] = "wakeup" => toWake'[x] # <<>>
                         /\ pc'[x] = "exit" => prog'[x] # <<>> /\ Head(prog'[x]).op = "exit"
  <2> SUFFICES ASSUME NEW x \in Wakers
               PROVE  /\ pc'[x] \in {"user", "exit"} => toWake'[x] = <<>>
                      /\ pc'[x] = "wakeup" => toWake'[x] # <<>>
                      /\ pc'[x] = "exit" => prog'[x] # <<>> /\ Head(prog'[x]).op = "exit"
    OBVIOUS
  <2>1. CASE x = w
    BY <1>3, <2>1
  <2>2. CASE x # w
    <3>1. x \in Tasks \ {w} /\ x \in Wakers \ {w}
      BY <2>2 DEF Tasks
    <3>2. pc'[x] = pc[x] /\ prog'[x] = prog[x] /\ toWake'[x] = toWake[x]
      BY ONLY <1>3, <1>4, <1>6, <3>1
    <3> QED BY <3>2 DEF FutexInv, ShapeInv, PlaceInv
  <2> QED BY <2>1, <2>2
<1> QED BY <1>7, <1>8, <1>9, <1>10 DEF FutexInv, ShapeInv, PlaceInv

\* The shape after CallWait.
LEMMA CallWaitShape ==
  ASSUME FutexInv, NEW t \in Waiters, CallWait(t)
  PROVE  ShapeInv'
<1> USE FutexAssumption DEF FutexInv, ShapeInv, Goto, flags, waitVars, histVars
<1>1. DataInv'
  BY DEF CallWait, DataInv
<1>2. CallInv'
  BY CallWaitCall
<1>3. EntriesInv'
  BY DEF CallWait, EntriesInv
<1>4. PlaceInv'
  BY DEF CallWait, PlaceInv, WaitPcs, WakePcs, Tasks
<1> QED BY <1>1, <1>2, <1>3, <1>4

\* The shape after Enqueue.
LEMMA EnqueueShape ==
  ASSUME FutexInv, NEW t \in Waiters, Enqueue(t)
  PROVE  ShapeInv'
<1> USE FutexAssumption DEF FutexInv, ShapeInv, Goto, flags, waitVars, histVars, Return
<1>1. DataInv'
  BY DEF Enqueue, DataInv
<1>2. CallInv'
  <2>1. call' \in [Waiters -> WaitRecords] /\ \A u \in Waiters : IsWait(call'[u])
    BY NoCallType DEF Enqueue, CallInv
  <2> QED BY <2>1 DEF Enqueue, CallInv
<1>3. EntriesInv'
  <2>1. table' = table \/ table' = Pushed(t)
    BY DEF Enqueue
  <2>2. pc[t] = "enqueue"
    BY DEF Enqueue
  <2>3. table' \in Tables
    BY <2>1, <2>2, PushedFacts DEF EntriesInv
  <2> QED BY <2>3 DEF Enqueue, EntriesInv
<1>4. PlaceInv'
  BY DEF Enqueue, PlaceInv, WaitPcs, WakePcs, Tasks
<1> QED BY <1>1, <1>2, <1>3, <1>4

\* The shape after PublishDeadline.
LEMMA PublishDeadlineShape ==
  ASSUME FutexInv, NEW t \in Waiters, PublishDeadline(t)
  PROVE  ShapeInv'
<1> USE FutexAssumption DEF FutexInv, ShapeInv, Goto, flags, waitVars, histVars
<1>1. DataInv'
  <2>1. Published(t) \in 0..NoDeadline
    <3>1. next \in Nat /\ call[t].deadline \in Nat /\ next <= NoDeadline /\ NoDeadline \in Nat
      BY DEF DataInv, CallInv, WaitRecords, NoDeadline
    <3>2. Min({next, call[t].deadline}) \in Nat /\ Min({next, call[t].deadline}) <= next
      BY <3>1, MinTwo
    <3> QED BY <3>1, <3>2 DEF Published
  <2> QED BY <2>1 DEF PublishDeadline, DataInv
<1>2. CallInv'
  BY DEF PublishDeadline, CallInv
<1>3. EntriesInv'
  BY DEF PublishDeadline, EntriesInv
<1>4. PlaceInv'
  BY DEF PublishDeadline, PlaceInv, WaitPcs, WakePcs, Tasks
<1> QED BY <1>1, <1>2, <1>3, <1>4

\* The shape after LoopCompleted.
LEMMA LoopCompletedShape ==
  ASSUME FutexInv, NEW t \in Waiters, LoopCompleted(t)
  PROVE  ShapeInv'
<1> USE FutexAssumption DEF FutexInv, ShapeInv, Goto, flags, waitVars, histVars, Return
<1>1. DataInv'
  BY DEF LoopCompleted, DataInv
<1>2. CallInv'
  <2>1. call' \in [Waiters -> WaitRecords] /\ \A u \in Waiters : IsWait(call'[u])
    BY NoCallType DEF LoopCompleted, CallInv
  <2> QED BY <2>1 DEF LoopCompleted, CallInv
<1>3. EntriesInv'
  BY DEF LoopCompleted, EntriesInv
<1>4. PlaceInv'
  BY DEF LoopCompleted, PlaceInv, WaitPcs, WakePcs, Tasks
<1> QED BY <1>1, <1>2, <1>3, <1>4

\* The shape after LoopInterrupted.
LEMMA LoopInterruptedShape ==
  ASSUME FutexInv, NEW t \in Waiters, LoopInterrupted(t)
  PROVE  ShapeInv'
<1> USE FutexAssumption DEF FutexInv, ShapeInv, Goto, flags, waitVars, histVars
<1>1. DataInv'
  BY DEF LoopInterrupted, DataInv
<1>2. CallInv'
  BY DEF LoopInterrupted, CallInv
<1>3. EntriesInv'
  BY DEF LoopInterrupted, EntriesInv
<1>4. PlaceInv'
  BY DEF LoopInterrupted, PlaceInv, WaitPcs, WakePcs, Tasks
<1> QED BY <1>1, <1>2, <1>3, <1>4

\* The shape after LoopBlock.
LEMMA LoopBlockShape ==
  ASSUME FutexInv, NEW t \in Waiters, LoopBlock(t)
  PROVE  ShapeInv'
<1> USE FutexAssumption DEF FutexInv, ShapeInv, Goto, flags, waitVars, histVars
<1>1. DataInv'
  BY DEF LoopBlock, DataInv
<1>2. CallInv'
  BY DEF LoopBlock, CallInv
<1>3. EntriesInv'
  BY DEF LoopBlock, EntriesInv
<1>4. PlaceInv'
  BY DEF LoopBlock, PlaceInv, WaitPcs, WakePcs, Tasks
<1> QED BY <1>1, <1>2, <1>3, <1>4

\* The shape after RemoveTask.
LEMMA RemoveTaskShape ==
  ASSUME FutexInv, NEW t \in Waiters, RemoveTask(t)
  PROVE  ShapeInv'
<1> USE FutexAssumption DEF FutexInv, ShapeInv, Goto, flags, waitVars, histVars, Return, Removed
<1>1. DataInv'
  BY DEF RemoveTask, DataInv
<1>2. CallInv'
  <2>1. call' \in [Waiters -> WaitRecords] /\ \A u \in Waiters : IsWait(call'[u])
    BY NoCallType DEF RemoveTask, CallInv
  <2> QED BY <2>1 DEF RemoveTask, CallInv
<1>3. EntriesInv'
  <2>1. table' \in Tables
    BY WithoutFacts DEF RemoveTask, EntriesInv
  <2> QED BY <2>1 DEF RemoveTask, EntriesInv
<1>4. PlaceInv'
  BY DEF RemoveTask, PlaceInv, WaitPcs, WakePcs, Tasks
<1> QED BY <1>1, <1>2, <1>3, <1>4

\* The shape after Block.
LEMMA BlockShape ==
  ASSUME FutexInv, NEW t \in Waiters, Block(t)
  PROVE  ShapeInv'
<1> USE FutexAssumption DEF FutexInv, ShapeInv, Goto, flags, waitVars, histVars
<1>1. DataInv'
  BY DEF Block, DataInv
<1>2. CallInv'
  BY DEF Block, CallInv
<1>3. EntriesInv'
  BY DEF Block, EntriesInv
<1>4. PlaceInv'
  BY DEF Block, PlaceInv, WaitPcs, WakePcs, Tasks
<1> QED BY <1>1, <1>2, <1>3, <1>4

\* The shape after ExitWaiter.
LEMMA ExitWaiterShape ==
  ASSUME FutexInv, NEW t \in Waiters, ExitWaiter(t)
  PROVE  ShapeInv'
<1> USE FutexAssumption DEF FutexInv, ShapeInv, Goto, flags, waitVars, histVars
<1>1. DataInv'
  BY DEF ExitWaiter, DataInv
<1>2. CallInv'
  BY DEF ExitWaiter, CallInv
<1>3. EntriesInv'
  <2>1. table' \in Tables
    BY WithoutFacts DEF ExitWaiter, EntriesInv
  <2> QED BY <2>1 DEF ExitWaiter, EntriesInv
<1>4. PlaceInv'
  BY DEF ExitWaiter, PlaceInv, WaitPcs, WakePcs, Tasks
<1> QED BY <1>1, <1>2, <1>3, <1>4

\* The shape after SignalTask.
LEMMA SignalTaskShape ==
  ASSUME FutexInv, NEW t \in Waiters, SignalTask(t)
  PROVE  ShapeInv'
<1> USE FutexAssumption DEF FutexInv, ShapeInv, Goto, flags, waitVars, histVars, Wakeup
<1>1. DataInv'
  BY DEF SignalTask, DataInv
<1>2. CallInv'
  BY DEF SignalTask, CallInv
<1>3. EntriesInv'
  BY DEF SignalTask, EntriesInv
<1>4. PlaceInv'
  <2>1. pc' = [x \in Tasks |-> IF x = t /\ pc[t] = "asleep" THEN "loop" ELSE pc[x]]
    BY DEF SignalTask, PlaceInv, Tasks
  <2> QED BY <2>1 DEF SignalTask, PlaceInv, WaitPcs, WakePcs, Tasks
<1> QED BY <1>1, <1>2, <1>3, <1>4

\* The shape after KillTask.
LEMMA KillTaskShape ==
  ASSUME FutexInv, NEW t \in Waiters, KillTask(t)
  PROVE  ShapeInv'
<1> USE FutexAssumption DEF FutexInv, ShapeInv, Goto, flags, waitVars, histVars
<1>1. DataInv'
  BY DEF KillTask, DataInv
<1>2. CallInv'
  BY DEF KillTask, CallInv
<1>3. EntriesInv'
  BY DEF KillTask, EntriesInv
<1>4. PlaceInv'
  BY DEF KillTask, PlaceInv, WaitPcs, WakePcs, Tasks
<1> QED BY <1>1, <1>2, <1>3, <1>4

\* The shape after KillCleanup.
LEMMA KillCleanupShape ==
  ASSUME FutexInv, NEW t \in Waiters, KillCleanup(t)
  PROVE  ShapeInv'
<1> USE FutexAssumption DEF FutexInv, ShapeInv, Goto, flags, waitVars, histVars, Wakeup
<1>1. DataInv'
  BY DEF KillCleanup, DataInv
<1>2. CallInv'
  BY DEF KillCleanup, CallInv
<1>3. EntriesInv'
  <2>1. table' \in Tables
    BY WithoutFacts DEF KillCleanup, EntriesInv
  <2> QED BY <2>1 DEF KillCleanup, EntriesInv
<1>4. PlaceInv'
  <2>1. pc' = [x \in Tasks |-> IF x = t /\ pc[t] = "asleep" THEN "loop" ELSE pc[x]]
    BY DEF KillCleanup, PlaceInv, Tasks
  <2> QED BY <2>1 DEF KillCleanup, PlaceInv, WaitPcs, WakePcs, Tasks
<1> QED BY <1>1, <1>2, <1>3, <1>4

\* The shape after FutexWake.
LEMMA FutexWakeShape ==
  ASSUME FutexInv, NEW w \in Wakers, FutexWake(w)
  PROVE  ShapeInv'
<1> USE FutexAssumption DEF FutexInv, ShapeInv, Goto, flags, waitVars, histVars, At, CallWith, WakerLeavesAlone
<1>1. DataInv'
  <2>1. val' \in [Keys -> Values] /\ owing' \in [Keys -> BOOLEAN]
    BY FutexWakeSection DEF Sectioned, DataInv
  <2> QED BY <2>1 DEF FutexWake, DataInv
<1>2. CallInv'
  <2>1. prog[w] # <<>> /\ prog' = [prog EXCEPT ![w] = Tail(@)] /\ call' = call /\ w \in Tasks
    BY DEF FutexWake, PlaceInv, Tasks
  <2> QED BY <2>1, ProgStep
<1>3. EntriesInv'
  <2>1. table' \in Tables /\ toWake' \in [Wakers -> Seq(Entries)]
    BY FutexWakeSection DEF Sectioned, EntriesInv
  <2> QED BY <2>1 DEF FutexWake, EntriesInv
<1>4. PlaceInv'
  <2>1. CallWith(w) /\ timer' = timer
    BY DEF FutexWake
  <2> QED BY ONLY <2>1, FutexInv, w \in Wakers, FutexWake(w), FutexWakeSection, SectionPlace
<1> QED BY <1>1, <1>2, <1>3, <1>4

\* The shape after FutexCmpRequeue.
LEMMA FutexCmpRequeueShape ==
  ASSUME FutexInv, NEW w \in Wakers, FutexCmpRequeue(w)
  PROVE  ShapeInv'
<1> USE FutexAssumption DEF FutexInv, ShapeInv, Goto, flags, waitVars, histVars, At, CallWith, WakerLeavesAlone
<1>1. DataInv'
  <2>1. val' \in [Keys -> Values] /\ owing' \in [Keys -> BOOLEAN]
    BY FutexCmpRequeueSection DEF Sectioned, DataInv
  <2> QED BY <2>1 DEF FutexCmpRequeue, DataInv
<1>2. CallInv'
  <2>1. prog[w] # <<>> /\ prog' = [prog EXCEPT ![w] = Tail(@)] /\ call' = call /\ w \in Tasks
    BY DEF FutexCmpRequeue, PlaceInv, Tasks
  <2> QED BY <2>1, ProgStep
<1>3. EntriesInv'
  <2>1. table' \in Tables /\ toWake' \in [Wakers -> Seq(Entries)]
    BY FutexCmpRequeueSection DEF Sectioned, EntriesInv
  <2> QED BY <2>1 DEF FutexCmpRequeue, EntriesInv
<1>4. PlaceInv'
  <2>1. CallWith(w) /\ timer' = timer
    BY DEF FutexCmpRequeue
  <2> QED BY ONLY <2>1, FutexInv, w \in Wakers, FutexCmpRequeue(w), FutexCmpRequeueSection, SectionPlace
<1> QED BY <1>1, <1>2, <1>3, <1>4

\* The shape after FutexWakeOp.
LEMMA FutexWakeOpShape ==
  ASSUME FutexInv, NEW w \in Wakers, FutexWakeOp(w)
  PROVE  ShapeInv'
<1> USE FutexAssumption DEF FutexInv, ShapeInv, Goto, flags, waitVars, histVars, At, CallWith, WakerLeavesAlone
<1>1. DataInv'
  <2>1. val' \in [Keys -> Values] /\ owing' \in [Keys -> BOOLEAN]
    BY FutexWakeOpSection DEF Sectioned, DataInv
  <2> QED BY <2>1 DEF FutexWakeOp, DataInv
<1>2. CallInv'
  <2>1. prog[w] # <<>> /\ prog' = [prog EXCEPT ![w] = Tail(@)] /\ call' = call /\ w \in Tasks
    BY DEF FutexWakeOp, PlaceInv, Tasks
  <2> QED BY <2>1, ProgStep
<1>3. EntriesInv'
  <2>1. table' \in Tables /\ toWake' \in [Wakers -> Seq(Entries)]
    BY FutexWakeOpSection DEF Sectioned, EntriesInv
  <2> QED BY <2>1 DEF FutexWakeOp, EntriesInv
<1>4. PlaceInv'
  <2>1. CallWith(w) /\ timer' = timer
    BY DEF FutexWakeOp
  <2> QED BY ONLY <2>1, FutexInv, w \in Wakers, FutexWakeOp(w), FutexWakeOpSection, SectionPlace
<1> QED BY <1>1, <1>2, <1>3, <1>4

\* The shape after FutexWakeOne.
LEMMA FutexWakeOneShape ==
  ASSUME FutexInv, NEW w \in Wakers, FutexWakeOne(w)
  PROVE  ShapeInv'
<1> USE FutexAssumption DEF FutexInv, ShapeInv, Goto, flags, waitVars, histVars, At, CallWith, WakerLeavesAlone
<1>1. DataInv'
  <2>1. val' \in [Keys -> Values] /\ owing' \in [Keys -> BOOLEAN]
    BY FutexWakeOneSection DEF Sectioned, DataInv
  <2> QED BY <2>1 DEF FutexWakeOne, DataInv
<1>2. CallInv'
  <2>1. prog[w] # <<>> /\ prog' = [prog EXCEPT ![w] = Tail(@)] /\ call' = call /\ w \in Tasks
    BY DEF FutexWakeOne, PlaceInv, Tasks
  <2> QED BY <2>1, ProgStep
<1>3. EntriesInv'
  <2>1. table' \in Tables /\ toWake' \in [Wakers -> Seq(Entries)]
    BY FutexWakeOneSection DEF Sectioned, EntriesInv
  <2> QED BY <2>1 DEF FutexWakeOne, EntriesInv
<1>4. PlaceInv'
  <2>1. CallWith(w) /\ timer' = timer
    BY DEF FutexWakeOne
  <2> QED BY ONLY <2>1, FutexInv, w \in Wakers, FutexWakeOne(w), FutexWakeOneSection, SectionPlace
<1> QED BY <1>1, <1>2, <1>3, <1>4

\* The shape after UserStore.
LEMMA UserStoreShape ==
  ASSUME FutexInv, NEW w \in Wakers, UserStore(w)
  PROVE  ShapeInv'
<1> USE FutexAssumption DEF FutexInv, ShapeInv, Goto, flags, waitVars, histVars, At, CallWith, WakerLeavesAlone
<1>1. DataInv'
  <2>1. Head(prog[w]).key \in Keys /\ Head(prog[w]).new \in Values
    BY StoreType DEF UserStore
  <2>2. val' \in [Keys -> Values] /\ owing' \in [Keys -> BOOLEAN]
    BY <2>1 DEF UserStore, DataInv
  <2> QED BY <2>2 DEF UserStore, DataInv
<1>2. CallInv'
  <2>1. prog[w] # <<>> /\ prog' = [prog EXCEPT ![w] = Tail(@)] /\ call' = call /\ w \in Tasks
    BY DEF UserStore, PlaceInv, Tasks
  <2> QED BY <2>1, ProgStep
<1>3. EntriesInv'
  BY DEF UserStore, EntriesInv
<1>4. PlaceInv'
  BY DEF UserStore, PlaceInv, WaitPcs, WakePcs, Tasks
<1> QED BY <1>1, <1>2, <1>3, <1>4

\* The shape after ExitClear.
LEMMA ExitClearShape ==
  ASSUME FutexInv, NEW w \in Wakers, ExitClear(w)
  PROVE  ShapeInv'
<1> USE FutexAssumption DEF FutexInv, ShapeInv, Goto, flags, waitVars, histVars, At, CallWith, WakerLeavesAlone
<1>1. DataInv'
  <2>1. Head(prog[w]).key \in Keys /\ 0 \in Values
    BY ExitType DEF ExitClear, Values
  <2>2. val' \in [Keys -> Values] /\ owing' \in [Keys -> BOOLEAN]
    BY <2>1 DEF ExitClear, DataInv
  <2> QED BY <2>2 DEF ExitClear, DataInv
<1>2. CallInv'
  BY DEF ExitClear, CallInv
<1>3. EntriesInv'
  BY DEF ExitClear, EntriesInv
<1>4. PlaceInv'
  BY DEF ExitClear, PlaceInv, WaitPcs, WakePcs, Tasks
<1> QED BY <1>1, <1>2, <1>3, <1>4

\* The shape after Deliver.
LEMMA DeliverShape ==
  ASSUME FutexInv, NEW w \in Wakers, Deliver(w)
  PROVE  ShapeInv'
<1> USE FutexAssumption DEF FutexInv, ShapeInv, Goto, flags, waitVars, histVars
<1>0. toWake[w] # <<>> /\ toWake[w] \in Seq(Entries) /\ Head(toWake[w]) \in Entries
  <2>1. toWake[w] # <<>> /\ toWake[w] \in Seq(Entries)
    BY DEF Deliver, EntriesInv, PlaceInv
  <2> QED BY <2>1
<1>00. Head(toWake[w]).task \in Waiters
  BY <1>0 DEF Entries
<1>1. DataInv'
  BY <1>00 DEF Deliver, DataInv
<1>2. CallInv'
  BY DEF Deliver, CallInv
<1>3. EntriesInv'
  BY DEF Deliver, EntriesInv
<1>4. PlaceInv'
  BY <1>0 DEF Deliver, PlaceInv, WaitPcs, WakePcs, Tasks
<1> QED BY <1>1, <1>2, <1>3, <1>4

\* The shape after DeliverWakeup.
LEMMA DeliverWakeupShape ==
  ASSUME FutexInv, NEW w \in Wakers, DeliverWakeup(w)
  PROVE  ShapeInv'
<1> USE FutexAssumption DEF FutexInv, ShapeInv, Goto, flags, waitVars, histVars, Wakeup
<1>0. toWake[w] # <<>> /\ toWake[w] \in Seq(Entries) /\ Head(toWake[w]) \in Entries
  <2>1. toWake[w] # <<>> /\ toWake[w] \in Seq(Entries)
    BY DEF DeliverWakeup, EntriesInv, PlaceInv
  <2> QED BY <2>1
<1>00. Head(toWake[w]).task \in Waiters
  BY <1>0 DEF Entries
<1>1. DataInv'
  BY <1>00 DEF DeliverWakeup, DataInv
<1>2. CallInv'
  BY DEF DeliverWakeup, CallInv
<1>3. EntriesInv'
  <2>1. Tail(toWake[w]) \in Seq(Entries)
    BY <1>0
  <2> QED BY <2>1 DEF DeliverWakeup, EntriesInv
<1>4. PlaceInv'
  <2> DEFINE t == Head(toWake[w]).task
  <2>1. pc[w] = "wakeup" /\ w \in Tasks /\ t \in Waiters /\ w # t
    BY <1>00 DEF DeliverWakeup, Tasks
  <2>2. pc' = [x \in Tasks |-> IF x = t /\ pc[t] = "asleep" THEN "loop"
                              ELSE IF x = w THEN "deliver" ELSE pc[x]]
    BY DEF DeliverWakeup
  <2> HIDE DEF t
  <2>3. \A x \in Wakers \ {w} : pc'[x] = pc[x] /\ toWake'[x] = toWake[x]
    BY <2>1, <2>2 DEF DeliverWakeup, EntriesInv, Tasks
  <2>4. pc'[w] = "deliver" /\ prog' = prog /\ timer' = timer
    BY <2>1, <2>2 DEF DeliverWakeup
  <2>5. \A x \in Waiters : pc'[x] = pc[x] \/ pc'[x] = "loop"
    BY <2>1, <2>2 DEF Tasks
  <2>6. pc' \in [Tasks -> {"user", "gone"} \cup WaitPcs \cup WakePcs]
    BY <2>2 DEF PlaceInv, WaitPcs, WakePcs
  <2>7. \A x \in Waiters : pc'[x] \notin WakePcs
    BY <2>5 DEF PlaceInv, WakePcs
  <2> QED BY <2>3, <2>4, <2>6, <2>7 DEF PlaceInv, WakePcs
<1> QED BY <1>1, <1>2, <1>3, <1>4

\* The shape after DeliverDone.
LEMMA DeliverDoneShape ==
  ASSUME FutexInv, NEW w \in Wakers, DeliverDone(w)
  PROVE  ShapeInv'
<1> USE FutexAssumption DEF FutexInv, ShapeInv, Goto, flags, waitVars, histVars
<1>1. DataInv'
  BY DEF DeliverDone, DataInv
<1>2. CallInv'
  BY DEF DeliverDone, CallInv
<1>3. EntriesInv'
  BY DEF DeliverDone, EntriesInv
<1>4. PlaceInv'
  BY DEF DeliverDone, PlaceInv, WaitPcs, WakePcs, Tasks
<1> QED BY <1>1, <1>2, <1>3, <1>4

\* The shape after CheckTimeouts.
LEMMA CheckTimeoutsShape ==
  ASSUME FutexInv, NEW c \in Cpus, CheckTimeouts(c)
  PROVE  ShapeInv'
<1> USE FutexAssumption DEF FutexInv, ShapeInv, Goto, flags, waitVars, histVars
<1>1. DataInv'
  BY DEF CheckTimeouts, DataInv
<1>2. CallInv'
  BY DEF CheckTimeouts, CallInv
<1>3. EntriesInv'
  <2>1. timer' \in [Cpus -> TimerRecords]
    BY DEF CheckTimeouts, SetTimer, NoTimer, EntriesInv, DataInv, TimerRecords
  <2> QED BY <2>1 DEF CheckTimeouts, EntriesInv
<1>4. PlaceInv'
  <2>1. timer' = [timer EXCEPT ![c] = [pc |-> "scan", now |-> now, entry |-> <<>>]]
    BY DEF CheckTimeouts, SetTimer
  <2>2. \A d \in Cpus : timer'[d].pc \in {"deliver", "wakeup"} => d # c /\ timer'[d] = timer[d]
    BY <2>1 DEF EntriesInv
  <2> QED BY <2>2 DEF CheckTimeouts, PlaceInv
<1> QED BY <1>1, <1>2, <1>3, <1>4

\* The shape after ExpireOne.
LEMMA ExpireOneShape ==
  ASSUME FutexInv, NEW c \in Cpus, NEW k \in Keys, ExpireOne(c, k)
  PROVE  ShapeInv'
<1> USE FutexAssumption DEF FutexInv, ShapeInv, Goto, flags, waitVars, histVars
<1>0. PICK e \in Entries : Expiring(c, e)
  BY ExpireSection
<1>1. /\ table' \in Tables
      /\ timer' = [timer EXCEPT ![c] = [pc |-> "deliver", now |-> timer[c].now, entry |-> <<e>>]]
  BY <1>0 DEF Expiring
<1>2. DataInv'
  BY DEF ExpireOne, DataInv
<1>3. CallInv'
  BY DEF ExpireOne, CallInv
<1>4. EntriesInv'
  <2>1. timer' \in [Cpus -> TimerRecords]
    BY <1>1 DEF EntriesInv, TimerRecords
  <2> QED BY <1>1, <2>1 DEF ExpireOne, EntriesInv
<1>5. PlaceInv'
  <2>1. timer'[c].entry = <<e>> /\ \A d \in Cpus \ {c} : timer'[d] = timer[d]
    BY <1>1 DEF EntriesInv
  <2>2. Len(timer'[c].entry) = 1
    BY <2>1
  <2>3. \A d \in Cpus : timer'[d].pc \in {"deliver", "wakeup"} => Len(timer'[d].entry) = 1
    BY <2>1, <2>2 DEF PlaceInv
  <2> QED BY <2>3 DEF ExpireOne, PlaceInv
<1> QED BY <1>2, <1>3, <1>4, <1>5

\* The shape after ExpireNone.
LEMMA ExpireNoneShape ==
  ASSUME FutexInv, NEW c \in Cpus, ExpireNone(c)
  PROVE  ShapeInv'
<1> USE FutexAssumption DEF FutexInv, ShapeInv, Goto, flags, waitVars, histVars
<1>1. DataInv'
  <2>1. next' \in 0..NoDeadline
    BY FollowingFacts DEF ExpireNone
  <2> QED BY <2>1 DEF ExpireNone, DataInv
<1>2. CallInv'
  BY DEF ExpireNone, CallInv
<1>3. EntriesInv'
  <2>1. timer' \in [Cpus -> TimerRecords]
    BY DEF ExpireNone, SetTimer, NoTimer, EntriesInv, DataInv, TimerRecords
  <2> QED BY <2>1 DEF ExpireNone, EntriesInv
<1>4. PlaceInv'
  <2>1. \A d \in Cpus : timer'[d].pc \in {"deliver", "wakeup"} => d # c /\ timer'[d] = timer[d]
    BY DEF ExpireNone, NoTimer, EntriesInv
  <2> QED BY <2>1 DEF ExpireNone, PlaceInv
<1> QED BY <1>1, <1>2, <1>3, <1>4

\* The shape after DeliverTimeout.
LEMMA DeliverTimeoutShape ==
  ASSUME FutexInv, NEW c \in Cpus, DeliverTimeout(c)
  PROVE  ShapeInv'
<1> USE FutexAssumption DEF FutexInv, ShapeInv, Goto, flags, waitVars, histVars
<1>0. timer[c].entry \in Seq(Entries) /\ Len(timer[c].entry) = 1 /\ timer[c].now \in 0..MaxTime
  BY DEF DeliverTimeout, EntriesInv, PlaceInv, TimerRecords
<1>00. timer[c].entry[1] \in Entries
  BY <1>0
<1>000. timer[c].entry[1].task \in Waiters
  BY <1>00 DEF Entries
<1>1. DataInv'
  BY <1>000 DEF DeliverTimeout, DataInv
<1>2. CallInv'
  BY DEF DeliverTimeout, CallInv
<1>3. EntriesInv'
  <2>1. timer' \in [Cpus -> TimerRecords]
    BY <1>0 DEF DeliverTimeout, SetTimer, EntriesInv, TimerRecords
  <2> QED BY <2>1 DEF DeliverTimeout, EntriesInv
<1>4. PlaceInv'
  <2>1. \A d \in Cpus : timer'[d].entry = timer[d].entry /\ (d # c => timer'[d] = timer[d])
    BY DEF DeliverTimeout, SetTimer, EntriesInv
  <2>2. \A d \in Cpus : timer'[d].pc \in {"deliver", "wakeup"} => Len(timer'[d].entry) = 1
    BY <1>0, <2>1 DEF PlaceInv
  <2> QED BY <2>2 DEF DeliverTimeout, PlaceInv
<1> QED BY <1>1, <1>2, <1>3, <1>4

\* The shape after TimeoutWakeup.
LEMMA TimeoutWakeupShape ==
  ASSUME FutexInv, NEW c \in Cpus, TimeoutWakeup(c)
  PROVE  ShapeInv'
<1> USE FutexAssumption DEF FutexInv, ShapeInv, Goto, flags, waitVars, histVars, Wakeup
<1>0. timer[c].entry \in Seq(Entries) /\ Len(timer[c].entry) = 1 /\ timer[c].now \in 0..MaxTime
  BY DEF TimeoutWakeup, EntriesInv, PlaceInv, TimerRecords
<1>00. timer[c].entry[1] \in Entries
  BY <1>0
<1>000. timer[c].entry[1].task \in Waiters
  BY <1>00 DEF Entries
<1>1. DataInv'
  BY <1>000 DEF TimeoutWakeup, DataInv
<1>2. CallInv'
  BY DEF TimeoutWakeup, CallInv
<1>3. EntriesInv'
  <2>1. timer' \in [Cpus -> TimerRecords]
    BY <1>0 DEF TimeoutWakeup, SetTimer, EntriesInv, TimerRecords
  <2> QED BY <2>1 DEF TimeoutWakeup, EntriesInv
<1>4. PlaceInv'
  <2> DEFINE t == timer[c].entry[1].task
  <2>1. pc' = [x \in Tasks |-> IF x = t /\ pc[t] = "asleep" THEN "loop"
                              ELSE IF x = t THEN pc[t] ELSE pc[x]]
    BY DEF TimeoutWakeup
  <2>2. t \in Waiters /\ t \in Tasks
    BY <1>000 DEF Tasks
  <2> HIDE DEF t
  <2>3. \A d \in Cpus : timer'[d].pc \in {"deliver", "wakeup"} => d # c /\ timer'[d] = timer[d]
    BY DEF TimeoutWakeup, SetTimer, EntriesInv
  <2> QED BY <2>1, <2>2, <2>3 DEF TimeoutWakeup, PlaceInv, WaitPcs, WakePcs, Tasks
<1> QED BY <1>1, <1>2, <1>3, <1>4

\* The shape after Tick.
LEMMA TickShape ==
  ASSUME FutexInv, Tick
  PROVE  ShapeInv'
<1> USE FutexAssumption DEF FutexInv, ShapeInv, Goto, flags, waitVars, histVars
<1>1. DataInv'
  BY DEF Tick, DataInv
<1>2. CallInv'
  BY DEF Tick, CallInv
<1>3. EntriesInv'
  BY DEF Tick, EntriesInv
<1>4. PlaceInv'
  BY DEF Tick, PlaceInv, WaitPcs, WakePcs, Tasks
<1> QED BY <1>1, <1>2, <1>3, <1>4

-----------------------------------------------------------------------------
(* Claims *)

\* Claims are entries.
LEMMA ClaimsType == ASSUME ShapeInv, NEW x \in Claimers PROVE Claims(x) \in Seq(Entries)
<1>1. CASE x \in Wakers
  <2>1. toWake[x] \in Seq(Entries) /\ (pc[x] = "wakeup" => toWake[x] # <<>>)
    BY <1>1 DEF ShapeInv, EntriesInv, PlaceInv
  <2>2. pc[x] = "wakeup" => Tail(toWake[x]) \in Seq(Entries)
    BY <2>1
  <2> QED BY <1>1, <2>1, <2>2 DEF Claims, ClaimsOf
<1>2. CASE x \notin Wakers
  <2>1. timer[x].entry \in Seq(Entries)
    BY <1>2 DEF ShapeInv, EntriesInv, TimerRecords, Claimers
  <2> QED BY <1>2, <2>1 DEF Claims, TimerClaims
<1> QED BY <1>1, <1>2

\* The same, to be used of the next state.
LEMMA ClaimsTypes == ShapeInv => \A y \in Claimers : Claims(y) \in Seq(Entries)
BY ClaimsType

\* Nothing happened to the claims of x.
Kept(x) == Claims(x)' = Claims(x)

\* A waker that does not move keeps its claims.
LEMMA KeptWaker ==
  ASSUME NEW x \in Wakers, pc'[x] = pc[x], toWake'[x] = toWake[x]
  PROVE  Kept(x)
BY DEF Kept, Claims, ClaimsOf

\* So does a scheduler loop.
LEMMA KeptCpu ==
  ASSUME NEW x \in Cpus, timer'[x] = timer[x]
  PROVE  Kept(x)
<1>1. x \notin Wakers
  BY FutexAssumption DEF Tasks
<1> QED BY <1>1 DEF Kept, Claims, TimerClaims

\* An entry that is queued, and one that is claimed.
Queued(k, e) == \E i \in DOMAIN table[k] : e = table[k][i]

\* An entry some waker or timer has claimed.
Held(e) == \E x \in Claimers : \E i \in DOMAIN Claims(x) : e = Claims(x)[i]

\* What FutexInv says of a queued entry.
LEMMA QueuedFacts ==
  ASSUME FutexInv, NEW k \in Keys, NEW e, Queued(k, e)
  PROVE  e \in Entries /\ QueuedOk(k, e) /\ e.task \in Waiters
<1>1. PICK i \in DOMAIN table[k] : e = table[k][i]
  BY DEF Queued
<1>2. QueuedOk(k, e)
  BY <1>1 DEF FutexInv, QueueInv
<1>3. e \in Entries
  BY <1>1 DEF FutexInv, ShapeInv, EntriesInv, Tables
<1> QED BY <1>2, <1>3 DEF Entries

\* What FutexInv says of a claimed entry.
LEMMA HeldFacts ==
  ASSUME FutexInv, NEW e, Held(e)
  PROVE  /\ e \in Entries /\ Numbered(e) /\ Belongs(e) /\ e.task \in Waiters
         /\ \A k \in Keys : \A d : Queued(k, d) => ~SameCall(e, d)
<1>1. PICK x \in Claimers : \E i \in DOMAIN Claims(x) : e = Claims(x)[i]
  BY DEF Held
<1>2. PICK i \in DOMAIN Claims(x) : e = Claims(x)[i]
  BY <1>1
<1>3. Numbered(e) /\ Belongs(e)
  BY <1>1, <1>2 DEF FutexInv, ClaimInv
<1>4. Claims(x) \in Seq(Entries)
  BY ClaimsType DEF FutexInv
<1>5. e \in Entries
  BY <1>2, <1>4
<1>6. ASSUME NEW k \in Keys, NEW d, Queued(k, d) PROVE ~SameCall(e, d)
  <2>1. PICK j \in DOMAIN table[k] : d = table[k][j]
    BY <1>6 DEF Queued
  <2> QED BY <1>2, <2>1 DEF FutexInv, ClaimedOnce
<1> QED BY <1>3, <1>5, <1>6 DEF Entries

\* A claimed task has a claimed entry.
LEMMA ClaimedHeld == ASSUME NEW t, Claimed(t) PROVE \E e : Held(e) /\ e.task = t
<1>1. PICK x \in Claimers : \E i \in DOMAIN Claims(x) : Claims(x)[i].task = t
  BY DEF Claimed
<1>2. PICK i \in DOMAIN Claims(x) : Claims(x)[i].task = t
  BY <1>1
<1> QED BY <1>2 DEF Held

\* The task of a claimed entry is claimed.
LEMMA HeldClaimed == ASSUME NEW e, Held(e) PROVE Claimed(e.task)
BY DEF Held, Claimed

\* A task with a claimed entry has others in the table, or is about to enqueue,
\* only after a completion crossed a return.
LEMMA ClaimedCrossed ==
  ASSUME FutexInv, NEW t \in Waiters, Claimed(t)
  PROVE  /\ \A k \in Keys : \A d : Queued(k, d) /\ d.task = t => crossed[t]
         /\ pc[t] = "enqueue" => crossed[t]
<1>1. PICK e : Held(e) /\ e.task = t
  BY ClaimedHeld
<1>2. /\ e \in Entries /\ Numbered(e) /\ Belongs(e)
      /\ \A k \in Keys : \A d : Queued(k, d) => ~SameCall(e, d)
  BY <1>1, HeldFacts
<1>3. ASSUME NEW k \in Keys, NEW d, Queued(k, d), d.task = t PROVE crossed[t]
  <2>1. Belongs(d) /\ ~SameCall(e, d)
    BY <1>2, <1>3, QueuedFacts DEF QueuedOk
  <2> QED BY <1>1, <1>2, <1>3, <2>1, Zenon DEF Belongs, SameCall
<1>4. ASSUME pc[t] = "enqueue" PROVE crossed[t]
  <2>1. e.call > call[t].number
    BY <1>1, <1>2, <1>4 DEF Numbered
  <2>2. e.call \in Nat /\ call[t].number \in Nat
    BY <1>2 DEF FutexInv, ShapeInv, CallInv, WaitRecords, Entries
  <2>3. e.call # call[t].number
    BY <2>1, <2>2
  <2> QED BY <1>1, <1>2, <2>3, Zenon DEF Belongs
<1> QED BY <1>3, <1>4

\* From the entries of the new state one by one.
LEMMA QueueInvFrom ==
  ASSUME \A k \in Keys : \A e : Queued(k, e)' => QueuedOk(k, e)'
  PROVE  QueueInv'
<1> SUFFICES ASSUME NEW k \in Keys, NEW i \in DOMAIN table'[k]
             PROVE  QueuedOk(k, table[k][i])'
  BY DEF QueueInv
<1>1. PICK e : e = table'[k][i]
  OBVIOUS
<1>2. Queued(k, e)'
  BY <1>1 DEF Queued
<1>3. QueuedOk(k, e)'
  BY <1>2
<1> QED BY <1>1, <1>3 DEF QueuedOk, Numbered, Belongs, Timed, Quiet, Result, Covered, Publishing, Expects, InWait

\* From the claims of the new state one by one.
LEMMA ClaimInvFrom ==
  ASSUME \A e : Held(e)' => Numbered(e)' /\ Belongs(e)'
  PROVE  ClaimInv'
<1> SUFFICES ASSUME NEW x \in Claimers, NEW i \in DOMAIN Claims(x)'
             PROVE  Numbered(Claims(x)[i])' /\ Belongs(Claims(x)[i])'
  BY DEF ClaimInv
<1>1. PICK e : e = Claims(x)'[i]
  OBVIOUS
<1>2. Held(e)'
  BY <1>1 DEF Held
<1>3. Numbered(e)' /\ Belongs(e)'
  BY <1>2
<1> QED BY <1>1, <1>3 DEF Numbered, Belongs, InWait

-----------------------------------------------------------------------------
(* Steps that leave every waiter in its call *)

\* The call of waiter u goes on, and only the completion of a claim put a
\* result into its TCB.
Steady(u) ==
  /\ call'[u] = call[u] /\ prog'[u] = prog[u] /\ crossed'[u] = crossed[u]
  /\ InWait(u)' <=> InWait(u)
  /\ pc'[u] = "enqueue" => pc[u] = "enqueue"
  /\ pc[u] = "publish" => pc'[u] = "publish"
  /\ Result(u)' => Result(u) \/ Claimed(u)

\* What a step of a steady waiter leaves true of its entries.
LEMMA SteadyEntry ==
  ASSUME NEW e, Steady(e.task)
  PROVE  /\ Numbered(e) => Numbered(e)'
         /\ Belongs(e) => Belongs(e)'
         /\ Timed(e) => Timed(e)'
         /\ Publishing(e) => Publishing(e)'
<1>1. Numbered(e) => Numbered(e)'
  BY DEF Steady, Numbered
<1>2. Belongs(e) => Belongs(e)'
  BY Zenon DEF Steady, Belongs
<1>3. Timed(e) => Timed(e)'
  BY Zenon DEF Steady, Timed
<1>4. Publishing(e) => Publishing(e)'
  BY Zenon DEF Steady, Publishing
<1> QED BY <1>1, <1>2, <1>3, <1>4

\* A queued entry of a steady waiter, when the published deadline still covers
\* it and a change of its word is owed.
LEMMA SteadyQueued ==
  ASSUME FutexInv, NEW k \in Keys, NEW e, Queued(k, e), Steady(e.task),
         next' = next \/ e.deadline >= next',
         Expects(k, e) => Expects(k, e)'
  PROVE  QueuedOk(k, e)'
<1>1. QueuedOk(k, e) /\ e.task \in Waiters
  BY QueuedFacts
<1>2. Quiet(e)'
  <2>1. Claimed(e.task) => crossed[e.task]
    BY <1>1, ClaimedCrossed
  <2>2. crossed'[e.task] = crossed[e.task] /\ (Result(e.task)' => Result(e.task) \/ Claimed(e.task))
    BY DEF Steady
  <2>3. Result(e.task) => crossed[e.task]
    BY <1>1 DEF QueuedOk, Quiet
  <2> QED BY <2>1, <2>2, <2>3, Zenon DEF Quiet
<1>3. Covered(e)'
  <2>1. Covered(e) /\ (Publishing(e) => Publishing(e)')
    BY <1>1, SteadyEntry DEF QueuedOk
  <2> QED BY <2>1 DEF Covered
<1> QED BY <1>1, <1>2, <1>3, SteadyEntry DEF QueuedOk

\* The same for one that was requeued from the queue of l.
LEMMA SteadyMoved ==
  ASSUME FutexInv, NEW k \in Keys, NEW l \in Keys, NEW d, Queued(l, d), Steady(d.task), next' = next
  PROVE  QueuedOk(k, Requeued(d))'
<1> DEFINE e == Requeued(d)
<1>1. d \in Entries /\ QueuedOk(l, d) /\ d.task \in Waiters
  BY QueuedFacts
<1>2. /\ e.task = d.task /\ e.call = d.call /\ e.deadline = d.deadline /\ e.exp = Moved
  BY <1>1, RequeuedFacts
<1> HIDE DEF e
<1>3. Numbered(e) /\ Belongs(e) /\ Timed(e) /\ Quiet(e) /\ Covered(e)
  BY <1>1, <1>2, Zenon DEF QueuedOk, Numbered, Belongs, Timed, Quiet, Covered, Publishing
<1>4. Steady(e.task)
  BY <1>2
<1>5. Quiet(e)'
  <2>1. Claimed(d.task) => crossed[d.task]
    BY <1>1, ClaimedCrossed
  <2>2. crossed'[e.task] = crossed[e.task] /\ (Result(e.task)' => Result(e.task) \/ Claimed(e.task))
    BY <1>4 DEF Steady
  <2>3. Result(e.task) => crossed[e.task]
    BY <1>3 DEF Quiet
  <2> QED BY <1>2, <2>1, <2>2, <2>3, Zenon DEF Quiet
<1>6. Covered(e)'
  <2>1. Publishing(e) => Publishing(e)'
    BY <1>4, SteadyEntry
  <2> QED BY <1>3, <2>1 DEF Covered
<1>7. Expects(k, e)'
  BY <1>2 DEF Expects
<1>8. QueuedOk(k, e)'
  BY <1>3, <1>4, <1>5, <1>6, <1>7, SteadyEntry DEF QueuedOk
<1> QED BY <1>8 DEF e

\* What is true of a steady waiter stays true.
LEMMA SteadyWaiter ==
  ASSUME FutexInv, NEW u \in Waiters, Steady(u)
  PROVE  WaiterOk(u)'
<1>1. WaiterOk(u)
  BY DEF FutexInv, WaiterInv
<1>2. (InWait(u) => call[u].number > Len(prog[u]))'
  BY <1>1, Zenon DEF WaiterOk, Steady
<1>3. (pc[u] = "enqueue" /\ Result(u) => crossed[u])'
  <2>1. Claimed(u) /\ pc[u] = "enqueue" => crossed[u]
    BY ClaimedCrossed
  <2> QED BY <1>1, <2>1, Zenon DEF WaiterOk, Steady
<1> QED BY <1>2, <1>3 DEF WaiterOk

\* Where the claims of the new state come from.
ClaimsFrom == \A e : Held(e)' => Held(e) \/ \E k \in Keys : Queued(k, e)

\* The claims after a step that leaves every waiter steady.
LEMMA SteadyClaims ==
  ASSUME FutexInv, \A u \in Waiters : Steady(u), ClaimsFrom
  PROVE  ClaimInv'
<1> SUFFICES ASSUME NEW e, Held(e)' PROVE Numbered(e)' /\ Belongs(e)'
  BY ClaimInvFrom
<1>1. CASE Held(e)
  <2>1. Numbered(e) /\ Belongs(e) /\ e.task \in Waiters
    BY <1>1, HeldFacts
  <2> QED BY <2>1, SteadyEntry
<1>2. CASE \E k \in Keys : Queued(k, e)
  <2>1. Numbered(e) /\ Belongs(e) /\ e.task \in Waiters
    BY <1>2, QueuedFacts DEF QueuedOk
  <2> QED BY <2>1, SteadyEntry
<1> QED BY <1>1, <1>2 DEF ClaimsFrom

\* A change of a word is owed for as long as its queue is not empty.
Settled == \A k \in Keys : (owing[k] \/ val'[k] # val[k]) => owing'[k] \/ table'[k] = <<>>

\* An entry that stays queued still has what it expects, or is owed a wake.
LEMMA SettledExpects ==
  ASSUME Settled, NEW k \in Keys, NEW e, Queued(k, e)', Expects(k, e)
  PROVE  Expects(k, e)'
<1>1. table'[k] # <<>>
  BY DEF Queued
<1>2. owing[k] \/ val'[k] # val[k] => owing'[k]
  BY <1>1, Zenon DEF Settled
<1>3. e.exp \in {val[k], Moved} \/ owing[k]
  BY DEF Expects
<1>4. CASE val'[k] = val[k]
  BY <1>2, <1>3, <1>4, Zenon DEF Expects
<1>5. CASE val'[k] # val[k]
  BY <1>2, <1>5, Zenon DEF Expects
<1> QED BY <1>4, <1>5

\* Where a queued entry of the new state was.
LEMMA MovingQueued ==
  ASSUME Moving(table', table), NEW k \in Keys, NEW e, Queued(k, e)'
  PROVE  Queued(k, e) \/ \E l \in Keys : \E d : Queued(l, d) /\ e = Requeued(d)
<1>1. PICK i \in DOMAIN table'[k] : e = table'[k][i]
  BY DEF Queued
<1>2. \/ \E j \in DOMAIN table[k] : table'[k][i] = table[k][j]
      \/ \E l \in Keys : \E j \in DOMAIN table[l] : table'[k][i] = Requeued(table[l][j])
  BY DEF Moving
<1>3. CASE \E j \in DOMAIN table[k] : table'[k][i] = table[k][j]
  BY <1>1, <1>3 DEF Queued
<1>4. CASE \E l \in Keys : \E j \in DOMAIN table[l] : table'[k][i] = Requeued(table[l][j])
  BY <1>1, <1>4 DEF Queued
<1> QED BY <1>2, <1>3, <1>4

\* A step that leaves every waiter steady keeps the invariant.
LEMMA SteadyStep ==
  ASSUME FutexInv, ShapeInv', \A u \in Waiters : Steady(u), Moving(table', table), Sparse(table'),
         next' = next \/ (table' = table /\ \A k \in Keys : \A e : Queued(k, e) => e.deadline >= next'),
         Settled, ClaimsFrom, ClaimedOnce'
  PROVE  FutexInv'
<1>1. QueueInv'
  <2> SUFFICES ASSUME NEW k \in Keys, NEW e, Queued(k, e)' PROVE QueuedOk(k, e)'
    BY QueueInvFrom
  <2>1. CASE Queued(k, e)
    <3>1. e.task \in Waiters /\ QueuedOk(k, e)
      BY <2>1, QueuedFacts
    <3>2. Expects(k, e)'
      BY <3>1, SettledExpects DEF QueuedOk
    <3>3. next' = next \/ e.deadline >= next'
      BY <2>1
    <3> QED BY <2>1, <3>1, <3>2, <3>3, SteadyQueued
  <2>2. CASE next' = next /\ \E l \in Keys : \E d : Queued(l, d) /\ e = Requeued(d)
    <3>0. PICK l \in Keys : \E d : Queued(l, d) /\ e = Requeued(d)
      BY <2>2
    <3>1. PICK d : Queued(l, d) /\ e = Requeued(d)
      BY <3>0
    <3>2. d.task \in Waiters
      BY <3>1, QueuedFacts
    <3>3. QueuedOk(k, Requeued(d))'
      BY <2>2, <3>1, <3>2, SteadyMoved
    <3> QED BY <3>1, <3>3
  <2>3. CASE table' = table
    BY <2>1, <2>3 DEF Queued
  <2> QED BY <2>1, <2>2, <2>3, MovingQueued
<1>2. WaiterInv'
  BY SteadyWaiter DEF WaiterInv
<1>3. ClaimInv'
  BY SteadyClaims
<1> QED BY <1>1, <1>2, <1>3 DEF FutexInv

-----------------------------------------------------------------------------
(* How the claims change *)

\* What was claimed is still claimed, but for the first claim at most.
Shifted(x) ==
  \/ Kept(x)
  \/ \A i \in DOMAIN Claims(x)' : i + 1 \in DOMAIN Claims(x) /\ Claims(x)'[i] = Claims(x)[i + 1]

\* No entry that is queued in the new state is of the call of a claimed one.
LEMMA HeldApart ==
  ASSUME FutexInv, Moving(table', table), NEW c, Held(c), NEW k \in Keys, NEW j \in DOMAIN table'[k]
  PROVE  ~SameCall(c, table'[k][j])
<1>0. PICK e : e = table'[k][j]
  OBVIOUS
<1>1. Queued(k, e)'
  BY <1>0 DEF Queued
<1>2. CASE Queued(k, e)
  BY <1>0, <1>2, HeldFacts
<1>3. CASE \E l \in Keys : \E d : Queued(l, d) /\ e = Requeued(d)
  <2>0. PICK l \in Keys : \E d : Queued(l, d) /\ e = Requeued(d)
    BY <1>3
  <2>1. PICK d : Queued(l, d) /\ e = Requeued(d)
    BY <2>0
  <2>2. d \in Entries /\ ~SameCall(c, d)
    BY <2>1, HeldFacts, QueuedFacts
  <2>3. e.task = d.task /\ e.call = d.call
    BY <2>1, <2>2, RequeuedFacts
  <2>4. ~SameCall(c, e)
    BY <2>2, <2>3 DEF SameCall
  <2> QED BY <1>0, <2>4
<1> QED BY <1>1, <1>2, <1>3, MovingQueued

\* Where a claim of the new state was before.
LEMMA ShiftedPlace ==
  ASSUME ShapeInv, ShapeInv', NEW x \in Claimers, Shifted(x)
  PROVE  \E s \in {0, 1} : \A i \in DOMAIN Claims(x)' :
           i \in Nat /\ i + s \in DOMAIN Claims(x) /\ Claims(x)'[i] = Claims(x)[i + s]
<1>1. Claims(x)' \in Seq(Entries)
  <2>1. (\A y \in Claimers : Claims(y) \in Seq(Entries))'
    BY ClaimsTypes, PTL
  <2> QED BY <2>1
<1>2. \A i \in DOMAIN Claims(x)' : i \in Nat /\ i + 0 = i
  BY <1>1
<1>3. CASE Kept(x)
  BY <1>2, <1>3 DEF Kept
<1>4. CASE ~Kept(x)
  BY <1>2, <1>4 DEF Shifted
<1> QED BY <1>3, <1>4

\* Claims that were there before, and a table without an entry of their calls.
LEMMA ClaimedApart ==
  ASSUME FutexInv, ShapeInv', \A x \in Claimers : Shifted(x),
         \A c : Held(c) => \A k \in Keys : \A e : Queued(k, e)' => ~SameCall(c, e)
  PROVE  ClaimsFrom /\ ClaimedOnce'
<1>0. ASSUME NEW x \in Claimers
      PROVE  \E s \in {0, 1} : \A i \in DOMAIN Claims(x)' :
               i \in Nat /\ i + s \in DOMAIN Claims(x) /\ Claims(x)'[i] = Claims(x)[i + s]
  BY ShiftedPlace DEF FutexInv
<1>1. ASSUME NEW x \in Claimers, NEW i \in DOMAIN Claims(x)'
      PROVE  Held(Claims(x)'[i])
  BY <1>0 DEF Held
<1>2. ClaimsFrom
  BY <1>1 DEF ClaimsFrom, Held
<1>3. ASSUME NEW x \in Claimers, NEW i \in DOMAIN Claims(x)', NEW y \in Claimers,
             NEW j \in DOMAIN Claims(y)', SameCall(Claims(x)'[i], Claims(y)'[j])
      PROVE  x = y /\ i = j
  <2>1. PICK s \in {0, 1} : \A a \in DOMAIN Claims(x)' :
          a \in Nat /\ a + s \in DOMAIN Claims(x) /\ Claims(x)'[a] = Claims(x)[a + s]
    BY <1>0
  <2>2. PICK r \in {0, 1} : \A b \in DOMAIN Claims(y)' :
          b \in Nat /\ b + r \in DOMAIN Claims(y) /\ Claims(y)'[b] = Claims(y)[b + r]
    BY <1>0
  <2>3. x = y /\ i + s = j + r
    BY <1>3, <2>1, <2>2 DEF FutexInv, ClaimedOnce
  <2>4. CASE s = r
    BY <2>1, <2>2, <2>3, <2>4
  <2>5. CASE s # r
    <3>1. /\ \A a \in DOMAIN Claims(x)' : Claims(x)'[a] = Claims(x)[a + s] /\ a + s \in DOMAIN Claims(x)
          /\ \A a \in DOMAIN Claims(x)' : Claims(x)'[a] = Claims(x)[a + r] /\ a + r \in DOMAIN Claims(x)
      BY <2>1, <2>2, <2>3
    <3>2. i + s \in DOMAIN Claims(x) /\ i + r \in DOMAIN Claims(x) /\ Claims(x)[i + s] = Claims(x)[i + r]
      BY <3>1
    <3>3. SameCall(Claims(x)[i + s], Claims(x)[i + r])
      BY <3>2 DEF SameCall
    <3>4. i + s = i + r
      BY <3>2, <3>3 DEF FutexInv, ClaimedOnce
    <3> QED BY <2>1, <2>5, <3>4
  <2> QED BY <2>4, <2>5
<1>4. ASSUME NEW x \in Claimers, NEW i \in DOMAIN Claims(x)', NEW k \in Keys,
             NEW j \in DOMAIN table'[k]
      PROVE  ~SameCall(Claims(x)'[i], table'[k][j])
  <2>1. PICK e : e = table'[k][j]
    OBVIOUS
  <2>2. Queued(k, e)'
    BY <2>1 DEF Queued
  <2> QED BY <1>1, <2>1, <2>2
<1>5. ClaimedOnce'
  BY <1>3, <1>4 DEF ClaimedOnce, SameCall
<1> QED BY <1>2, <1>5

\* A step that claims nothing keeps claims and queues apart.
LEMMA FewerClaims ==
  ASSUME FutexInv, ShapeInv', Moving(table', table), \A x \in Claimers : Shifted(x)
  PROVE  ClaimsFrom /\ ClaimedOnce'
<1>1. ASSUME NEW c, Held(c), NEW k \in Keys, NEW e, Queued(k, e)' PROVE ~SameCall(c, e)
  <2>1. PICK j \in DOMAIN table'[k] : e = table'[k][j]
    BY <1>1 DEF Queued
  <2> QED BY <1>1, <2>1, HeldApart
<1> QED BY <1>1, ClaimedApart

\* A section claims entries of calls that are not claimed yet.
LEMMA NewClaims ==
  ASSUME FutexInv, ShapeInv', Moving(table', table), NEW w \in Claimers,
         \A x \in Claimers \ {w} : Kept(x),
         \A j \in DOMAIN Claims(w)' : \E k \in Keys : Queued(k, Claims(w)'[j]),
         \A i, j \in DOMAIN Claims(w)' : SameCall(Claims(w)'[i], Claims(w)'[j]) => i = j,
         \A k \in Keys : \A i \in DOMAIN table'[k], j \in DOMAIN Claims(w)' :
           ~SameCall(Claims(w)'[j], table'[k][i])
  PROVE  ClaimsFrom /\ ClaimedOnce'
<1>1. ASSUME NEW x \in Claimers \ {w}, NEW i \in DOMAIN Claims(x)'
      PROVE  /\ i \in DOMAIN Claims(x) /\ Claims(x)'[i] = Claims(x)[i]
             /\ Held(Claims(x)'[i])
  <2>1. i \in DOMAIN Claims(x) /\ Claims(x)'[i] = Claims(x)[i]
    BY DEF Kept
  <2> QED BY <2>1 DEF Held
<1>2. ClaimsFrom
  <2> SUFFICES ASSUME NEW e, Held(e)' PROVE Held(e) \/ \E k \in Keys : Queued(k, e)
    BY DEF ClaimsFrom
  <2>1. PICK x \in Claimers : \E i \in DOMAIN Claims(x)' : e = Claims(x)'[i]
    BY DEF Held
  <2>2. CASE x = w
    BY <2>1, <2>2
  <2>3. CASE x # w
    BY <1>1, <2>1, <2>3
  <2> QED BY <2>2, <2>3
<1>3. ASSUME NEW x \in Claimers \ {w}, NEW i \in DOMAIN Claims(x)', NEW j \in DOMAIN Claims(w)'
      PROVE  ~SameCall(Claims(x)'[i], Claims(w)'[j]) /\ ~SameCall(Claims(w)'[j], Claims(x)'[i])
  <2>1. PICK k \in Keys : Queued(k, Claims(w)'[j])
    OBVIOUS
  <2>2. ~SameCall(Claims(x)'[i], Claims(w)'[j])
    BY <1>1, <2>1, HeldFacts
  <2> QED BY <2>2 DEF SameCall
<1>4. ASSUME NEW x \in Claimers, NEW i \in DOMAIN Claims(x)', NEW y \in Claimers,
             NEW j \in DOMAIN Claims(y)', SameCall(Claims(x)'[i], Claims(y)'[j])
      PROVE  x = y /\ i = j
  <2>1. CASE x = w /\ y = w
    BY <1>4, <2>1
  <2>2. CASE x = w /\ y # w
    BY <1>3, <1>4, <2>2
  <2>3. CASE x # w /\ y = w
    BY <1>3, <1>4, <2>3
  <2>4. CASE x # w /\ y # w
    <3>1. /\ i \in DOMAIN Claims(x) /\ Claims(x)'[i] = Claims(x)[i]
          /\ j \in DOMAIN Claims(y) /\ Claims(y)'[j] = Claims(y)[j]
      BY <1>1, <2>4
    <3> QED BY <1>4, <3>1 DEF FutexInv, ClaimedOnce
  <2> QED BY <2>1, <2>2, <2>3, <2>4
<1>5. ASSUME NEW x \in Claimers, NEW i \in DOMAIN Claims(x)', NEW k \in Keys,
             NEW j \in DOMAIN table'[k]
      PROVE  ~SameCall(Claims(x)'[i], table'[k][j])
  <2>1. CASE x = w
    BY <2>1
  <2>2. CASE x # w
    <3>1. Held(Claims(x)'[i])
      BY <1>1, <2>2
    <3> QED BY <3>1, HeldApart
  <2> QED BY <2>1, <2>2
<1>6. ClaimedOnce'
  BY <1>4, <1>5 DEF ClaimedOnce, SameCall
<1> QED BY <1>2, <1>6

-----------------------------------------------------------------------------
(* The steps that leave every waiter in its call, one by one *)

\* Where a waiter may go without ending or beginning a call.
Moves(u) ==
  \/ pc'[u] = pc[u]
  \/ pc[u] \in {"loop", "block", "asleep", "remove"} /\ pc'[u] \in {"loop", "block", "asleep", "remove"}
  \/ pc[u] = "user" /\ pc'[u] = "gone"

\* A move inside a call neither begins, publishes nor ends it.
LEMMA MovesFacts ==
  ASSUME NEW u, Moves(u)
  PROVE  /\ InWait(u)' <=> InWait(u)
         /\ pc'[u] = "enqueue" => pc[u] = "enqueue"
         /\ pc[u] = "publish" => pc'[u] = "publish"
<1>1. CASE pc'[u] = pc[u]
  BY <1>1 DEF InWait
<1>2. CASE pc[u] \in {"loop", "block", "asleep", "remove"} /\ pc'[u] \in {"loop", "block", "asleep", "remove"}
  BY <1>2 DEF InWait, WaitPcs
<1>3. CASE pc[u] = "user" /\ pc'[u] = "gone"
  BY <1>3 DEF InWait, WaitPcs
<1> QED BY <1>1, <1>2, <1>3 DEF Moves

\* A waiter whose call, program and flags stay is steady.
LEMMA SteadyMove ==
  ASSUME NEW u, Moves(u), call'[u] = call[u], prog'[u] = prog[u], crossed'[u] = crossed[u],
         woken'[u] = woken[u], timedOut'[u] = timedOut[u]
  PROVE  Steady(u)
<1>1. Result(u)' <=> Result(u)
  BY Zenon DEF Result
<1> QED BY <1>1, MovesFacts, Zenon DEF Steady

\* No word changed.
LEMMA SettledSame == ASSUME val' = val, owing' = owing PROVE Settled
BY Zenon DEF Settled

\* No entry moved.
LEMMA ThinSame == ASSUME table' = table PROVE Thin(table', table)
BY DEF Thin

\* A step that changes no word, publishes nothing and claims nothing.
LEMMA CalmStep ==
  ASSUME FutexInv, ShapeInv', \A u \in Waiters : Steady(u), Thin(table', table), Sparse(table'),
         next' = next, val' = val, owing' = owing, \A x \in Claimers : Shifted(x)
  PROVE  FutexInv'
<1>1. Moving(table', table)
  BY StaysMoving
<1>2. ClaimsFrom /\ ClaimedOnce'
  BY <1>1, FewerClaims
<1> QED BY <1>1, <1>2, SettledSame, SteadyStep

\* No waker moves and no scheduler loop does.
LEMMA AllKept ==
  ASSUME toWake' = toWake, timer' = timer, \A x \in Wakers : pc'[x] = pc[x]
  PROVE  \A x \in Claimers : Shifted(x)
<1> SUFFICES ASSUME NEW x \in Claimers PROVE Kept(x)
  BY DEF Shifted
<1>1. CASE x \in Wakers
  BY <1>1, KeptWaker
<1>2. CASE x \in Cpus
  BY <1>2, KeptCpu
<1> QED BY <1>1, <1>2 DEF Claimers

\* LoopInterrupted keeps the invariant.
LEMMA LoopInterruptedStep == ASSUME FutexInv, NEW t \in Waiters, LoopInterrupted(t) PROVE FutexInv'
<1>1. ShapeInv'
  BY LoopInterruptedShape
<1>2. /\ call' = call /\ prog' = prog /\ crossed' = crossed /\ woken' = woken /\ timedOut' = timedOut
      /\ next' = next /\ val' = val /\ owing' = owing /\ toWake' = toWake /\ timer' = timer
  BY DEF LoopInterrupted, flags, waitVars, histVars
<1>3. \A u \in Waiters : Moves(u)
  <2>1. pc' = [pc EXCEPT ![t] = pc'[t]] /\ pc[t] = "loop" /\ pc'[t] = "remove"
    BY DEF LoopInterrupted, Goto, FutexInv, ShapeInv, PlaceInv, Tasks
  <2> QED BY <2>1 DEF Moves, FutexInv, ShapeInv, PlaceInv, Tasks
<1>4. \A x \in Wakers : pc'[x] = pc[x]
  <2>1. pc' = [pc EXCEPT ![t] = pc'[t]]
    BY DEF LoopInterrupted, Goto, FutexInv, ShapeInv, PlaceInv, Tasks
  <2> QED BY <2>1, FutexAssumption DEF FutexInv, ShapeInv, PlaceInv, Tasks
<1>5. \A u \in Waiters : Steady(u)
  BY <1>2, <1>3, SteadyMove
<1>6. Thin(table', table) /\ Sparse(table')
  <2>1. table' = table
    BY DEF LoopInterrupted
  <2> QED BY <2>1, ThinSame DEF FutexInv
<1>7. \A x \in Claimers : Shifted(x)
  BY <1>2, <1>4, AllKept
<1> QED BY <1>1, <1>2, <1>5, <1>6, <1>7, CalmStep

\* LoopBlock keeps the invariant.
LEMMA LoopBlockStep == ASSUME FutexInv, NEW t \in Waiters, LoopBlock(t) PROVE FutexInv'
<1>1. ShapeInv'
  BY LoopBlockShape
<1>2. /\ call' = call /\ prog' = prog /\ crossed' = crossed /\ woken' = woken /\ timedOut' = timedOut
      /\ next' = next /\ val' = val /\ owing' = owing /\ toWake' = toWake /\ timer' = timer
  BY DEF LoopBlock, flags, waitVars, histVars
<1>3. \A u \in Waiters : Moves(u)
  <2>1. pc' = [pc EXCEPT ![t] = pc'[t]] /\ pc[t] = "loop" /\ pc'[t] = "block"
    BY DEF LoopBlock, Goto, FutexInv, ShapeInv, PlaceInv, Tasks
  <2> QED BY <2>1 DEF Moves, FutexInv, ShapeInv, PlaceInv, Tasks
<1>4. \A x \in Wakers : pc'[x] = pc[x]
  <2>1. pc' = [pc EXCEPT ![t] = pc'[t]]
    BY DEF LoopBlock, Goto, FutexInv, ShapeInv, PlaceInv, Tasks
  <2> QED BY <2>1, FutexAssumption DEF FutexInv, ShapeInv, PlaceInv, Tasks
<1>5. \A u \in Waiters : Steady(u)
  BY <1>2, <1>3, SteadyMove
<1>6. Thin(table', table) /\ Sparse(table')
  <2>1. table' = table
    BY DEF LoopBlock
  <2> QED BY <2>1, ThinSame DEF FutexInv
<1>7. \A x \in Claimers : Shifted(x)
  BY <1>2, <1>4, AllKept
<1> QED BY <1>1, <1>2, <1>5, <1>6, <1>7, CalmStep

\* Block keeps the invariant.
LEMMA BlockStep == ASSUME FutexInv, NEW t \in Waiters, Block(t) PROVE FutexInv'
<1>1. ShapeInv'
  BY BlockShape
<1>2. /\ call' = call /\ prog' = prog /\ crossed' = crossed /\ woken' = woken /\ timedOut' = timedOut
      /\ next' = next /\ val' = val /\ owing' = owing /\ toWake' = toWake /\ timer' = timer
  BY DEF Block, flags, waitVars, histVars
<1>3. \A u \in Waiters : Moves(u)
  <2>1. pc' = [pc EXCEPT ![t] = pc'[t]] /\ pc[t] = "block" /\ pc'[t] \in {"loop", "asleep"}
    BY DEF Block, Goto, FutexInv, ShapeInv, PlaceInv, Tasks
  <2> QED BY <2>1 DEF Moves, FutexInv, ShapeInv, PlaceInv, Tasks
<1>4. \A x \in Wakers : pc'[x] = pc[x]
  <2>1. pc' = [pc EXCEPT ![t] = pc'[t]]
    BY DEF Block, Goto, FutexInv, ShapeInv, PlaceInv, Tasks
  <2> QED BY <2>1, FutexAssumption DEF FutexInv, ShapeInv, PlaceInv, Tasks
<1>5. \A u \in Waiters : Steady(u)
  BY <1>2, <1>3, SteadyMove
<1>6. Thin(table', table) /\ Sparse(table')
  <2>1. table' = table
    BY DEF Block
  <2> QED BY <2>1, ThinSame DEF FutexInv
<1>7. \A x \in Claimers : Shifted(x)
  BY <1>2, <1>4, AllKept
<1> QED BY <1>1, <1>2, <1>5, <1>6, <1>7, CalmStep

\* ExitWaiter keeps the invariant.
LEMMA ExitWaiterStep == ASSUME FutexInv, NEW t \in Waiters, ExitWaiter(t) PROVE FutexInv'
<1>1. ShapeInv'
  BY ExitWaiterShape
<1>2. /\ call' = call /\ prog' = prog /\ crossed' = crossed /\ woken' = woken /\ timedOut' = timedOut
      /\ next' = next /\ val' = val /\ owing' = owing /\ toWake' = toWake /\ timer' = timer
  BY DEF ExitWaiter, flags, waitVars, histVars
<1>3. \A u \in Waiters : Moves(u)
  <2>1. pc' = [pc EXCEPT ![t] = pc'[t]] /\ pc[t] = "user" /\ pc'[t] = "gone"
    BY DEF ExitWaiter, Goto, FutexInv, ShapeInv, PlaceInv, Tasks
  <2> QED BY <2>1 DEF Moves, FutexInv, ShapeInv, PlaceInv, Tasks
<1>4. \A x \in Wakers : pc'[x] = pc[x]
  <2>1. pc' = [pc EXCEPT ![t] = pc'[t]]
    BY DEF ExitWaiter, Goto, FutexInv, ShapeInv, PlaceInv, Tasks
  <2> QED BY <2>1, FutexAssumption DEF FutexInv, ShapeInv, PlaceInv, Tasks
<1>5. \A u \in Waiters : Steady(u)
  BY <1>2, <1>3, SteadyMove
<1>6. Thin(table', table) /\ Sparse(table')
  BY WithoutFacts DEF ExitWaiter, FutexInv, ShapeInv, EntriesInv
<1>7. \A x \in Claimers : Shifted(x)
  BY <1>2, <1>4, AllKept
<1> QED BY <1>1, <1>2, <1>5, <1>6, <1>7, CalmStep

\* SignalTask keeps the invariant.
LEMMA SignalTaskStep == ASSUME FutexInv, NEW t \in Waiters, SignalTask(t) PROVE FutexInv'
<1>1. ShapeInv'
  BY SignalTaskShape
<1>2. /\ call' = call /\ prog' = prog /\ crossed' = crossed /\ woken' = woken /\ timedOut' = timedOut
      /\ next' = next /\ val' = val /\ owing' = owing /\ toWake' = toWake /\ timer' = timer
  BY DEF SignalTask, flags, waitVars, histVars
<1>3. \A u \in Waiters : Moves(u)
  <2>1. pc' = [x \in Tasks |-> IF x = t /\ pc[t] = "asleep" THEN "loop" ELSE pc[x]]
    BY DEF SignalTask, Wakeup, FutexInv, ShapeInv, PlaceInv, Tasks
  <2> QED BY <2>1 DEF Moves, Tasks
<1>4. \A x \in Wakers : pc'[x] = pc[x]
  <2>1. pc' = [x \in Tasks |-> IF x = t /\ pc[t] = "asleep" THEN "loop" ELSE pc[x]]
    BY DEF SignalTask, Wakeup, FutexInv, ShapeInv, PlaceInv, Tasks
  <2> QED BY <2>1, FutexAssumption DEF Tasks
<1>5. \A u \in Waiters : Steady(u)
  BY <1>2, <1>3, SteadyMove
<1>6. Thin(table', table) /\ Sparse(table')
  <2>1. table' = table
    BY DEF SignalTask
  <2> QED BY <2>1, ThinSame DEF FutexInv
<1>7. \A x \in Claimers : Shifted(x)
  BY <1>2, <1>4, AllKept
<1> QED BY <1>1, <1>2, <1>5, <1>6, <1>7, CalmStep

\* KillTask keeps the invariant.
LEMMA KillTaskStep == ASSUME FutexInv, NEW t \in Waiters, KillTask(t) PROVE FutexInv'
<1>1. ShapeInv'
  BY KillTaskShape
<1>2. /\ call' = call /\ prog' = prog /\ crossed' = crossed /\ woken' = woken /\ timedOut' = timedOut
      /\ next' = next /\ val' = val /\ owing' = owing /\ toWake' = toWake /\ timer' = timer
  BY DEF KillTask, flags, waitVars, histVars
<1>3. \A u \in Waiters : Moves(u)
  BY DEF KillTask, Moves
<1>4. \A x \in Wakers : pc'[x] = pc[x]
  BY DEF KillTask
<1>5. \A u \in Waiters : Steady(u)
  BY <1>2, <1>3, SteadyMove
<1>6. Thin(table', table) /\ Sparse(table')
  <2>1. table' = table
    BY DEF KillTask
  <2> QED BY <2>1, ThinSame DEF FutexInv
<1>7. \A x \in Claimers : Shifted(x)
  BY <1>2, <1>4, AllKept
<1> QED BY <1>1, <1>2, <1>5, <1>6, <1>7, CalmStep

\* KillCleanup keeps the invariant.
LEMMA KillCleanupStep == ASSUME FutexInv, NEW t \in Waiters, KillCleanup(t) PROVE FutexInv'
<1>1. ShapeInv'
  BY KillCleanupShape
<1>2. /\ call' = call /\ prog' = prog /\ crossed' = crossed /\ woken' = woken /\ timedOut' = timedOut
      /\ next' = next /\ val' = val /\ owing' = owing /\ toWake' = toWake /\ timer' = timer
  BY DEF KillCleanup, flags, waitVars, histVars
<1>3. \A u \in Waiters : Moves(u)
  <2>1. pc' = [x \in Tasks |-> IF x = t /\ pc[t] = "asleep" THEN "loop" ELSE pc[x]]
    BY DEF KillCleanup, Wakeup, FutexInv, ShapeInv, PlaceInv, Tasks
  <2> QED BY <2>1 DEF Moves, Tasks
<1>4. \A x \in Wakers : pc'[x] = pc[x]
  <2>1. pc' = [x \in Tasks |-> IF x = t /\ pc[t] = "asleep" THEN "loop" ELSE pc[x]]
    BY DEF KillCleanup, Wakeup, FutexInv, ShapeInv, PlaceInv, Tasks
  <2> QED BY <2>1, FutexAssumption DEF Tasks
<1>5. \A u \in Waiters : Steady(u)
  BY <1>2, <1>3, SteadyMove
<1>6. Thin(table', table) /\ Sparse(table')
  BY WithoutFacts DEF KillCleanup, FutexInv, ShapeInv, EntriesInv
<1>7. \A x \in Claimers : Shifted(x)
  BY <1>2, <1>4, AllKept
<1> QED BY <1>1, <1>2, <1>5, <1>6, <1>7, CalmStep

\* Tick keeps the invariant.
LEMMA TickStep == ASSUME FutexInv, Tick PROVE FutexInv'
<1>1. ShapeInv'
  BY TickShape
<1>2. /\ call' = call /\ prog' = prog /\ crossed' = crossed /\ woken' = woken /\ timedOut' = timedOut
      /\ next' = next /\ val' = val /\ owing' = owing /\ toWake' = toWake /\ timer' = timer
  BY DEF Tick, flags, waitVars, histVars
<1>3. \A u \in Waiters : Moves(u)
  BY DEF Tick, Moves
<1>4. \A x \in Wakers : pc'[x] = pc[x]
  BY DEF Tick
<1>5. \A u \in Waiters : Steady(u)
  BY <1>2, <1>3, SteadyMove
<1>6. Thin(table', table) /\ Sparse(table')
  <2>1. table' = table
    BY DEF Tick
  <2> QED BY <2>1, ThinSame DEF FutexInv
<1>7. \A x \in Claimers : Shifted(x)
  BY <1>2, <1>4, AllKept
<1> QED BY <1>1, <1>2, <1>5, <1>6, <1>7, CalmStep

\* A waker that stays one leaves the waiters alone.
LEMMA WakerSteady ==
  ASSUME FutexInv, NEW w \in Wakers, NEW l, pc' = [pc EXCEPT ![w] = l],
         \A u \in Waiters : prog'[u] = prog[u], call' = call, crossed' = crossed, woken' = woken, timedOut' = timedOut
  PROVE  /\ \A u \in Waiters : Steady(u)
         /\ \A x \in Wakers \ {w} : pc'[x] = pc[x]
         /\ pc'[w] = l
<1>1. Waiters \cap Wakers = {}
  BY FutexAssumption
<1>2. pc \in [Tasks -> {"user", "gone"} \cup WaitPcs \cup WakePcs]
  BY DEF FutexInv, ShapeInv, PlaceInv
<1>3. \A x \in Tasks \ {w} : pc'[x] = pc[x]
  BY <1>2
<1>4. \A u \in Waiters : Moves(u)
  BY <1>1, <1>3 DEF Moves, Tasks
<1>5. \A u \in Waiters : Steady(u)
  BY <1>4, SteadyMove
<1> QED BY <1>2, <1>3, <1>5 DEF Tasks

\* A call of a waker leaves the programs of the waiters alone.
LEMMA OtherProg ==
  ASSUME FutexInv, NEW w \in Wakers, prog' = [prog EXCEPT ![w] = Tail(@)]
  PROVE  \A u \in Waiters : prog'[u] = prog[u]
BY FutexAssumption DEF FutexInv, ShapeInv, CallInv, Tasks

\* A section of a waker claims what it selected.
LEMMA SectionStep ==
  ASSUME FutexInv, ShapeInv', NEW w \in Wakers, pc[w] \in {"user", "exit"}, Sectioned(w),
         CallWith(w), WakerLeavesAlone
  PROVE  FutexInv'
<1>1. pc' = [pc EXCEPT ![w] = "deliver"] /\ prog' = [prog EXCEPT ![w] = Tail(@)]
  BY DEF CallWith, Goto
<1>2. call' = call /\ crossed' = crossed /\ woken' = woken /\ timedOut' = timedOut /\ timer' = timer /\ next' = next
  BY DEF WakerLeavesAlone, flags
<1>3. /\ \A u \in Waiters : Steady(u)
      /\ \A x \in Wakers \ {w} : pc'[x] = pc[x]
      /\ pc'[w] = "deliver"
  BY <1>1, <1>2, OtherProg, WakerSteady
<1>4. toWake' = [toWake EXCEPT ![w] = toWake'[w]]
  BY DEF Sectioned
<1>5. \A x \in Wakers \ {w} : toWake'[x] = toWake[x]
  BY <1>4 DEF FutexInv, ShapeInv, EntriesInv
<1>6. w \in Claimers /\ Claims(w)' = toWake'[w]
  BY <1>3 DEF Claimers, Claims, ClaimsOf
<1>7. ASSUME NEW x \in Claimers \ {w} PROVE Kept(x)
  <2>1. CASE x \in Wakers
    BY <1>3, <1>5, <2>1, KeptWaker
  <2>2. CASE x \in Cpus
    BY <1>2, <2>2, KeptCpu
  <2> QED BY <2>1, <2>2 DEF Claimers
<1>8. Moving(table', table) /\ Sparse(table') /\ Settled
  BY DEF Sectioned, Settled
<1>9. \A j \in DOMAIN Claims(w)' : \E k \in Keys : Queued(k, Claims(w)'[j])
  BY <1>6 DEF Sectioned, Queued
<1>10. /\ \A i, j \in DOMAIN Claims(w)' : SameCall(Claims(w)'[i], Claims(w)'[j]) => i = j
       /\ \A k \in Keys : \A i \in DOMAIN table'[k], j \in DOMAIN Claims(w)' :
            ~SameCall(Claims(w)'[j], table'[k][i])
  BY <1>6 DEF Sectioned
<1>11. ClaimsFrom /\ ClaimedOnce'
  BY <1>6, <1>7, <1>8, <1>9, <1>10, NewClaims
<1> QED BY <1>2, <1>3, <1>8, <1>11, SteadyStep

\* FutexWake keeps the invariant.
LEMMA FutexWakeStep == ASSUME FutexInv, NEW w \in Wakers, FutexWake(w) PROVE FutexInv'
<1>1. pc[w] \in {"user", "exit"} /\ CallWith(w) /\ WakerLeavesAlone
  BY DEF FutexWake, At
<1> QED BY <1>1, FutexWakeShape, FutexWakeSection, SectionStep

\* FutexCmpRequeue keeps the invariant.
LEMMA FutexCmpRequeueStep == ASSUME FutexInv, NEW w \in Wakers, FutexCmpRequeue(w) PROVE FutexInv'
<1>1. pc[w] \in {"user", "exit"} /\ CallWith(w) /\ WakerLeavesAlone
  BY DEF FutexCmpRequeue, At
<1> QED BY <1>1, FutexCmpRequeueShape, FutexCmpRequeueSection, SectionStep

\* FutexWakeOp keeps the invariant.
LEMMA FutexWakeOpStep == ASSUME FutexInv, NEW w \in Wakers, FutexWakeOp(w) PROVE FutexInv'
<1>1. pc[w] \in {"user", "exit"} /\ CallWith(w) /\ WakerLeavesAlone
  BY DEF FutexWakeOp, At
<1> QED BY <1>1, FutexWakeOpShape, FutexWakeOpSection, SectionStep

\* FutexWakeOne keeps the invariant.
LEMMA FutexWakeOneStep == ASSUME FutexInv, NEW w \in Wakers, FutexWakeOne(w) PROVE FutexInv'
<1>1. pc[w] \in {"user", "exit"} /\ CallWith(w) /\ WakerLeavesAlone
  BY DEF FutexWakeOne
<1> QED BY <1>1, FutexWakeOneShape, FutexWakeOneSection, SectionStep

\* A store of user code and the store of an exit owe a wake.
LEMMA StoreStep ==
  ASSUME FutexInv, ShapeInv', NEW w \in Wakers, NEW l, pc' = [pc EXCEPT ![w] = l], {l, pc[w]} \subseteq {"user", "exit"},
         \A u \in Waiters : prog'[u] = prog[u], NEW k \in Keys, NEW v, val' = [val EXCEPT ![k] = v],
         owing' = [owing EXCEPT ![k] = @ \/ v # val[k]], table' = table, toWake' = toWake,
         WakerLeavesAlone
  PROVE  FutexInv'
<1>1. call' = call /\ crossed' = crossed /\ woken' = woken /\ timedOut' = timedOut /\ timer' = timer /\ next' = next
  BY DEF WakerLeavesAlone, flags
<1>2. /\ \A u \in Waiters : Steady(u)
      /\ \A x \in Wakers \ {w} : pc'[x] = pc[x]
      /\ pc'[w] = l
  BY <1>1, WakerSteady
<1>3. Settled
  <2>1. val \in [Keys -> Values] /\ owing \in [Keys -> BOOLEAN]
    BY DEF FutexInv, ShapeInv, DataInv
  <2>2. ASSUME NEW m \in Keys, owing[m] \/ val'[m] # val[m] PROVE owing'[m]
    <3>1. CASE m = k
      <4>1. val'[m] = v
        BY <2>1, <3>1
      <4>2. owing'[m] = (owing[m] \/ v # val[m])
        BY <2>1, <3>1
      <4> QED BY <2>2, <4>1, <4>2, Zenon
    <3>2. CASE m # k
      <4>1. val'[m] = val[m]
        BY <2>1, <3>2
      <4>2. owing'[m] = owing[m]
        BY <2>1, <3>2
      <4> QED BY <2>2, <4>1, <4>2, Zenon
    <3> QED BY <3>1, <3>2
  <2> QED BY <2>2, Zenon DEF Settled
<1>4. ASSUME NEW x \in Claimers PROVE Shifted(x)
  <2>1. CASE x \in Wakers \ {w}
    BY <1>2, <2>1, KeptWaker DEF Shifted
  <2>2. CASE x \in Cpus
    BY <1>1, <2>2, KeptCpu DEF Shifted
  <2>3. CASE x = w
    BY <1>2, <2>3 DEF Shifted, Kept, Claims, ClaimsOf
  <2> QED BY <2>1, <2>2, <2>3 DEF Claimers
<1>5. Thin(table', table) /\ Sparse(table')
  BY ThinSame DEF FutexInv
<1>6. Moving(table', table)
  BY <1>5, StaysMoving
<1>7. ClaimsFrom /\ ClaimedOnce'
  BY <1>4, <1>6, FewerClaims
<1> QED BY <1>1, <1>2, <1>3, <1>5, <1>6, <1>7, SteadyStep

\* UserStore keeps the invariant.
LEMMA UserStoreStep == ASSUME FutexInv, NEW w \in Wakers, UserStore(w) PROVE FutexInv'
<1> DEFINE k == Head(prog[w]).key
           v == Head(prog[w]).new
<1>1. k \in Keys
  BY StoreType DEF UserStore
<1>2. /\ val' = [val EXCEPT ![k] = v] /\ owing' = [owing EXCEPT ![k] = @ \/ v # val[k]]
      /\ prog' = [prog EXCEPT ![w] = Tail(@)] /\ table' = table /\ toWake' = toWake
      /\ WakerLeavesAlone
  BY DEF UserStore
<1>3. pc[w] = "user" /\ pc' = pc
  BY DEF UserStore, At
<1>4. pc' = [pc EXCEPT ![w] = "user"] /\ {"user", pc[w]} \subseteq {"user", "exit"}
  BY <1>3 DEF FutexInv, ShapeInv, PlaceInv
<1>5. \A u \in Waiters : prog'[u] = prog[u]
  BY <1>2, OtherProg
<1>6. ShapeInv'
  BY UserStoreShape
<1> HIDE DEF k, v
<1> QED BY <1>1, <1>2, <1>4, <1>5, <1>6, StoreStep

\* ExitClear keeps the invariant.
LEMMA ExitClearStep == ASSUME FutexInv, NEW w \in Wakers, ExitClear(w) PROVE FutexInv'
<1> DEFINE k == Head(prog[w]).key
<1>1. k \in Keys
  BY ExitType DEF ExitClear
<1>2. /\ val' = [val EXCEPT ![k] = 0] /\ owing' = [owing EXCEPT ![k] = @ \/ val[k] # 0]
      /\ prog' = prog /\ table' = table /\ toWake' = toWake
      /\ WakerLeavesAlone
  BY DEF ExitClear
<1>3. pc[w] = "user" /\ pc' = [pc EXCEPT ![w] = "exit"]
  BY DEF ExitClear, At, Goto
<1>4. {"exit", pc[w]} \subseteq {"user", "exit"}
  BY <1>3
<1>5. ShapeInv'
  BY ExitClearShape
<1> HIDE DEF k
<1>6. owing' = [owing EXCEPT ![k] = @ \/ 0 # val[k]]
  <2>1. (val[k] # 0) <=> (0 # val[k])
    OBVIOUS
  <2>2. (owing[k] \/ val[k] # 0) = (owing[k] \/ 0 # val[k])
    BY <2>1, Zenon
  <2> QED BY <1>2, <2>2, Zenon
<1> QED BY <1>1, <1>2, <1>3, <1>4, <1>5, <1>6, StoreStep

\* A claim whose result is in the TCB is no claim any more.
LEMMA DeliverStep == ASSUME FutexInv, NEW w \in Wakers, Deliver(w) PROVE FutexInv'
<1> DEFINE q == toWake[w]
           t == Head(q).task
<1>1. ShapeInv'
  BY DeliverShape
<1>2. /\ pc[w] = "deliver" /\ q # <<>> /\ pc' = [pc EXCEPT ![w] = "wakeup"]
      /\ woken' = [woken EXCEPT ![t] = TRUE]
  BY DEF Deliver, Goto
<1>3. /\ call' = call /\ prog' = prog /\ crossed' = crossed /\ timedOut' = timedOut
      /\ next' = next /\ val' = val /\ owing' = owing /\ toWake' = toWake /\ timer' = timer /\ table' = table
  BY DEF Deliver, waitVars, histVars
<1>4. q \in Seq(Entries) /\ w \in Claimers /\ w \in Tasks
  BY DEF FutexInv, ShapeInv, EntriesInv, Claimers, Tasks
<1>5. Claims(w) = q
  BY <1>2 DEF Claims, ClaimsOf
<1> HIDE DEF q
<1>6. 1 \in DOMAIN q /\ Head(q) = q[1] /\ Len(q) \in Nat /\ Tail(q) \in Seq(Entries)
      /\ DOMAIN q = 1..Len(q) /\ DOMAIN Tail(q) = 1..(Len(q) - 1)
      /\ \A i \in 1..(Len(q) - 1) : Tail(q)[i] = q[i + 1]
  BY <1>2, <1>4
<1>7. Claimed(t)
  BY <1>4, <1>5, <1>6 DEF Claimed
<1>8. Waiters \cap Wakers = {} /\ pc \in [Tasks -> {"user", "gone"} \cup WaitPcs \cup WakePcs]
  BY FutexAssumption DEF FutexInv, ShapeInv, PlaceInv
<1>9. \A x \in Tasks \ {w} : pc'[x] = pc[x]
  BY <1>2, <1>8
<1>10. pc'[w] = "wakeup"
  BY <1>2, <1>4, <1>8
<1>11. ASSUME NEW u \in Waiters PROVE Steady(u)
  <2>1. Moves(u)
    BY <1>8, <1>9 DEF Moves, Tasks
  <2>2. Result(u)' => Result(u) \/ Claimed(u)
    <3>1. CASE u = t
      BY <1>7, <3>1
    <3>2. CASE u # t
      <4>1. woken'[u] = woken[u]
        BY <1>2, <3>2 DEF FutexInv, ShapeInv, DataInv
      <4> QED BY <1>3, <4>1, Zenon DEF Result
    <3> QED BY <3>1, <3>2
  <2> QED BY <1>3, <2>1, <2>2, MovesFacts, Zenon DEF Steady
<1>12. ASSUME NEW x \in Claimers PROVE Shifted(x)
  <2>1. CASE x \in Wakers \ {w}
    BY <1>3, <1>9, <2>1, KeptWaker DEF Shifted, Tasks
  <2>2. CASE x \in Cpus
    BY <1>3, <2>2, KeptCpu DEF Shifted
  <2>3. CASE x = w
    <3>1. Claims(w)' = Tail(q)
      BY <1>3, <1>10 DEF Claims, ClaimsOf, q
    <3>2. \A i \in DOMAIN Tail(q) : i + 1 \in DOMAIN q /\ Tail(q)[i] = q[i + 1]
      BY <1>6
    <3> QED BY <1>5, <2>3, <3>1, <3>2 DEF Shifted
  <2> QED BY <2>1, <2>2, <2>3 DEF Claimers
<1>13. Thin(table', table) /\ Sparse(table')
  BY <1>3, ThinSame DEF FutexInv
<1> QED BY <1>1, <1>3, <1>11, <1>12, <1>13, CalmStep

\* DeliverWakeup keeps the invariant.
LEMMA DeliverWakeupStep == ASSUME FutexInv, NEW w \in Wakers, DeliverWakeup(w) PROVE FutexInv'
<1> DEFINE t == Head(toWake[w]).task
<1>1. ShapeInv'
  BY DeliverWakeupShape
<1>2. /\ call' = call /\ prog' = prog /\ crossed' = crossed /\ timedOut' = timedOut /\ woken' = woken
      /\ next' = next /\ val' = val /\ owing' = owing /\ timer' = timer /\ table' = table
      /\ toWake' = [toWake EXCEPT ![w] = Tail(@)] /\ pc[w] = "wakeup"
      /\ pc' = [x \in Tasks |-> IF x = t /\ pc[t] = "asleep" THEN "loop"
                                ELSE IF x = w THEN "deliver" ELSE pc[x]]
  BY DEF DeliverWakeup, Wakeup, flags, waitVars, histVars
<1>3. toWake[w] # <<>> /\ toWake[w] \in Seq(Entries)
  BY <1>2 DEF FutexInv, ShapeInv, PlaceInv, EntriesInv
<1>4. Head(toWake[w]) \in Entries
  BY <1>3
<1>5. t \in Waiters /\ w \in Tasks /\ Waiters \cap Wakers = {}
  BY <1>4, FutexAssumption DEF Entries, Tasks
<1> HIDE DEF t
<1>6. ASSUME NEW u \in Waiters PROVE Steady(u)
  <2>1. Moves(u)
    BY <1>2, <1>5 DEF Moves, Tasks
  <2> QED BY <1>2, <2>1, SteadyMove
<1>7. pc'[w] = "deliver" /\ \A x \in Wakers \ {w} : pc'[x] = pc[x]
  BY <1>2, <1>5 DEF Tasks
<1>8. toWake'[w] = Tail(toWake[w]) /\ \A x \in Wakers \ {w} : toWake'[x] = toWake[x]
  BY <1>2 DEF FutexInv, ShapeInv, EntriesInv
<1>9. ASSUME NEW x \in Claimers PROVE Shifted(x)
  <2>1. CASE x \in Wakers \ {w}
    BY <1>7, <1>8, <2>1, KeptWaker DEF Shifted
  <2>2. CASE x \in Cpus
    BY <1>2, <2>2, KeptCpu DEF Shifted
  <2>3. CASE x = w
    BY <1>2, <1>7, <1>8, <2>3 DEF Shifted, Kept, Claims, ClaimsOf
  <2> QED BY <2>1, <2>2, <2>3 DEF Claimers
<1>10. Thin(table', table) /\ Sparse(table')
  BY <1>2, ThinSame DEF FutexInv
<1> QED BY <1>1, <1>2, <1>6, <1>9, <1>10, CalmStep

\* DeliverDone keeps the invariant.
LEMMA DeliverDoneStep == ASSUME FutexInv, NEW w \in Wakers, DeliverDone(w) PROVE FutexInv'
<1>1. ShapeInv'
  BY DeliverDoneShape
<1>2. /\ call' = call /\ prog' = prog /\ crossed' = crossed /\ timedOut' = timedOut /\ woken' = woken
      /\ next' = next /\ val' = val /\ owing' = owing /\ timer' = timer /\ table' = table
      /\ toWake' = toWake /\ pc[w] = "deliver" /\ pc' = [pc EXCEPT ![w] = "user"]
  BY DEF DeliverDone, Goto, flags, waitVars, histVars
<1>3. /\ \A u \in Waiters : Steady(u)
      /\ \A x \in Wakers \ {w} : pc'[x] = pc[x]
      /\ pc'[w] = "user"
  BY <1>2, WakerSteady
<1>4. ASSUME NEW x \in Claimers PROVE Shifted(x)
  <2>1. CASE x \in Wakers \ {w}
    BY <1>2, <1>3, <2>1, KeptWaker DEF Shifted
  <2>2. CASE x \in Cpus
    BY <1>2, <2>2, KeptCpu DEF Shifted
  <2>3. CASE x = w
    BY <1>2, <1>3, <2>3 DEF Shifted, Kept, Claims, ClaimsOf
  <2> QED BY <2>1, <2>2, <2>3 DEF Claimers
<1>5. Thin(table', table) /\ Sparse(table')
  BY <1>2, ThinSame DEF FutexInv
<1> QED BY <1>1, <1>2, <1>3, <1>4, <1>5, CalmStep

\* The claims around a step of the scheduler loop of c.
LEMMA TimerKept ==
  ASSUME FutexInv, NEW c \in Cpus, NEW r, timer' = [timer EXCEPT ![c] = r],
         toWake' = toWake, \A x \in Wakers : pc'[x] = pc[x]
  PROVE  /\ \A x \in Claimers \ {c} : Kept(x)
         /\ Claims(c) = TimerClaims(c) /\ Claims(c)' = TimerClaims(c)' /\ timer'[c] = r
         /\ c \in Claimers
<1>1. \A d \in Cpus \ {c} : timer'[d] = timer[d]
  BY DEF FutexInv, ShapeInv, EntriesInv
<1>2. c \notin Wakers
  BY FutexAssumption DEF Tasks
<1>3. ASSUME NEW x \in Claimers \ {c} PROVE Kept(x)
  <2>1. CASE x \in Wakers
    BY <2>1, KeptWaker
  <2>2. CASE x \in Cpus
    BY <1>1, <2>2, KeptCpu
  <2> QED BY <2>1, <2>2 DEF Claimers
<1>4. timer'[c] = r
  BY DEF FutexInv, ShapeInv, EntriesInv
<1> QED BY <1>2, <1>3, <1>4 DEF Claims, Claimers

\* A step of the scheduler loop of c that claims nothing.
LEMMA TimerStepKeeps ==
  ASSUME FutexInv, ShapeInv', NEW c \in Cpus, NEW r, timer' = [timer EXCEPT ![c] = r],
         r.pc # "deliver", toWake' = toWake, \A x \in Wakers : pc'[x] = pc[x],
         \A u \in Waiters : Steady(u), table' = table, val' = val, owing' = owing,
         next' = next \/ \A k \in Keys : \A e : Queued(k, e) => e.deadline >= next'
  PROVE  FutexInv'
<1>1. /\ \A x \in Claimers \ {c} : Kept(x)
      /\ Claims(c)' = TimerClaims(c)' /\ timer'[c] = r
  BY TimerKept
<1>2. Claims(c)' = <<>>
  BY <1>1 DEF TimerClaims
<1>3. \A x \in Claimers : Shifted(x)
  BY <1>1, <1>2 DEF Shifted
<1>4. Thin(table', table) /\ Sparse(table')
  BY ThinSame DEF FutexInv
<1>5. Moving(table', table)
  BY <1>4, StaysMoving
<1>6. ClaimsFrom /\ ClaimedOnce'
  BY <1>3, <1>5, FewerClaims
<1> QED BY <1>4, <1>5, <1>6, SettledSame, SteadyStep

\* CheckTimeouts keeps the invariant.
LEMMA CheckTimeoutsStep == ASSUME FutexInv, NEW c \in Cpus, CheckTimeouts(c) PROVE FutexInv'
<1> DEFINE r == [pc |-> "scan", now |-> now, entry |-> <<>>]
<1>1. ShapeInv'
  BY CheckTimeoutsShape
<1>2. /\ call' = call /\ prog' = prog /\ crossed' = crossed /\ timedOut' = timedOut /\ woken' = woken
      /\ next' = next /\ val' = val /\ owing' = owing /\ table' = table /\ toWake' = toWake /\ pc' = pc
      /\ timer' = [timer EXCEPT ![c] = r]
  BY DEF CheckTimeouts, SetTimer, flags, waitVars, histVars
<1>3. \A u \in Waiters : Steady(u)
  BY <1>2, SteadyMove DEF Moves
<1>4. r.pc # "deliver"
  OBVIOUS
<1> HIDE DEF r
<1> QED BY <1>1, <1>2, <1>3, <1>4, TimerStepKeeps

\* ExpireNone keeps the invariant.
LEMMA ExpireNoneStep == ASSUME FutexInv, NEW c \in Cpus, ExpireNone(c) PROVE FutexInv'
<1>1. ShapeInv'
  BY ExpireNoneShape
<1>2. /\ call' = call /\ prog' = prog /\ crossed' = crossed /\ timedOut' = timedOut /\ woken' = woken
      /\ next' = FollowingDeadline /\ val' = val /\ owing' = owing /\ table' = table /\ toWake' = toWake
      /\ pc' = pc /\ timer' = [timer EXCEPT ![c] = NoTimer]
  BY DEF ExpireNone, flags, waitVars, histVars
<1>3. \A u \in Waiters : Steady(u)
  BY <1>2, SteadyMove DEF Moves
<1>4. NoTimer.pc # "deliver"
  BY DEF NoTimer
<1>5. ASSUME NEW k \in Keys, NEW e, Queued(k, e) PROVE e.deadline >= next'
  <2>1. e \in Entries
    BY <1>5, QueuedFacts
  <2>2. e.deadline \in Nat /\ FollowingDeadline \in Nat /\ FollowingDeadline <= e.deadline
    BY <1>5, <2>1, FollowingFacts, FutexAssumption DEF Queued, Entries, NoDeadline
  <2> QED BY <1>2, <2>2
<1> QED BY <1>1, <1>2, <1>3, <1>4, <1>5, TimerStepKeeps

\* TimeoutWakeup keeps the invariant.
LEMMA TimeoutWakeupStep == ASSUME FutexInv, NEW c \in Cpus, TimeoutWakeup(c) PROVE FutexInv'
<1> DEFINE t == timer[c].entry[1].task
           r == [pc |-> "scan", now |-> timer[c].now, entry |-> <<>>]
<1>1. ShapeInv'
  BY TimeoutWakeupShape
<1>2. /\ call' = call /\ prog' = prog /\ crossed' = crossed /\ timedOut' = timedOut /\ woken' = woken
      /\ next' = next /\ val' = val /\ owing' = owing /\ table' = table /\ toWake' = toWake
      /\ timer' = [timer EXCEPT ![c] = r]
      /\ pc' = [x \in Tasks |-> IF x = t /\ pc[t] = "asleep" THEN "loop"
                                ELSE IF x = t THEN pc[t] ELSE pc[x]]
  BY DEF TimeoutWakeup, SetTimer, Wakeup, flags, waitVars, histVars
<1>3. t \in Waiters
  <2>1. timer[c].entry \in Seq(Entries) /\ Len(timer[c].entry) = 1
    BY DEF TimeoutWakeup, FutexInv, ShapeInv, EntriesInv, PlaceInv, TimerRecords
  <2>2. timer[c].entry[1] \in Entries
    BY <2>1
  <2> QED BY <2>2 DEF Entries
<1>4. r.pc # "deliver"
  OBVIOUS
<1> HIDE DEF r, t
<1>5. Waiters \cap Wakers = {}
  BY FutexAssumption
<1>6. ASSUME NEW u \in Waiters PROVE Steady(u)
  <2>1. Moves(u)
    BY <1>2 DEF Moves, Tasks
  <2> QED BY <1>2, <2>1, SteadyMove
<1>7. \A x \in Wakers : pc'[x] = pc[x]
  BY <1>2, <1>3, <1>5 DEF Tasks
<1> QED BY <1>1, <1>2, <1>4, <1>6, <1>7, TimerStepKeeps

\* DeliverTimeout keeps the invariant.
LEMMA DeliverTimeoutStep == ASSUME FutexInv, NEW c \in Cpus, DeliverTimeout(c) PROVE FutexInv'
<1> DEFINE t == timer[c].entry[1].task
           r == [pc |-> "wakeup", now |-> timer[c].now, entry |-> timer[c].entry]
<1>1. ShapeInv'
  BY DeliverTimeoutShape
<1>2. /\ call' = call /\ prog' = prog /\ crossed' = crossed
      /\ woken' = [woken EXCEPT ![t] = FALSE] /\ timedOut' = [timedOut EXCEPT ![t] = TRUE]
      /\ next' = next /\ val' = val /\ owing' = owing /\ table' = table /\ toWake' = toWake
      /\ timer' = [timer EXCEPT ![c] = r] /\ pc' = pc /\ timer[c].pc = "deliver"
  BY DEF DeliverTimeout, SetTimer, waitVars, histVars
<1>3. timer[c].entry \in Seq(Entries) /\ Len(timer[c].entry) = 1
  BY DEF DeliverTimeout, FutexInv, ShapeInv, EntriesInv, PlaceInv, TimerRecords
<1>4. 1 \in DOMAIN timer[c].entry
  BY <1>3
<1>5. Claimed(t)
  <2>1. Claims(c) = timer[c].entry /\ c \in Claimers
    BY <1>2, FutexAssumption DEF Claims, TimerClaims, Claimers, Tasks
  <2> QED BY <1>4, <2>1 DEF Claimed
<1>6. r.pc # "deliver"
  OBVIOUS
<1> HIDE DEF r, t
<1>7. ASSUME NEW u \in Waiters PROVE Steady(u)
  <2>1. Moves(u)
    BY <1>2 DEF Moves
  <2>2. Result(u)' => Result(u) \/ Claimed(u)
    <3>1. CASE u = t
      BY <1>5, <3>1
    <3>2. CASE u # t
      <4>1. woken'[u] = woken[u] /\ timedOut'[u] = timedOut[u]
        BY <1>2, <3>2 DEF FutexInv, ShapeInv, DataInv
      <4> QED BY <4>1, Zenon DEF Result
    <3> QED BY <3>1, <3>2
  <2> QED BY <1>2, <2>1, <2>2, MovesFacts, Zenon DEF Steady
<1> QED BY <1>1, <1>2, <1>6, <1>7, TimerStepKeeps

\* ExpireOne keeps the invariant.
LEMMA ExpireOneStep ==
  ASSUME FutexInv, NEW c \in Cpus, NEW k \in Keys, ExpireOne(c, k)
  PROVE  FutexInv'
<1>1. ShapeInv'
  BY ExpireOneShape
<1>2. PICK e \in Entries : Expiring(c, e)
  BY ExpireSection
<1> DEFINE r == [pc |-> "deliver", now |-> timer[c].now, entry |-> <<e>>]
<1>3. /\ table' \in Tables /\ Sparse(table') /\ Thin(table', table)
      /\ \E l \in Keys : \E i \in DOMAIN table[l] : e = table[l][i]
      /\ \A l \in Keys : \A i \in DOMAIN table'[l] : ~SameCall(e, table'[l][i])
      /\ timer' = [timer EXCEPT ![c] = r]
  BY <1>2 DEF Expiring
<1>4. /\ call' = call /\ prog' = prog /\ crossed' = crossed /\ woken' = woken /\ timedOut' = timedOut
      /\ next' = next /\ val' = val /\ owing' = owing /\ toWake' = toWake /\ pc' = pc
  BY DEF ExpireOne, flags, waitVars, histVars
<1>5. \A u \in Waiters : Steady(u)
  BY <1>4, SteadyMove DEF Moves
<1>6. r.pc = "deliver" /\ r.entry = <<e>>
  OBVIOUS
<1> HIDE DEF r
<1>7. /\ \A x \in Claimers \ {c} : Kept(x)
      /\ Claims(c)' = TimerClaims(c)' /\ timer'[c] = r /\ c \in Claimers
  BY <1>3, <1>4, TimerKept
<1>8. Claims(c)' = <<e>>
  BY <1>6, <1>7 DEF TimerClaims
<1>9. DOMAIN Claims(c)' = {1} /\ Claims(c)'[1] = e
  BY <1>8
<1>10. Moving(table', table)
  BY <1>3, StaysMoving
<1>11. \A j \in DOMAIN Claims(c)' : \E l \in Keys : Queued(l, Claims(c)'[j])
  BY <1>3, <1>9 DEF Queued
<1>12. \A i, j \in DOMAIN Claims(c)' : SameCall(Claims(c)'[i], Claims(c)'[j]) => i = j
  BY <1>9
<1>13. \A l \in Keys : \A i \in DOMAIN table'[l], j \in DOMAIN Claims(c)' :
         ~SameCall(Claims(c)'[j], table'[l][i])
  BY <1>3, <1>9
<1>14. ClaimsFrom /\ ClaimedOnce'
  BY <1>1, <1>7, <1>10, <1>11, <1>12, <1>13, NewClaims
<1> QED BY <1>1, <1>3, <1>4, <1>5, <1>10, <1>14, SettledSame, SteadyStep

-----------------------------------------------------------------------------
(* The steps that begin, publish or end a call *)

\* The claims around a step of a waiter.
LEMMA WaiterKept ==
  ASSUME FutexInv, NEW t \in Waiters, NEW l, pc' = [pc EXCEPT ![t] = l],
         toWake' = toWake, timer' = timer
  PROVE  /\ \A x \in Claimers : Shifted(x)
         /\ pc'[t] = l /\ \A u \in Waiters \ {t} : pc'[u] = pc[u]
         /\ \A e : Held(e)' <=> Held(e)
<1>1. Waiters \cap Wakers = {} /\ pc \in [Tasks -> {"user", "gone"} \cup WaitPcs \cup WakePcs]
  BY FutexAssumption DEF FutexInv, ShapeInv, PlaceInv
<1>2. pc'[t] = l /\ \A u \in Tasks \ {t} : pc'[u] = pc[u]
  BY <1>1 DEF Tasks
<1>3. \A x \in Wakers : pc'[x] = pc[x]
  BY <1>1, <1>2 DEF Tasks
<1>4. ASSUME NEW x \in Claimers PROVE Kept(x)
  <2>1. CASE x \in Wakers
    BY <1>3, <2>1, KeptWaker
  <2>2. CASE x \in Cpus
    BY <2>2, KeptCpu
  <2> QED BY <2>1, <2>2 DEF Claimers
<1>5. \A x \in Claimers : Shifted(x)
  BY <1>4 DEF Shifted
<1>6. \A e : Held(e)' <=> Held(e)
  BY <1>4 DEF Held, Kept
<1> QED BY <1>2, <1>5, <1>6 DEF Tasks

\* FutexInv for the next state, from what is true of each entry and waiter.
LEMMA Together ==
  ASSUME ShapeInv', \A k \in Keys : \A e : Queued(k, e)' => QueuedOk(k, e)',
         \A e : Held(e)' => Numbered(e)' /\ Belongs(e)', \A u \in Waiters : WaiterOk(u)',
         Sparse(table'), ClaimedOnce'
  PROVE  FutexInv'
<1>1. QueueInv'
  BY QueueInvFrom
<1>2. ClaimInv'
  BY ClaimInvFrom
<1> QED BY <1>1, <1>2 DEF FutexInv, WaiterInv

\* What stays true of the entries of the other tasks, and of the tasks.
LEMMA Others ==
  ASSUME FutexInv, NEW t \in Waiters, \A u \in Waiters \ {t} : Steady(u), val' = val, owing' = owing, next' = next
  PROVE  /\ \A k \in Keys : \A e : Queued(k, e) /\ e.task # t => QueuedOk(k, e)'
         /\ \A e : Held(e) /\ e.task # t => Numbered(e)' /\ Belongs(e)'
         /\ \A u \in Waiters \ {t} : WaiterOk(u)'
<1>1. ASSUME NEW k \in Keys, NEW e, Queued(k, e), e.task # t PROVE QueuedOk(k, e)'
  <2>1. e.task \in Waiters
    BY <1>1, QueuedFacts
  <2>2. Expects(k, e) => Expects(k, e)'
    BY Zenon DEF Expects
  <2> QED BY <1>1, <2>1, <2>2, SteadyQueued
<1>2. ASSUME NEW e, Held(e), e.task # t PROVE Numbered(e)' /\ Belongs(e)'
  <2>1. Numbered(e) /\ Belongs(e) /\ e.task \in Waiters
    BY <1>2, HeldFacts
  <2> QED BY <1>2, <2>1, SteadyEntry
<1>3. \A u \in Waiters \ {t} : WaiterOk(u)'
  BY SteadyWaiter
<1> QED BY <1>1, <1>2, <1>3

\* CallWait keeps the invariant.
LEMMA CallWaitStep == ASSUME FutexInv, NEW t \in Waiters, CallWait(t) PROVE FutexInv'
<1>1. ShapeInv'
  BY CallWaitShape
<1>2. /\ pc[t] = "user" /\ prog[t] # <<>> /\ pc' = [pc EXCEPT ![t] = "enqueue"]
      /\ prog' = [prog EXCEPT ![t] = Tail(@)]
      /\ woken' = [woken EXCEPT ![t] = FALSE] /\ timedOut' = [timedOut EXCEPT ![t] = FALSE]
      /\ val' = val /\ owing' = owing /\ next' = next /\ crossed' = crossed /\ table' = table
      /\ toWake' = toWake /\ timer' = timer
  BY DEF CallWait, Goto, histVars
<1>3. /\ \A x \in Claimers : Shifted(x)
      /\ pc'[t] = "enqueue" /\ \A u \in Waiters \ {t} : pc'[u] = pc[u]
      /\ \A e : Held(e)' <=> Held(e)
  BY <1>2, WaiterKept
<1>4. \A u \in Waiters \ {t} : call'[u] = call[u]
  BY DEF CallWait, FutexInv, ShapeInv, CallInv
<1>5. call'[t].number = Len(prog[t])
  BY DEF CallWait, FutexInv, ShapeInv, CallInv
<1>6. \A u \in Waiters \ {t} : prog'[u] = prog[u] /\ woken'[u] = woken[u] /\ timedOut'[u] = timedOut[u]
  BY <1>2 DEF FutexInv, ShapeInv, CallInv, DataInv, Tasks
<1>7. woken'[t] = FALSE /\ timedOut'[t] = FALSE
  BY <1>2 DEF FutexInv, ShapeInv, DataInv
<1>8. prog'[t] = Tail(prog[t]) /\ prog[t] \in Seq(WaitCalls)
  BY <1>2 DEF FutexInv, ShapeInv, CallInv, Tasks
<1>9. Len(prog[t]) \in Nat /\ Len(prog'[t]) \in Nat /\ Len(prog'[t]) < Len(prog[t])
  <2>1. ASSUME NEW q \in Seq(WaitCalls), q # <<>>
        PROVE  Len(q) \in Nat /\ Len(Tail(q)) \in Nat /\ Len(Tail(q)) < Len(q)
    BY <2>1
  <2> QED BY ONLY <1>2, <1>8, <2>1
<1>10. \A u \in Waiters \ {t} : Steady(u)
  BY <1>2, <1>3, <1>4, <1>6, SteadyMove DEF Moves
<1>11. ~Result(t)'
  BY <1>7 DEF Result
<1>12. ASSUME NEW e \in Entries, e.task = t, Numbered(e), Belongs(e)
       PROVE  Numbered(e)' /\ Belongs(e)' /\ Timed(e)'
  <2>1. e.call > Len(prog[t]) /\ e.call \in Nat
    BY <1>12 DEF Numbered, Entries
  <2>2. Numbered(e)'
    BY <1>5, <1>9, <1>12, <2>1 DEF Numbered
  <2>3. ~InWait(t)
    BY <1>2 DEF InWait, WaitPcs
  <2>4. crossed'[t]
    BY <1>2, <1>12, <2>3, Zenon DEF Belongs
  <2>5. e.call # call'[t].number
    BY <1>5, <1>9, <2>1
  <2>6. Timed(e)'
    BY <1>12, <2>5 DEF Timed
  <2> QED BY <1>12, <2>2, <2>4, <2>6, Zenon DEF Belongs
<1>13. ASSUME NEW k \in Keys, NEW e, Queued(k, e)' PROVE QueuedOk(k, e)'
  <2>1. Queued(k, e)
    BY <1>2, <1>13 DEF Queued
  <2>2. CASE e.task # t
    BY <1>2, <1>10, <2>1, <2>2, Others
  <2>3. CASE e.task = t
    <3>1. QueuedOk(k, e) /\ e \in Entries
      BY <2>1, QueuedFacts
    <3>2. Numbered(e)' /\ Belongs(e)' /\ Timed(e)'
      BY <1>12, <2>3, <3>1 DEF QueuedOk
    <3>3. Quiet(e)'
      BY <1>11, <2>3, Zenon DEF Quiet
    <3>4. e.deadline >= next'
      BY <1>2, <2>3, <3>1 DEF QueuedOk, Covered, Publishing
    <3>5. Expects(k, e)'
      BY <1>2, <3>1, Zenon DEF QueuedOk, Expects
    <3> QED BY <3>2, <3>3, <3>4, <3>5 DEF QueuedOk, Covered
  <2> QED BY <2>2, <2>3
<1>14. ASSUME NEW e, Held(e)' PROVE Numbered(e)' /\ Belongs(e)'
  <2>1. Held(e) /\ e \in Entries /\ Numbered(e) /\ Belongs(e)
    BY <1>3, <1>14, HeldFacts
  <2>2. CASE e.task # t
    BY <1>2, <1>10, <2>1, <2>2, Others
  <2>3. CASE e.task = t
    BY <1>12, <2>1, <2>3
  <2> QED BY <2>2, <2>3
<1>15. WaiterOk(t)'
  <2>1. call'[t].number > Len(prog'[t])
    BY <1>5, <1>9
  <2> QED BY <1>11, <2>1 DEF WaiterOk
<1>16. \A u \in Waiters : WaiterOk(u)'
  BY <1>2, <1>10, <1>15, Others
<1>17. Thin(table', table) /\ Sparse(table')
  BY <1>2, ThinSame DEF FutexInv
<1>18. ClaimedOnce'
  BY <1>1, <1>3, <1>17, StaysMoving, FewerClaims
<1> QED BY <1>1, <1>13, <1>14, <1>16, <1>17, <1>18, Together

\* A call of t ends: what is still claimed of it, and what is left of it in the
\* table, crosses the return.
LEMMA ReturnStep ==
  ASSUME FutexInv, ShapeInv', NEW t \in Waiters, Return(t), pc[t] # "publish",
         \A u \in Waiters \ {t} : woken'[u] = woken[u] /\ timedOut'[u] = timedOut[u],
         Thin(table', table), Sparse(table'),
         \A k \in Keys : \A e : Queued(k, e)' /\ e.task = t => crossed[t],
         prog' = prog, val' = val, owing' = owing, next' = next, toWake' = toWake, timer' = timer
  PROVE  FutexInv'
<1>1. call' = [call EXCEPT ![t] = NoCall] /\ pc' = [pc EXCEPT ![t] = "user"]
      /\ crossed' = [crossed EXCEPT ![t] = @ \/ Claimed(t)]
  BY DEF Return, Goto
<1>2. /\ \A x \in Claimers : Shifted(x)
      /\ pc'[t] = "user" /\ \A u \in Waiters \ {t} : pc'[u] = pc[u]
      /\ \A e : Held(e)' <=> Held(e)
  BY <1>1, WaiterKept
<1>3. \A u \in Waiters \ {t} : call'[u] = call[u] /\ crossed'[u] = crossed[u]
  BY <1>1 DEF FutexInv, ShapeInv, CallInv, DataInv
<1>4. crossed'[t] = (crossed[t] \/ Claimed(t))
  BY <1>1 DEF FutexInv, ShapeInv, DataInv
<1>5. \A u \in Waiters \ {t} : Steady(u)
  BY <1>2, <1>3, SteadyMove DEF Moves
<1>6. ~InWait(t)' /\ pc'[t] # "enqueue" /\ pc'[t] # "publish"
  BY <1>2 DEF InWait, WaitPcs
<1>7. ASSUME NEW e, e.task = t, Numbered(e), crossed'[t] PROVE Numbered(e)' /\ Belongs(e)' /\ Timed(e)'
  <2>1. Numbered(e)'
    BY <1>6, <1>7 DEF Numbered
  <2>2. Timed(e)'
    BY <1>6, <1>7 DEF Timed
  <2> QED BY <1>7, <2>1, <2>2, Zenon DEF Belongs
<1>8. ASSUME NEW k \in Keys, NEW e, Queued(k, e)' PROVE Queued(k, e)
  BY <1>8 DEF Queued, Thin
<1>9. ASSUME NEW k \in Keys, NEW e, Queued(k, e)' PROVE QueuedOk(k, e)'
  <2>1. Queued(k, e)
    BY <1>8, <1>9
  <2>2. CASE e.task # t
    BY <1>5, <2>1, <2>2, Others
  <2>3. CASE e.task = t
    <3>1. QueuedOk(k, e) /\ e \in Entries
      BY <2>1, QueuedFacts
    <3>2. crossed'[t]
      BY <1>4, <1>9, <2>3, Zenon
    <3>3. Numbered(e)' /\ Belongs(e)' /\ Timed(e)'
      BY <1>7, <2>3, <3>1, <3>2 DEF QueuedOk
    <3>4. Quiet(e)'
      BY <2>3, <3>2, Zenon DEF Quiet
    <3>5. e.deadline >= next'
      BY <2>3, <3>1 DEF QueuedOk, Covered, Publishing
    <3>6. Expects(k, e)'
      BY <3>1, Zenon DEF QueuedOk, Expects
    <3> QED BY <3>3, <3>4, <3>5, <3>6 DEF QueuedOk, Covered
  <2> QED BY <2>2, <2>3
<1>10. ASSUME NEW e, Held(e)' PROVE Numbered(e)' /\ Belongs(e)'
  <2>1. Held(e) /\ Numbered(e)
    BY <1>2, <1>10, HeldFacts
  <2>2. CASE e.task # t
    BY <1>5, <2>1, <2>2, Others
  <2>3. CASE e.task = t
    <3>1. Claimed(t)
      BY <2>1, <2>3, HeldClaimed
    <3>2. crossed'[t]
      BY <1>4, <3>1, Zenon
    <3> QED BY <1>7, <2>1, <2>3, <3>2
  <2> QED BY <2>2, <2>3
<1>11. WaiterOk(t)'
  BY <1>6, Zenon DEF WaiterOk
<1>12. \A u \in Waiters : WaiterOk(u)'
  BY <1>5, <1>11, Others
<1>13. ClaimedOnce'
  BY <1>2, StaysMoving, FewerClaims
<1> QED BY <1>9, <1>10, <1>12, <1>13, Together

\* RemoveTask keeps the invariant.
LEMMA RemoveTaskStep == ASSUME FutexInv, NEW t \in Waiters, RemoveTask(t) PROVE FutexInv'
<1>1. ShapeInv'
  BY RemoveTaskShape
<1>2. /\ pc[t] # "publish" /\ Return(t) /\ table' = Without(table, {t})
      /\ woken' = woken /\ timedOut' = timedOut
      /\ prog' = prog /\ val' = val /\ owing' = owing /\ next' = next /\ toWake' = toWake /\ timer' = timer
  BY DEF RemoveTask, Removed, flags
<1>3. table \in Tables /\ Sparse(table)
  BY DEF FutexInv, ShapeInv, EntriesInv
<1>4. /\ Thin(table', table) /\ Sparse(table')
      /\ \A k \in Keys : \A i \in DOMAIN table'[k] : table'[k][i].task \notin {t}
  BY ONLY <1>2, <1>3, WithoutFacts
<1>5. \A k \in Keys : \A e : Queued(k, e)' => e.task # t
  BY <1>4 DEF Queued
<1> QED BY <1>1, <1>2, <1>4, <1>5, ReturnStep

\* LoopCompleted keeps the invariant.
LEMMA LoopCompletedStep == ASSUME FutexInv, NEW t \in Waiters, LoopCompleted(t) PROVE FutexInv'
<1>1. ShapeInv'
  BY LoopCompletedShape
<1>2. /\ pc[t] = "loop" /\ (timedOut[t] \/ woken[t])
      /\ timedOut' = [timedOut EXCEPT ![t] = FALSE]
      /\ woken' = [woken EXCEPT ![t] = woken[t] /\ timedOut[t]]
      /\ prog' = prog /\ val' = val /\ owing' = owing /\ next' = next /\ toWake' = toWake
      /\ timer' = timer /\ table' = table
      /\ \/ Goto(t, "remove") /\ UNCHANGED <<call, crossed>>
         \/ Return(t)
  BY DEF LoopCompleted
<1>3. \A u \in Waiters \ {t} : woken'[u] = woken[u] /\ timedOut'[u] = timedOut[u]
  BY <1>2 DEF FutexInv, ShapeInv, DataInv
<1>4. Thin(table', table) /\ Sparse(table')
  BY <1>2, ThinSame DEF FutexInv
<1>5. Result(t)
  BY <1>2, Zenon DEF Result
<1>6. CASE Return(t)
  <2>1. ASSUME NEW k \in Keys, NEW e, Queued(k, e)', e.task = t PROVE crossed[t]
    <3>1. Queued(k, e)
      BY <1>2, <2>1 DEF Queued
    <3>2. Quiet(e)
      BY <3>1, QueuedFacts DEF QueuedOk
    <3> QED BY <1>5, <2>1, <3>2, Zenon DEF Quiet
  <2>2. pc[t] # "publish"
    BY <1>2
  <2> QED BY <1>1, <1>2, <1>3, <1>4, <1>6, <2>1, <2>2, ReturnStep
<1>7. CASE Goto(t, "remove") /\ UNCHANGED <<call, crossed>>
  <2>1. pc' = [pc EXCEPT ![t] = "remove"] /\ call' = call /\ crossed' = crossed
    BY <1>7 DEF Goto
  <2>2. /\ \A x \in Claimers : Shifted(x)
        /\ pc'[t] = "remove" /\ \A u \in Waiters \ {t} : pc'[u] = pc[u]
    BY <1>2, <2>1, WaiterKept
  <2>3. \A u \in Waiters \ {t} : Steady(u)
    BY <1>2, <1>3, <2>1, <2>2, SteadyMove DEF Moves
  <2>4. Moves(t)
    BY <1>2, <2>2 DEF Moves
  <2>5. Steady(t)
    BY <1>2, <1>5, <2>1, <2>4, MovesFacts, Zenon DEF Steady
  <2>6. \A u \in Waiters : Steady(u)
    BY <2>3, <2>5
  <2> QED BY <1>1, <1>2, <1>4, <2>2, <2>6, CalmStep
<1> QED BY <1>2, <1>6, <1>7

\* Enqueue keeps the invariant.
LEMMA EnqueueStep == ASSUME FutexInv, NEW t \in Waiters, Enqueue(t) PROVE FutexInv'
<1>1. ShapeInv'
  BY EnqueueShape
<1> DEFINE l == IF call[t].deadline = NoDeadline THEN "loop" ELSE "publish"
<1>2. /\ pc[t] = "enqueue" /\ woken' = woken /\ timedOut' = timedOut
      /\ prog' = prog /\ val' = val /\ owing' = owing /\ next' = next /\ toWake' = toWake /\ timer' = timer
      /\ \/ Return(t) /\ table' = table
         \/ /\ ~StaleValue(t) /\ table' = Pushed(t) /\ Goto(t, l) /\ call' = call /\ crossed' = crossed
  BY DEF Enqueue, flags
<1>3. ASSUME NEW e \in Entries, e.task = t, Numbered(e), Belongs(e)
      PROVE  e.call # call[t].number /\ crossed[t]
  <2>1. e.call > call[t].number
    BY <1>2, <1>3 DEF Numbered
  <2>2. e.call \in Nat /\ call[t].number \in Nat
    BY DEF FutexInv, ShapeInv, CallInv, WaitRecords, Entries
  <2>3. e.call # call[t].number
    BY <2>1, <2>2
  <2> QED BY <1>3, <2>3, Zenon DEF Belongs
<1>4. CASE Return(t) /\ table' = table
  <2>1. Thin(table', table) /\ Sparse(table')
    BY <1>4, ThinSame DEF FutexInv
  <2>2. ASSUME NEW k \in Keys, NEW e, Queued(k, e)', e.task = t PROVE crossed[t]
    <3>1. Queued(k, e)
      BY <1>4, <2>2 DEF Queued
    <3>2. e \in Entries /\ Numbered(e) /\ Belongs(e)
      BY <3>1, QueuedFacts DEF QueuedOk
    <3> QED BY <1>3, <2>2, <3>2
  <2>3. pc[t] # "publish" /\ \A u \in Waiters \ {t} : woken'[u] = woken[u] /\ timedOut'[u] = timedOut[u]
    BY <1>2
  <2> QED BY <1>1, <1>2, <1>4, <2>1, <2>2, <2>3, ReturnStep
<1>5. CASE ~StaleValue(t) /\ table' = Pushed(t) /\ Goto(t, l) /\ call' = call /\ crossed' = crossed
  <2>1. pc' = [pc EXCEPT ![t] = l] /\ l \in {"loop", "publish"}
    BY <1>5 DEF Goto
  <2>2. l # "publish" => call[t].deadline = NoDeadline
    OBVIOUS
  <2> HIDE DEF l
  <2>3. /\ \A x \in Claimers : Shifted(x)
        /\ pc'[t] = l /\ \A u \in Waiters \ {t} : pc'[u] = pc[u]
        /\ \A e : Held(e)' <=> Held(e)
    BY <1>2, <2>1, WaiterKept
  <2>4. \A u \in Waiters \ {t} : Steady(u)
    BY <1>2, <1>5, <2>3, SteadyMove DEF Moves
  <2>5. InWait(t)' /\ InWait(t) /\ pc'[t] # "enqueue"
    BY <1>2, <2>1, <2>3 DEF InWait, WaitPcs
  <2>6. ASSUME NEW e \in Entries, e.task = t, Numbered(e), Belongs(e)
        PROVE  Numbered(e)' /\ Belongs(e)' /\ Timed(e)'
    <3>1. e.call # call[t].number /\ crossed[t]
      BY <1>3, <2>6
    <3>2. Numbered(e)'
      BY <1>2, <2>5, <2>6 DEF Numbered
    <3>3. Belongs(e)'
      BY <1>5, <2>6, <3>1, Zenon DEF Belongs
    <3>4. Timed(e)'
      BY <1>5, <2>6, <3>1, Zenon DEF Timed
    <3> QED BY <3>2, <3>3, <3>4
  <2>7. WaiterOk(t) /\ IsWait(call[t])
    BY DEF FutexInv, WaiterInv, ShapeInv, CallInv
  <2>8. ASSUME NEW k \in Keys, NEW e, Queued(k, e) PROVE QueuedOk(k, e)'
    <3>1. CASE e.task # t
      BY <1>2, <2>4, <2>8, <3>1, Others
    <3>2. CASE e.task = t
      <4>1. QueuedOk(k, e) /\ e \in Entries
        BY <2>8, QueuedFacts
      <4>2. Numbered(e)' /\ Belongs(e)' /\ Timed(e)'
        BY <2>6, <3>2, <4>1 DEF QueuedOk
      <4>3. crossed[t]
        BY <1>3, <3>2, <4>1 DEF QueuedOk
      <4>4. Quiet(e)'
        BY <1>5, <3>2, <4>3, Zenon DEF Quiet
      <4>5. e.deadline >= next'
        BY <1>2, <3>2, <4>1 DEF QueuedOk, Covered, Publishing
      <4>6. Expects(k, e)'
        BY <1>2, <4>1, Zenon DEF QueuedOk, Expects
      <4> QED BY <4>2, <4>4, <4>5, <4>6 DEF QueuedOk, Covered
    <3> QED BY <3>1, <3>2
  <2>9. ASSUME NEW k \in Keys, NEW j \in DOMAIN call[t].keys, call[t].keys[j] = k
        PROVE  \A e : e = EntryOf(t, j) => QueuedOk(k, e)'
    <3> SUFFICES ASSUME NEW e, e = EntryOf(t, j) PROVE QueuedOk(k, e)'
      OBVIOUS
    <3>1. /\ e \in Entries /\ e.task = t /\ e.call = call[t].number
          /\ e.exp = call[t].vals[j] /\ e.deadline = call[t].deadline
      BY EntryFacts
    <3>2. Numbered(e)'
      BY <1>2, <2>5, <2>7, <3>1 DEF Numbered, WaiterOk
    <3>3. Belongs(e)'
      BY <1>5, <2>5, <3>1, Zenon DEF Belongs
    <3>4. Timed(e)'
      BY <1>5, <3>1, Zenon DEF Timed
    <3>5. Quiet(e)'
      <4>1. Result(t) => crossed[t]
        BY <1>2, <2>7, Zenon DEF WaiterOk
      <4> QED BY <1>2, <1>5, <3>1, <4>1, Zenon DEF Quiet, Result
    <3>6. Covered(e)'
      <4>1. CASE l = "publish"
        BY <1>5, <2>3, <3>1, <4>1 DEF Covered, Publishing
      <4>2. CASE l # "publish"
        <5>1. e.deadline = NoDeadline /\ next \in 0..NoDeadline
          BY <2>2, <3>1, <4>2 DEF FutexInv, ShapeInv, DataInv
        <5>2. NoDeadline \in Nat
          BY FutexAssumption DEF NoDeadline
        <5> QED BY <1>2, <5>1, <5>2 DEF Covered
      <4> QED BY <4>1, <4>2
    <3>7. Expects(k, e)'
      <4>1. val[call[t].keys[j]] = call[t].vals[j]
        BY <1>5 DEF StaleValue
      <4>2. e.exp = val[k]
        BY <2>9, <3>1, <4>1
      <4> QED BY <1>2, <4>2, Zenon DEF Expects
    <3> QED BY <3>2, <3>3, <3>4, <3>5, <3>6, <3>7 DEF QueuedOk
  <2>10. /\ Sparse(table')
         /\ \A k \in Keys : \A i \in DOMAIN table'[k] :
              \/ \E j \in DOMAIN table[k] : table'[k][i] = table[k][j]
              \/ \E j \in DOMAIN call[t].keys :
                   call[t].keys[j] = k /\ table'[k][i] = EntryOf(t, j)
    BY <1>2, <1>5, PushedFacts
  <2>11. ASSUME NEW k \in Keys, NEW e, Queued(k, e)'
         PROVE  \/ Queued(k, e)
                \/ \E j \in DOMAIN call[t].keys : call[t].keys[j] = k /\ e = EntryOf(t, j)
    <3>1. PICK i \in DOMAIN table'[k] : e = table'[k][i]
      BY <2>11 DEF Queued
    <3> QED BY <2>10, <3>1 DEF Queued
  <2>12. ASSUME NEW k \in Keys, NEW e, Queued(k, e)' PROVE QueuedOk(k, e)'
    BY <2>8, <2>9, <2>11, <2>12
  <2>13. ASSUME NEW e, Held(e)' PROVE Numbered(e)' /\ Belongs(e)'
    <3>1. Held(e) /\ e \in Entries /\ Numbered(e) /\ Belongs(e)
      BY <2>3, <2>13, HeldFacts
    <3>2. CASE e.task # t
      BY <1>2, <2>4, <3>1, <3>2, Others
    <3>3. CASE e.task = t
      BY <2>6, <3>1, <3>3
    <3> QED BY <3>2, <3>3
  <2>14. WaiterOk(t)'
    BY <1>2, <1>5, <2>5, <2>7, Zenon DEF WaiterOk
  <2>15. \A u \in Waiters : WaiterOk(u)'
    BY <1>2, <2>4, <2>14, Others
  <2>16. ClaimedOnce'
    <3>1. ASSUME NEW c, Held(c), NEW k \in Keys, NEW e, Queued(k, e)' PROVE ~SameCall(c, e)
      <4>1. CASE Queued(k, e)
        BY <3>1, <4>1, HeldFacts
      <4>2. CASE \E j \in DOMAIN call[t].keys : call[t].keys[j] = k /\ e = EntryOf(t, j)
        <5>1. e.task = t /\ e.call = call[t].number
          BY <4>2, EntryFacts
        <5>2. c \in Entries /\ Numbered(c) /\ Belongs(c)
          BY <3>1, HeldFacts
        <5> QED BY <1>3, <5>1, <5>2 DEF SameCall
      <4> QED BY <2>11, <3>1, <4>1, <4>2
    <3> QED BY <1>1, <2>3, <3>1, ClaimedApart
  <2> QED BY <1>1, <2>10, <2>12, <2>13, <2>15, <2>16, Together
<1> QED BY <1>2, <1>4, <1>5

\* PublishDeadline keeps the invariant.
LEMMA PublishDeadlineStep == ASSUME FutexInv, NEW t \in Waiters, PublishDeadline(t) PROVE FutexInv'
<1>1. ShapeInv'
  BY PublishDeadlineShape
<1>2. /\ pc[t] = "publish" /\ next' = Published(t) /\ pc' = [pc EXCEPT ![t] = "loop"]
      /\ call' = call /\ prog' = prog /\ woken' = woken /\ timedOut' = timedOut /\ crossed' = crossed
      /\ val' = val /\ owing' = owing /\ table' = table /\ toWake' = toWake /\ timer' = timer
  BY DEF PublishDeadline, Goto, flags, waitVars, histVars
<1>3. /\ \A x \in Claimers : Shifted(x)
      /\ pc'[t] = "loop" /\ \A u \in Waiters \ {t} : pc'[u] = pc[u]
      /\ \A e : Held(e)' <=> Held(e)
  BY <1>2, WaiterKept
<1>4. next \in Nat /\ call[t].deadline \in Nat /\ NoDeadline \in Nat
  BY FutexAssumption DEF FutexInv, ShapeInv, DataInv, CallInv, WaitRecords, NoDeadline
<1>5. next' \in Nat /\ next' <= next /\ next' <= call[t].deadline
  BY <1>2, <1>4, MinTwo DEF Published
<1>6. \A u \in Waiters \ {t} : Steady(u)
  BY <1>2, <1>3, SteadyMove DEF Moves
<1>7. ASSUME NEW e, e.task \in Waiters
      PROVE  /\ Numbered(e) => Numbered(e)' /\ (Belongs(e) => Belongs(e)')
             /\ Timed(e) => Timed(e)'
             /\ Quiet(e) => Quiet(e)'
             /\ Publishing(e) /\ e.task # t => Publishing(e)'
  <2>1. InWait(e.task)' <=> InWait(e.task)
    BY <1>2, <1>3, <1>7 DEF InWait, WaitPcs
  <2>2. pc'[e.task] = "enqueue" => pc[e.task] = "enqueue"
    BY <1>3, <1>7
  <2>3. Numbered(e) => Numbered(e)'
    BY <1>2, <2>2 DEF Numbered
  <2>4. Belongs(e) => Belongs(e)'
    BY <1>2, <2>1, Zenon DEF Belongs
  <2>5. Timed(e) => Timed(e)'
    BY <1>2, <2>1, Zenon DEF Timed
  <2>6. Quiet(e) => Quiet(e)'
    BY <1>2, Zenon DEF Quiet, Result
  <2>7. Publishing(e) /\ e.task # t => Publishing(e)'
    BY <1>2, <1>3, <1>7 DEF Publishing
  <2> QED BY <2>3, <2>4, <2>5, <2>6, <2>7
<1>8. ASSUME NEW k \in Keys, NEW e, Queued(k, e)' PROVE QueuedOk(k, e)'
  <2>1. Queued(k, e)
    BY <1>2, <1>8 DEF Queued
  <2>2. QueuedOk(k, e) /\ e \in Entries /\ e.task \in Waiters
    BY <2>1, QueuedFacts
  <2>3. e.deadline \in Nat
    BY <1>4, <2>2 DEF Entries
  <2>4. Covered(e)'
    <3>1. CASE e.deadline >= next
      BY <1>4, <1>5, <2>3, <3>1 DEF Covered
    <3>2. CASE Publishing(e) /\ e.task # t
      BY <1>7, <2>2, <3>2 DEF Covered
    <3>3. CASE Publishing(e) /\ e.task = t
      <4>1. InWait(t)
        BY <1>2 DEF InWait, WaitPcs
      <4>2. e.deadline = call[t].deadline
        BY <2>2, <3>3, <4>1 DEF QueuedOk, Timed, Publishing
      <4> QED BY <1>5, <2>3, <4>2 DEF Covered
    <3> QED BY <2>2, <3>1, <3>2, <3>3 DEF QueuedOk, Covered
  <2>5. Expects(k, e)'
    BY <1>2, <2>2, Zenon DEF QueuedOk, Expects
  <2> QED BY <1>7, <2>2, <2>4, <2>5 DEF QueuedOk
<1>9. ASSUME NEW e, Held(e)' PROVE Numbered(e)' /\ Belongs(e)'
  <2>1. Numbered(e) /\ Belongs(e) /\ e.task \in Waiters
    BY <1>3, <1>9, HeldFacts
  <2> QED BY <1>7, <2>1
<1>10. WaiterOk(t)'
  <2>1. InWait(t) /\ WaiterOk(t) /\ pc'[t] # "enqueue"
    BY <1>2, <1>3 DEF InWait, WaitPcs, FutexInv, WaiterInv
  <2> QED BY <1>2, <2>1, Zenon DEF WaiterOk
<1>11. ASSUME NEW u \in Waiters \ {t} PROVE WaiterOk(u)'
  BY <1>6, SteadyWaiter
<1>12. Thin(table', table) /\ Sparse(table')
  BY <1>2, ThinSame DEF FutexInv
<1>13. ClaimedOnce'
  BY <1>1, <1>3, <1>12, StaysMoving, FewerClaims
<1>14. \A u \in Waiters : WaiterOk(u)'
  BY <1>10, <1>11
<1> QED BY <1>1, <1>8, <1>9, <1>12, <1>13, <1>14, Together

-----------------------------------------------------------------------------
(* The inductive invariant, and what it implies *)

\* FutexInv holds initially ...
LEMMA InitInv == ASSUME Init PROVE FutexInv
<1>1. MaxTime \in Nat /\ MaxVal \in Nat /\ MaxSignals \in Nat /\ NoDeadline \in Nat
  BY FutexAssumption DEF NoDeadline
<1>2. DataInv
  BY <1>1 DEF Init, DataInv, Values, NoDeadline
<1>3. CallInv
  <2>1. call \in [Waiters -> WaitRecords] /\ \A t \in Waiters : IsWait(call[t])
    BY NoCallType DEF Init
  <2>2. prog \in Programs
    BY DEF Init
  <2>3. /\ prog = [t \in Tasks |-> prog[t]]
        /\ \A t \in Waiters : prog[t] \in Seq(WaitCalls)
        /\ \A w \in Wakers : prog[w] \in Seq(WakeCalls)
    BY <2>2, FutexAssumption, Zenon
  <2> QED BY <2>1, <2>3 DEF CallInv
<1>4. EntriesInv
  <2>1. <<>> \in Seq(Entries)
    OBVIOUS
  <2>2. NoTimer \in TimerRecords
    BY <1>1, <2>1 DEF NoTimer, TimerRecords
  <2> QED BY <2>1, <2>2 DEF Init, EntriesInv, Tables
<1>5. PlaceInv
  BY DEF Init, PlaceInv, NoTimer, WaitPcs, WakePcs, Tasks
<1>6. \A k \in Keys : DOMAIN table[k] = {}
  BY DEF Init
<1>7. ASSUME NEW x \in Claimers PROVE DOMAIN Claims(x) = {}
  <2>1. CASE x \in Wakers
    <3>1. toWake[x] = <<>> /\ pc[x] = "user"
      BY <2>1 DEF Init, Tasks
    <3> QED BY <2>1, <3>1 DEF Claims, ClaimsOf
  <2>2. CASE x \notin Wakers
    <3>1. timer[x].pc = "idle"
      BY <2>2 DEF Init, Claimers, NoTimer
    <3> QED BY <2>2, <3>1 DEF Claims, TimerClaims
  <2> QED BY <2>1, <2>2
<1>8. QueueInv /\ Sparse(table)
  BY <1>6 DEF QueueInv, Sparse
<1>9. ClaimInv /\ ClaimedOnce
  BY <1>7 DEF ClaimInv, ClaimedOnce
<1>10. WaiterInv
  <2>1. \A t \in Waiters : pc[t] = "user"
    BY DEF Init, Tasks
  <2> QED BY <2>1 DEF WaiterInv, WaiterOk, InWait, WaitPcs
<1> QED BY <1>2, <1>3, <1>4, <1>5, <1>8, <1>9, <1>10 DEF FutexInv, ShapeInv

\* A stuttering step.
LEMMA StutterStep == ASSUME FutexInv, UNCHANGED vars PROVE FutexInv'
<1>1. /\ val' = val /\ table' = table /\ next' = next /\ now' = now /\ pc' = pc /\ call' = call
      /\ prog' = prog /\ woken' = woken /\ timedOut' = timedOut /\ intr' = intr /\ zombie' = zombie
      /\ token' = token /\ toWake' = toWake /\ timer' = timer /\ killing' = killing
      /\ signals' = signals /\ owing' = owing /\ crossed' = crossed
  BY DEF vars, flags, waitVars, histVars
<1>2. ShapeInv'
  BY <1>1 DEF FutexInv, ShapeInv, DataInv, CallInv, EntriesInv, PlaceInv
<1>3. \A u \in Waiters : Steady(u)
  BY <1>1, SteadyMove DEF Moves
<1>4. \A x \in Claimers : Shifted(x)
  BY <1>1, AllKept
<1>5. Thin(table', table) /\ Sparse(table')
  BY <1>1, ThinSame DEF FutexInv
<1> QED BY <1>1, <1>2, <1>3, <1>4, <1>5, CalmStep

\* ... and every step keeps it.
LEMMA NextInv == ASSUME FutexInv, [Next]_vars PROVE FutexInv'
<1>1. ASSUME NEW t \in Waiters, CallWait(t) \/ WaitStep(t) \/ KillCleanup(t) PROVE FutexInv'
  <2>1. CASE CallWait(t)
    BY <2>1, CallWaitStep
  <2>2. CASE KillCleanup(t)
    BY <2>2, KillCleanupStep
  <2>3. CASE WaitStep(t)
    BY <2>3, EnqueueStep, PublishDeadlineStep, LoopCompletedStep, LoopInterruptedStep,
       LoopBlockStep, RemoveTaskStep, BlockStep, ExitWaiterStep DEF WaitStep
  <2> QED BY <1>1, <2>1, <2>2, <2>3
<1>2. ASSUME NEW w \in Wakers, WakeCall(w) \/ WakeStep(w) PROVE FutexInv'
  <2>1. CASE WakeCall(w)
    BY <2>1, FutexWakeStep, FutexCmpRequeueStep, FutexWakeOpStep, UserStoreStep, ExitClearStep
    DEF WakeCall
  <2>2. CASE WakeStep(w)
    BY <2>2, FutexWakeOneStep, DeliverStep, DeliverWakeupStep, DeliverDoneStep DEF WakeStep
  <2> QED BY <1>2, <2>1, <2>2
<1>3. ASSUME NEW c \in Cpus, TimerStep(c) PROVE FutexInv'
  BY <1>3, CheckTimeoutsStep, ExpireOneStep, ExpireNoneStep, DeliverTimeoutStep, TimeoutWakeupStep
  DEF TimerStep
<1>4. ASSUME Environment PROVE FutexInv'
  BY <1>4, SignalTaskStep, KillTaskStep, TickStep DEF Environment
<1>5. CASE UNCHANGED vars
  BY <1>5, StutterStep
<1> QED BY <1>1, <1>2, <1>3, <1>4, <1>5 DEF Next

\* FutexInv is an invariant of the futex table.
THEOREM Inductive == Spec => []FutexInv
<1>1. Init => FutexInv
  BY InitInv
<1>2. FutexInv /\ [Next]_vars => FutexInv'
  BY NextInv
<1> QED BY <1>1, <1>2, PTL DEF Spec

\* The words, the queues, the TCB flags and the claims stay in their types,
\* whatever the programs, the signals and the scheduler loops do.
THEOREM TypeCorrect == Spec => []TypeOK
<1>1. FutexInv => TypeOK
  <2> SUFFICES ASSUME FutexInv PROVE TypeOK
    OBVIOUS
  <2>1. \A k \in Keys : \A i \in DOMAIN table[k] : table[k][i] \in Entries
    BY DEF FutexInv, ShapeInv, EntriesInv, Tables
  <2>2. \A w \in Wakers : \A i \in DOMAIN toWake[w] : toWake[w][i] \in Entries
    BY DEF FutexInv, ShapeInv, EntriesInv
  <2> QED BY <2>1, <2>2 DEF FutexInv, ShapeInv, DataInv, PlaceInv, TypeOK
<1> QED BY <1>1, Inductive, PTL

\* The re-check of the word under FUTEX_TABLE makes compare-and-block atomic
\* for every number of threads and words: a queued waiter's word is as it
\* expects, or the thread that changed it still owes a wake.
THEOREM NoWakeSlips == Spec => []NoSlippedWake
<1>1. FutexInv => NoSlippedWake
  BY DEF FutexInv, QueueInv, QueuedOk, Expects, NoSlippedWake
<1> QED BY <1>1, Inductive, PTL

\* No two wakers or timers ever hold the same wait, and a claimed wait has no
\* entry left in any queue, futex_waitv lists and requeues included.
THEOREM OneCompletion == Spec => []ClaimedOnce
<1>1. FutexInv => ClaimedOnce
  BY DEF FutexInv
<1> QED BY <1>1, Inductive, PTL

\* Every queued entry is of the call its task is in, unless a completion
\* crossed an interrupted return of that task.
THEOREM EntriesBelong == Spec => []EntryBelongsToWaiter
<1>1. FutexInv => EntryBelongsToWaiter
  BY DEF FutexInv, QueueInv, QueuedOk, Belongs, EntryBelongsToWaiter
<1> QED BY <1>1, Inductive, PTL

\* The fast path of check_futex_timeouts skips no queued deadline.
THEOREM NoDeadlineMissed == Spec => []DeadlineCovered
<1>1. FutexInv => DeadlineCovered
  BY DEF FutexInv, QueueInv, QueuedOk, Covered, Publishing, DeadlineCovered
<1> QED BY <1>1, Inductive, PTL

=============================================================================
