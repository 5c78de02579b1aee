----------------------------- MODULE PipeProofs -----------------------------
(***************************************************************************)
(* Proofs about module Pipe, for every number of tasks and pipes, every    *)
(* page size and capacity, and every program of calls.                     *)
(*                                                                         *)
(* A ring is reasoned about through what a section does to its content.    *)
(* The loops of read_slice and write_slice are followed turn by turn, by   *)
(* induction on the bytes left to copy: the offsets they visit are those   *)
(* of the content, in order, across the ends of pages and of the ring.     *)
(* From that, a section takes the first n bytes (Took), appends (Gave),    *)
(* copies to a ring of another capacity (Resized) or drops (Dropped), and  *)
(* the pages it frees held nothing readable.                               *)
(*                                                                         *)
(* The inductive invariant is Inv.  Besides the shape of the rings it      *)
(* says, for each label a task may be at, what its call and its locals are *)
(* (Placed), and what holds of the ring a task waits at from the moment it *)
(* is queued and not only once it sleeps (Watched): it still has to wait   *)
(* and is in the queue, or its token is set, or a wakeup is coming.  Every *)
(* action is an OwnStep of its task: it changes its own locals, and each   *)
(* ring so that whoever was queued stays queued with its reason to wait,   *)
(* or is in the list the task wakes next (Effect).                         *)
(*                                                                         *)
(* The refinement of PipeFifo needs that splice to a file is alone with    *)
(* its pipe: what it peeked is still first when it discards as many bytes  *)
(* (DrainInv).  Then every step is a Deed, and each Deed is a step of the  *)
(* FIFO or one it does not see.                                            *)
(***************************************************************************)
EXTENDS Pipe, SequenceTheorems, WellFoundedInduction, TLAPS

-----------------------------------------------------------------------------
(* Arithmetic *)

\* Quotient and remainder, kept closed in the steps that use them.
Quo(a, c) == a \div c
Rem(a, c) == a % c

\* Remainders of numbers below twice the modulus.
LEMMA RemFacts ==
  ASSUME NEW c \in Nat \ {0}, NEW a \in Nat
  PROVE  /\ Rem(a, c) \in Nat /\ Rem(a, c) < c
         /\ a < c => Rem(a, c) = a
         /\ a >= c /\ a < 2 * c => Rem(a, c) = a - c
BY DEF Rem

\* There is room up to the end of a block.
LEMMA RemRoom ==
  ASSUME NEW c \in Nat \ {0}, NEW a \in Nat
  PROVE  c - Rem(a, c) \in Nat \ {0}
BY DEF Rem

\* A number is in the block its quotient says, at the place its remainder says.
LEMMA QuoFacts ==
  ASSUME NEW c \in Nat \ {0}, NEW a \in Nat
  PROVE  /\ Quo(a, c) \in Nat /\ Quo(a, c) <= a
         /\ Quo(a, c) * c \in Nat /\ Quo(a, c) * c <= a /\ a < Quo(a, c) * c + c
         /\ Quo(a, c) * c + Rem(a, c) = a
<1>1. Quo(a, c) \in Nat /\ Quo(a, c) <= a
  BY DEF Quo
<1>2. Quo(a, c) * c \in Nat
  BY <1>1
<1>3. Quo(a, c) * c <= a /\ a < Quo(a, c) * c + c
  BY DEF Quo
<1>4. Quo(a, c) * c + Rem(a, c) = a
  BY DEF Quo, Rem
<1> QED
  BY <1>1, <1>2, <1>3, <1>4

\* The least of two and of three numbers, and the greatest of two.
Least2(a, b)    == Min({a, b})
Least3(a, b, c) == Min({a, b, c})
Most2(a, b)     == Max({a, b})

\* They are what they are called.
LEMMA LeastOfThree ==
  ASSUME NEW a \in Int, NEW b \in Int, NEW c \in Int
  PROVE  /\ Least3(a, b, c) \in {a, b, c}
         /\ Least3(a, b, c) <= a /\ Least3(a, b, c) <= b /\ Least3(a, b, c) <= c
<1>1. \E x \in {a, b, c} : \A y \in {a, b, c} : x <= y
  <2>1. CASE a <= b /\ a <= c
    BY <2>1
  <2>2. CASE b <= a /\ b <= c
    BY <2>2
  <2>3. CASE c <= a /\ c <= b
    BY <2>3
  <2> QED
    BY <2>1, <2>2, <2>3
<1> QED
  BY <1>1 DEF Least3, Min

\* The same for two.
LEMMA LeastOfTwo ==
  ASSUME NEW a \in Int, NEW b \in Int
  PROVE  /\ Least2(a, b) = IF a <= b THEN a ELSE b
         /\ Most2(a, b) = IF a >= b THEN a ELSE b
<1>1. \E x \in {a, b} : \A y \in {a, b} : x <= y
  BY a <= b \/ b <= a
<1>2. \E x \in {a, b} : \A y \in {a, b} : x >= y
  BY a <= b \/ b <= a
<1> QED
  BY <1>1, <1>2 DEF Least2, Most2, Min, Max

\* The pairs of naturals in order.
Less == {p \in Nat \X Nat : p[1] < p[2]}

\* A set of naturals that is not empty has a least element.
LEMMA LeastNumber ==
  ASSUME NEW S \in SUBSET Nat, S # {}
  PROVE  \E n \in S : \A m \in S : n <= m
<1>1. OpToRel(<, Nat) = Less
  BY Zenon DEF OpToRel, Less
<1>2. IsWellFoundedOn(Less, Nat)
  BY <1>1, NatLessThanWellFounded, Zenon
<1>3. PICK n \in S : \A m \in S : ~(<<m, n>> \in Less)
  BY <1>2, WFMin
<1>4. ASSUME NEW m \in S
      PROVE  n <= m
  BY <1>3, <1>4, m < n => <<m, n>> \in Less DEF Less
<1> QED
  BY <1>4

-----------------------------------------------------------------------------
(* Sequences *)

IsConcat(S, c, a, b, l, n) ==
  /\ c \in Seq(S) /\ Len(c) = l + n
  /\ \A i \in 1..(l + n) : c[i] = IF i <= l THEN a[i] ELSE b[i - l]

\* A concatenation, by index.
LEMMA ConcatIs ==
  ASSUME NEW S, NEW a, a \in Seq(S), NEW b, b \in Seq(S), NEW l \in Nat, Len(a) = l,
         NEW n \in Nat, Len(b) = n
  PROVE  IsConcat(S, a \o b, a, b, l, n)
<1> DEFINE c == a \o b
<1>1. /\ c \in Seq(S) /\ Len(c) = l + n
      /\ \A i \in 1..(l + n) : c[i] = IF i <= l THEN a[i] ELSE b[i - l]
  BY ConcatProperties
<1> HIDE DEF c
<1>2. IsConcat(S, c, a, b, l, n)
  BY <1>1, Zenon DEF IsConcat
<1> QED
  BY <1>2, Zenon DEF c

\* A sequence without its first n elements.
LEMMA Suffix ==
  ASSUME NEW S, NEW c \in Seq(S), NEW l \in Nat, Len(c) = l, NEW n \in Nat, n <= l
  PROVE  /\ SubSeq(c, n + 1, l) \in Seq(S) /\ Len(SubSeq(c, n + 1, l)) = l - n
         /\ \A i \in 1..(l - n) : SubSeq(c, n + 1, l)[i] = c[n + i]
<1>1. \A i \in (n + 1)..l : c[i] \in S
  OBVIOUS
<1>2. /\ SubSeq(c, n + 1, l) \in Seq(S)
      /\ Len(SubSeq(c, n + 1, l)) = IF n + 1 <= l THEN l - (n + 1) + 1 ELSE 0
      /\ \A i \in 1..(l - (n + 1) + 1) : SubSeq(c, n + 1, l)[i] = c[(n + 1) + i - 1]
  BY <1>1, SubSeqProperties
<1>3. ASSUME NEW i \in 1..(l - n)
      PROVE  SubSeq(c, n + 1, l)[i] = c[n + i]
  <2>1. (n + 1) + i - 1 = n + i /\ i \in 1..(l - (n + 1) + 1)
    OBVIOUS
  <2> QED
    BY <1>2, <2>1, Zenon
<1>4. (IF n + 1 <= l THEN l - (n + 1) + 1 ELSE 0) = l - n
  BY ONLY n <= l
<1> QED
  BY <1>2, <1>3, <1>4, Zenon

\* Its first n elements.
LEMMA Prefix ==
  ASSUME NEW S, NEW c \in Seq(S), NEW l \in Nat, Len(c) = l, NEW n \in Nat, n <= l
  PROVE  /\ SubSeq(c, 1, n) \in Seq(S) /\ Len(SubSeq(c, 1, n)) = n
         /\ \A i \in 1..n : SubSeq(c, 1, n)[i] = c[i]
<1>1. \A i \in 1..n : c[i] \in S
  OBVIOUS
<1>2. /\ SubSeq(c, 1, n) \in Seq(S)
      /\ Len(SubSeq(c, 1, n)) = IF 1 <= n THEN n - 1 + 1 ELSE 0
      /\ \A i \in 1..(n - 1 + 1) : SubSeq(c, 1, n)[i] = c[1 + i - 1]
  BY <1>1, SubSeqProperties
<1>3. ASSUME NEW i \in 1..n
      PROVE  SubSeq(c, 1, n)[i] = c[i]
  <2>1. 1 + i - 1 = i /\ i \in 1..(n - 1 + 1)
    OBVIOUS
  <2> QED
    BY <1>2, <2>1, Zenon
<1>4. Len(SubSeq(c, 1, n)) = n
  <2>1. CASE n = 0
    <3>1. ~(1 <= n)
      BY <2>1
    <3> QED
      BY <1>2, <2>1, <3>1, Zenon
  <2>2. CASE 1 <= n
    <3>1. n - 1 + 1 = n
      OBVIOUS
    <3> QED
      BY <1>2, <2>2, <3>1, Zenon
  <2> QED
    BY <2>1, <2>2
<1> QED
  BY <1>2, <1>3, <1>4, Zenon

\* e is made of c and d.
Parts(S, e, c, d, l, n) ==
  /\ c \in Seq(S) /\ Len(c) = l /\ d \in Seq(S) /\ Len(d) = n
  /\ e \in Seq(S) /\ Len(e) = l + n
  /\ \A i \in 1..l : e[i] = c[i]
  /\ \A k \in 1..n : e[l + k] = d[k]

\* It is their concatenation.
LEMMA Joined ==
  ASSUME NEW S, NEW e, NEW c, NEW d, NEW l \in Nat, NEW n \in Nat, Parts(S, e, c, d, l, n)
  PROVE  e = c \o d
<1>0. /\ c \in Seq(S) /\ Len(c) = l /\ d \in Seq(S) /\ Len(d) = n
      /\ e \in Seq(S) /\ Len(e) = l + n
      /\ \A i \in 1..l : e[i] = c[i]
      /\ \A k \in 1..n : e[l + k] = d[k]
  BY Zenon DEF Parts
<1>1. /\ c \o d \in Seq(S) /\ Len(c \o d) = l + n
      /\ \A i \in 1..(l + n) : (c \o d)[i] = IF i <= l THEN c[i] ELSE d[i - l]
  BY <1>0, ConcatProperties
<1>2. ASSUME NEW i \in 1..(l + n)
      PROVE  e[i] = (c \o d)[i]
  <2>1. CASE i <= l
    <3>1. i \in 1..l
      BY ONLY <2>1
    <3> QED
      BY <3>1, <2>1, <1>0, <1>1, Zenon
  <2>2. CASE ~(i <= l)
    <3>1. PICK k \in 1..n : k = i - l /\ l + k = i
      BY ONLY <2>2
    <3> QED
      BY <3>1, <2>2, <1>0, <1>1, Zenon
  <2> QED
    BY <2>1, <2>2, Zenon
<1> QED
  BY <1>0, <1>1, <1>2, SeqEqual

-----------------------------------------------------------------------------
(* The loops of read_slice and write_slice *)

\* Both loops walk from a position to the limit at which their status stops
\* them: the tail and Empty for a read, the head and Full for a write.
Places(cap, target) ==
  [pos : 0..(cap - 1), status : Statuses, offs : {o \in Seq(Nat) : Len(o) <= target}]

Run(cap, limit, stop, pos, status) ==
  IF status = stop THEN 0 ELSE IF limit > pos THEN limit - pos ELSE cap - pos

StatusAt(pos, limit, stop) == IF pos = limit THEN stop ELSE "Normal"

TurnLen(cap, limit, stop, target, pos, status, offs) ==
  Min({Run(cap, limit, stop, pos, status), PAGE_SIZE - (pos % PAGE_SIZE), target - Len(offs)})

After(cap, limit, stop, pos, offs, len) ==
  [pos |-> (pos + len) % cap, status |-> StatusAt((pos + len) % cap, limit, stop),
   offs |-> offs \o [k \in 1..len |-> pos + k - 1]]

\* One turn, with f for the rest of the loop.
Turn(cap, limit, stop, target, f, x) ==
  LET len == TurnLen(cap, limit, stop, target, x.pos, x.status, x.offs)
  IN IF len = 0 THEN x ELSE f[After(cap, limit, stop, x.pos, x.offs, len)]

\* What the loop leaves: it has gone over all there is, around the end of the
\* ring if need be, or as far as was asked.
Whole(cap, limit, stop, pos, status) ==
  IF status = stop THEN 0 ELSE IF limit > pos THEN limit - pos ELSE limit + cap - pos

Less2(a, b) == IF a <= b THEN a ELSE b

OffAt(cap, pos, offs, k) ==
  IF k <= Len(offs) THEN offs[k] ELSE Rem(pos + (k - Len(offs)) - 1, cap)

Walked(cap, limit, stop, pos, status, offs, n) ==
  [pos |-> Rem(pos + n, cap),
   status |-> IF n = 0 THEN status ELSE StatusAt(Rem(pos + n, cap), limit, stop),
   offs |-> [k \in 1..(Len(offs) + n) |-> OffAt(cap, pos, offs, k)]]

Final(cap, limit, stop, target, pos, status, offs) ==
  Walked(cap, limit, stop, pos, status, offs,
         Less2(Whole(cap, limit, stop, pos, status), target - Len(offs)))

\* What is left after a turn is what was there less what it copied, and going on
\* from there comes to the same positions.
LEMMA TurnNumbers ==
  ASSUME NEW cap \in Nat \ {0}, NEW limit \in 0..(cap - 1), NEW stop \in {"Full", "Empty"},
         NEW pos \in 0..(cap - 1), NEW status, NEW len \in Nat \ {0}, NEW new, NEW left,
         status # stop, pos + len <= cap, limit > pos => pos + len <= limit,
         new = Rem(pos + len, cap),
         left = Whole(cap, limit, stop, new, StatusAt(new, limit, stop))
  PROVE  /\ new \in 0..(cap - 1)
         /\ left = Whole(cap, limit, stop, pos, status) - len
         /\ pos + len = cap => left < cap
         /\ \A m \in Nat : (pos + len = cap => m < cap) =>
              Rem(new + m, cap) = Rem(pos + (len + m), cap)
<1>0. new \in 0..(cap - 1)
  BY RemFacts
<1>1. /\ pos + len < cap => new = pos + len
      /\ pos + len = cap => new = 0
  BY RemFacts
<1>2. StatusAt(new, limit, stop) = stop <=> new = limit
  BY DEF StatusAt
<1>3. /\ left = Whole(cap, limit, stop, pos, status) - len
      /\ pos + len = cap => left < cap
  <2>3. CASE limit > pos
    BY <1>1, <1>2, <2>3 DEF Whole
  <2>4. CASE limit <= pos /\ pos + len < cap
    BY <1>1, <1>2, <2>4 DEF Whole
  <2>5. CASE limit <= pos /\ pos + len = cap
    BY <1>1, <1>2, <2>5 DEF Whole
  <2> QED
    BY <2>3, <2>4, <2>5
<1>4. ASSUME NEW m \in Nat, pos + len = cap => m < cap
      PROVE  Rem(new + m, cap) = Rem(pos + (len + m), cap)
  <2>1. CASE pos + len < cap
    <3>1. new = pos + len
      BY <2>1, <1>1
    <3>2. pos + len + m = pos + (len + m)
      OBVIOUS
    <3> QED
      BY <3>1, <3>2
  <2>2. CASE pos + len = cap
    <3>1. new = 0
      BY <2>2, <1>1
    <3>2. Rem(pos + (len + m), cap) = m
      <4>1. pos + (len + m) = cap + m /\ cap + m \in Nat /\ cap + m >= cap /\ cap + m < 2 * cap
        BY <2>2, <1>4
      <4>2. Rem(cap + m, cap) = (cap + m) - cap
        BY ONLY <4>1, RemFacts
      <4> QED
        BY <4>1, <4>2
    <3>3. Rem(m, cap) = m /\ 0 + m = m
      BY <2>2, <1>4, RemFacts
    <3> QED
      BY <3>1, <3>2, <3>3
  <2> QED
    BY <2>1, <2>2
<1> QED
  BY <1>0, <1>3, <1>4

\* A turn that copies nothing ends the loop where it stands; from where any
\* other leaves it, the loop ends where it would have ended.
LEMMA TurnStep ==
  ASSUME NEW cap \in Nat \ {0}, NEW limit \in 0..(cap - 1), NEW stop \in {"Full", "Empty"},
         NEW target \in Nat, NEW pos \in 0..(cap - 1), NEW status, status \in Statuses,
         NEW offs, offs \in Seq(Nat), NEW L \in Nat, Len(offs) = L, L <= target,
         NEW len, len = TurnLen(cap, limit, stop, target, pos, status, offs),
         NEW y, y = After(cap, limit, stop, pos, offs, len)
  PROVE  /\ len = 0 => Final(cap, limit, stop, target, pos, status, offs)
                          = [pos |-> pos, status |-> status, offs |-> offs]
         /\ len # 0 =>
              /\ y \in Places(cap, target)
              /\ Len(y.offs) = L + len /\ len \in Nat \ {0}
              /\ Final(cap, limit, stop, target, y.pos, y.status, y.offs)
                   = Final(cap, limit, stop, target, pos, status, offs)
<1> DEFINE w == Whole(cap, limit, stop, pos, status)
           a == Run(cap, limit, stop, pos, status)
           b == PAGE_SIZE - Rem(pos, PAGE_SIZE)
           c == target - L
<1>1. a \in Nat /\ pos + a <= cap /\ (a = 0 <=> status = stop)
      /\ (status # stop /\ limit > pos => pos + a <= limit)
      /\ a <= w /\ w \in 0..cap /\ (w = 0 <=> status = stop)
  BY ONLY TRUE DEF Run, Whole
<1>2. b \in Nat \ {0}
  <2>1. PAGE_SIZE \in Nat \ {0} /\ pos \in Nat
    BY PipeAssumption
  <2> QED
    BY ONLY <2>1, RemRoom
<1>3. c \in Nat
  BY ONLY L <= target
<1>4. len \in {a, b, c} /\ len <= a /\ len <= b /\ len <= c
  <2>1. len = Least3(a, b, c)
    BY Zenon DEF TurnLen, Least3, Rem
  <2> HIDE DEF a, b, c
  <2> QED
    BY ONLY <1>1, <1>2, <1>3, <2>1, LeastOfThree
<1> HIDE DEF a, b, w
<1>5. /\ len \in Nat /\ len <= w /\ w \in 0..cap /\ L + len <= target /\ pos + len <= cap
      /\ len = 0 <=> w = 0 \/ L = target
      /\ len # 0 => status # stop /\ (limit > pos => pos + len <= limit)
  BY ONLY <1>1, <1>2, <1>3, <1>4
<1>6. Final(cap, limit, stop, target, pos, status, offs)
        = Walked(cap, limit, stop, pos, status, offs, Less2(w, target - L))
  BY Zenon DEF Final, w
<1>7. ASSUME len = 0
      PROVE  Final(cap, limit, stop, target, pos, status, offs)
               = [pos |-> pos, status |-> status, offs |-> offs]
  <2>1. Less2(w, target - L) = 0
    BY ONLY <1>3, <1>5, <1>7 DEF Less2
  <2>2. Rem(pos + 0, cap) = pos
    <3>1. pos + 0 = pos /\ pos \in Nat /\ pos < cap
      BY ONLY TRUE
    <3> QED
      BY ONLY <3>1, RemFacts
  <2>3. [k \in 1..(L + 0) |-> OffAt(cap, pos, offs, k)] = offs
    <3>1. \A k \in 1..L : OffAt(cap, pos, offs, k) = offs[k]
      BY DEF OffAt
    <3> QED
      BY <3>1
  <2> QED
    BY <2>1, <2>2, <2>3, <1>6, Zenon DEF Walked
<1>8. ASSUME len # 0
      PROVE  /\ y \in Places(cap, target)
             /\ Len(y.offs) = L + len /\ len \in Nat \ {0}
             /\ Final(cap, limit, stop, target, y.pos, y.status, y.offs)
                  = Final(cap, limit, stop, target, pos, status, offs)
  <2> DEFINE new == Rem(pos + len, cap)
             added == [k \in 1..len |-> pos + k - 1]
             all == offs \o added
             left == Whole(cap, limit, stop, new, StatusAt(new, limit, stop))
  <2>1. /\ new \in 0..(cap - 1)
        /\ left = w - len
        /\ pos + len = cap => left < cap
        /\ \A m \in Nat : (pos + len = cap => m < cap) =>
             Rem(new + m, cap) = Rem(pos + (len + m), cap)
    <3>1. len \in Nat \ {0}
      BY ONLY <1>5, <1>8
    <3> HIDE DEF new, left
    <3>2. new = Rem(pos + len, cap) /\ left = Whole(cap, limit, stop, new, StatusAt(new, limit, stop))
      BY DEF new, left
    <3> QED
      BY ONLY <3>1, <3>2, <1>5, <1>8, TurnNumbers DEF w
  <2>2. PICK p \in 0..(cap - 1) : p = new
    BY ONLY <2>1
  <2> HIDE DEF new, left
  <2>3. y = [pos |-> p, status |-> StatusAt(p, limit, stop), offs |-> all]
    BY <2>2, Zenon DEF After, Rem, new
  <2>4. PICK l \in Nat \ {0} : l = len
    BY ONLY <1>5, <1>8
  <2>5. added \in Seq(Nat) /\ Len(added) = l /\ \A k \in 1..l : added[k] = pos + k - 1
    BY ONLY <2>4
  <2> HIDE DEF added
  <2>6. /\ all \in Seq(Nat) /\ Len(all) = L + l
        /\ \A k \in 1..(L + l) : all[k] = IF k <= L THEN offs[k] ELSE added[k - L]
    <3>1. l \in Nat
      BY ONLY TRUE
    <3>2. IsConcat(Nat, offs \o added, offs, added, L, l)
      BY <2>5, <3>1, ConcatIs, Zenon
    <3> QED
      BY <3>2, Zenon DEF IsConcat
  <2> HIDE DEF all
  <2>7. StatusAt(p, limit, stop) \in Statuses
    BY ONLY TRUE DEF StatusAt, Statuses
  <2>8. y \in Places(cap, target)
    <3>1. L + l <= target
      BY ONLY <1>5, <2>4
    <3> QED
      BY <2>3, <2>6, <2>7, <3>1 DEF Places
  <2>9. PICK n \in Nat, m \in Nat : /\ n = Less2(w, target - L) /\ m = Less2(left, target - (L + l))
                                    /\ n = l + m /\ (pos + l = cap => m < cap)
    <3>1. PICK u \in 0..cap : u = w
      BY ONLY <1>5
    <3>2. PICK v \in Int : v = left
      BY ONLY <1>5, <2>1, <3>1
    <3>3. /\ v = u - l /\ u >= l /\ L + l <= target /\ (pos + l = cap => v < cap)
      BY ONLY <1>5, <2>1, <2>4, <3>1, <3>2
    <3> DEFINE n == Less2(u, target - L)
               m == Less2(v, target - (L + l))
    <3>4. n \in Nat /\ m \in Nat /\ n = l + m /\ (pos + l = cap => m < cap)
      BY ONLY <3>3 DEF Less2
    <3>5. n = Less2(w, target - L) /\ m = Less2(left, target - (L + l))
      BY <3>1, <3>2, Zenon
    <3> HIDE DEF n, m
    <3> QED
      BY <3>4, <3>5, Zenon
  <2>10. \A j \in 0..m : (pos + l = cap => j < cap) =>
           Rem(p + j, cap) = Rem(pos + (l + j), cap)
    BY ONLY <2>1, <2>2, <2>4
  <2>11. Rem(p + m, cap) = Rem(pos + n, cap)
    BY ONLY <2>9, <2>10
  <2>12. (IF m = 0 THEN StatusAt(p, limit, stop) ELSE StatusAt(Rem(p + m, cap), limit, stop))
           = IF n = 0 THEN status ELSE StatusAt(Rem(pos + n, cap), limit, stop)
    <3>1. n # 0 /\ (m = 0 => n = l)
      BY ONLY <2>9
    <3>2. p = Rem(pos + l, cap)
      BY <2>2, <2>4 DEF new
    <3> QED
      BY <3>1, <3>2, <2>11, Zenon
  <2>13. ASSUME NEW k \in 1..(L + n)
         PROVE  OffAt(cap, p, all, k) = OffAt(cap, pos, offs, k)
    <3>1. k <= L \/ (k > L /\ k <= L + l) \/ k > L + l
      BY ONLY TRUE
    <3>2. CASE k <= L
      <4>1. k <= L + l /\ k \in 1..(L + l)
        BY ONLY <3>2
      <4>2. all[k] = offs[k]
        BY <2>6, <3>2, <4>1, Zenon
      <4> QED
        BY <2>6, <3>2, <4>1, <4>2, Zenon DEF OffAt
    <3>3. CASE k > L /\ k <= L + l
      <4>1. PICK j \in Nat : j = pos + (k - L) - 1 /\ j < cap
        BY ONLY <3>3, <1>5, <2>4
      <4>2. Rem(j, cap) = j
        BY ONLY <4>1, RemFacts
      <4>3. k \in 1..(L + l) /\ k - L \in 1..l /\ pos + (k - L) - 1 = j /\ ~(k <= L)
        BY ONLY <3>3, <4>1
      <4>4. all[k] = j
        BY <2>5, <2>6, <4>3, Zenon
      <4> QED
        BY <2>6, <3>3, <4>2, <4>3, <4>4, Zenon DEF OffAt
    <3>4. CASE k > L + l
      <4>1. PICK j \in 0..m : /\ j = k - (L + l) - 1 /\ (pos + l = cap => j < cap)
                              /\ p + (k - (L + l)) - 1 = p + j
                              /\ pos + (k - L) - 1 = pos + (l + j)
                              /\ ~(k <= L) /\ ~(k <= L + l)
        BY ONLY <3>4, <2>9
      <4>2. Rem(p + j, cap) = Rem(pos + (l + j), cap)
        BY ONLY <4>1, <2>10
      <4> QED
        BY <2>6, <4>1, <4>2, Zenon DEF OffAt
    <3> QED
      BY <3>1, <3>2, <3>3, <3>4, Zenon
  <2>14. [k \in 1..(L + l + m) |-> OffAt(cap, p, all, k)]
           = [k \in 1..(L + n) |-> OffAt(cap, pos, offs, k)]
    <3>1. L + l + m = L + n
      BY ONLY <2>9
    <3> QED
      BY <3>1, <2>13, Zenon
  <2>15. Final(cap, limit, stop, target, p, StatusAt(p, limit, stop), all)
           = Walked(cap, limit, stop, p, StatusAt(p, limit, stop), all, m)
    BY <2>2, <2>6, <2>9, Zenon DEF Final, left
  <2>16. Walked(cap, limit, stop, p, StatusAt(p, limit, stop), all, m)
           = Walked(cap, limit, stop, pos, status, offs, n)
    BY <2>6, <2>11, <2>12, <2>14, Zenon DEF Walked
  <2>17. y.pos = p /\ y.status = StatusAt(p, limit, stop) /\ y.offs = all
    BY ONLY <2>3
  <2>18. Final(cap, limit, stop, target, y.pos, y.status, y.offs)
           = Final(cap, limit, stop, target, pos, status, offs)
    BY <2>9, <2>15, <2>16, <2>17, <1>6, Zenon
  <2>19. Len(y.offs) = L + len /\ len \in Nat \ {0}
    BY <2>4, <2>6, <2>17, Zenon
  <2> QED
    BY <2>8, <2>18, <2>19, Zenon
<1> QED
  BY <1>7, <1>8, Zenon

\* A function that does the turns gives what the loop leaves, from every place.
LEMMA LoopValue ==
  ASSUME NEW cap \in Nat \ {0}, NEW limit \in 0..(cap - 1), NEW stop \in {"Full", "Empty"},
         NEW target \in Nat, NEW f,
         f = [x \in Places(cap, target) |-> Turn(cap, limit, stop, target, f, x)],
         NEW x \in Places(cap, target)
  PROVE  f[x] = Final(cap, limit, stop, target, x.pos, x.status, x.offs)
<1> DEFINE F(z) == Final(cap, limit, stop, target, z.pos, z.status, z.offs)
           Wrong(z) == f[z] # F(z)
           Left == {i \in Nat : \E z \in Places(cap, target) : Wrong(z) /\ i = target - Len(z.offs)}
<1>1. SUFFICES ASSUME Wrong(x) PROVE FALSE
  BY Zenon
<1> HIDE DEF Wrong
<1>2. \A z \in Places(cap, target) : Len(z.offs) \in Nat /\ target - Len(z.offs) \in Nat
  BY DEF Places
<1>3. Left # {} /\ Left \in SUBSET Nat
  <2>1. target - Len(x.offs) \in Left
    BY <1>1, <1>2, Zenon
  <2> QED
    BY <2>1, Zenon
<1>4. PICK i \in Left : \A j \in Left : i <= j
  BY <1>3, LeastNumber, Zenon
<1>5. PICK z \in Places(cap, target) : Wrong(z) /\ i = target - Len(z.offs)
  BY <1>4, Zenon
<1>6. PICK pos \in 0..(cap - 1), status \in Statuses, offs \in {o \in Seq(Nat) : Len(o) <= target} :
        z = [pos |-> pos, status |-> status, offs |-> offs]
  BY DEF Places
<1>7. z.pos = pos /\ z.status = status /\ z.offs = offs
  BY <1>6
<1>8. PICK L \in Nat : Len(offs) = L /\ L <= target /\ offs \in Seq(Nat)
  OBVIOUS
<1> DEFINE len == TurnLen(cap, limit, stop, target, pos, status, offs)
           y == After(cap, limit, stop, pos, offs, len)
<1>9. /\ len = 0 => Final(cap, limit, stop, target, pos, status, offs)
                      = [pos |-> pos, status |-> status, offs |-> offs]
      /\ len # 0 => /\ y \in Places(cap, target)
                    /\ Len(y.offs) = L + len /\ len \in Nat \ {0}
                    /\ F(y) = Final(cap, limit, stop, target, pos, status, offs)
  <2> HIDE DEF len, y
  <2>1. len = TurnLen(cap, limit, stop, target, pos, status, offs)
        /\ y = After(cap, limit, stop, pos, offs, len)
    BY DEF len, y
  <2> QED
    BY <1>8, <2>1, TurnStep
<1>10. f[z] = IF len = 0 THEN z ELSE f[y]
  <2>1. f[z] = Turn(cap, limit, stop, target, f, z)
    BY Zenon
  <2> QED
    BY <2>1, <1>7, Zenon DEF Turn
<1> HIDE DEF len, y
<1>11. CASE len = 0
  BY <1>5, <1>6, <1>7, <1>9, <1>10, <1>11, Zenon DEF Wrong
<1>12. CASE len # 0
  <2>1. f[y] = F(y)
    <3>1. Wrong(y) => target - Len(y.offs) \in Left
      BY <1>2, <1>9, <1>12, Zenon
    <3>2. i = target - L
      BY <1>5, <1>7, <1>8, Zenon
    <3>3. target - Len(y.offs) \in Left => i <= target - Len(y.offs)
      BY <1>4, Zenon
    <3>4. Len(y.offs) = L + len /\ len \in Nat \ {0}
      BY <1>9, <1>12, Zenon
    <3>5. ~(i <= target - Len(y.offs))
      BY ONLY <3>2, <3>4, <1>8
    <3> QED
      BY <3>1, <3>3, <3>5, Zenon DEF Wrong
  <2> QED
    BY <2>1, <1>5, <1>7, <1>9, <1>10, <1>12, Zenon DEF Wrong
<1> QED
  BY <1>11, <1>12, Zenon

\* There is such a function.
LEMMA LoopExists ==
  ASSUME NEW cap \in Nat \ {0}, NEW limit \in 0..(cap - 1), NEW stop \in {"Full", "Empty"},
         NEW target \in Nat
  PROVE  \E f : f = [x \in Places(cap, target) |-> Turn(cap, limit, stop, target, f, x)]
<1> DEFINE F(z) == Final(cap, limit, stop, target, z.pos, z.status, z.offs)
           g == [x \in Places(cap, target) |-> F(x)]
<1>1. ASSUME NEW x \in Places(cap, target)
      PROVE  F(x) = Turn(cap, limit, stop, target, g, x)
  <2>1. PICK pos \in 0..(cap - 1), status \in Statuses, offs \in {o \in Seq(Nat) : Len(o) <= target} :
          x = [pos |-> pos, status |-> status, offs |-> offs]
    BY DEF Places
  <2>2. x.pos = pos /\ x.status = status /\ x.offs = offs
    BY <2>1
  <2>3. PICK L \in Nat : Len(offs) = L /\ L <= target /\ offs \in Seq(Nat)
    OBVIOUS
  <2> DEFINE len == TurnLen(cap, limit, stop, target, pos, status, offs)
             y == After(cap, limit, stop, pos, offs, len)
  <2>4. /\ len = 0 => Final(cap, limit, stop, target, pos, status, offs)
                        = [pos |-> pos, status |-> status, offs |-> offs]
        /\ len # 0 => /\ y \in Places(cap, target)
                      /\ F(y) = Final(cap, limit, stop, target, pos, status, offs)
    <3> HIDE DEF len, y
    <3>1. len = TurnLen(cap, limit, stop, target, pos, status, offs)
          /\ y = After(cap, limit, stop, pos, offs, len)
      BY DEF len, y
    <3>2. /\ len = 0 => Final(cap, limit, stop, target, pos, status, offs)
                          = [pos |-> pos, status |-> status, offs |-> offs]
          /\ len # 0 =>
               /\ y \in Places(cap, target)
               /\ Final(cap, limit, stop, target, y.pos, y.status, y.offs)
                    = Final(cap, limit, stop, target, pos, status, offs)
      BY ONLY <2>3, <3>1, TurnStep
    <3> QED
      BY <3>2, Zenon
  <2>5. Turn(cap, limit, stop, target, g, x) = IF len = 0 THEN x ELSE g[y]
    <3> HIDE DEF g
    <3> QED
      BY <2>2, Zenon DEF Turn
  <2> HIDE DEF len, y
  <2>6. CASE len = 0
    BY <2>1, <2>2, <2>4, <2>5, <2>6, Zenon
  <2>7. CASE len # 0
    <3>1. g[y] = F(y)
      BY <2>4, <2>7, Zenon
    <3> QED
      BY <3>1, <2>2, <2>4, <2>5, <2>7, Zenon
  <2> QED
    BY <2>6, <2>7, Zenon
<1>2. g = [x \in Places(cap, target) |-> Turn(cap, limit, stop, target, g, x)]
  <2> HIDE DEF F
  <2>1. [x \in Places(cap, target) |-> F(x)]
           = [x \in Places(cap, target) |-> Turn(cap, limit, stop, target, g, x)]
    <3> HIDE DEF g
    <3> QED
      BY <1>1, Zenon
  <2> QED
    BY <2>1, Zenon
<1> HIDE DEF g
<1> QED
  BY <1>2, Zenon

\* What read_slice leaves: as many bytes as were asked for, from the head on
\* around the end of the ring.
ReadEnd(r, n) ==
  [pos |-> Rem(r.head + n, r.capacity),
   status |-> IF n = 0 THEN r.status ELSE StatusAfterRead(Rem(r.head + n, r.capacity), r.tail),
   offs |-> [k \in 1..n |-> Rem(r.head + k - 1, r.capacity)]]

WriteEnd(r, n) ==
  [pos |-> Rem(r.tail + n, r.capacity),
   status |-> IF n = 0 THEN r.status ELSE StatusAfterWrite(Rem(r.tail + n, r.capacity), r.head),
   offs |-> [k \in 1..n |-> Rem(r.tail + k - 1, r.capacity)]]

\* The numbers of a ring.
Shaped(r) ==
  /\ r.capacity \in Nat \ {0}
  /\ r.head \in 0..(r.capacity - 1) /\ r.tail \in 0..(r.capacity - 1)
  /\ r.status \in Statuses
  /\ r.status # "Normal" <=> r.head = r.tail

\* What is left of the start of a loop.
LEMMA FromStart ==
  ASSUME NEW cap \in Nat \ {0}, NEW limit \in 0..(cap - 1), NEW stop \in {"Full", "Empty"},
         NEW target \in Nat, NEW pos \in 0..(cap - 1), NEW status, status \in Statuses,
         target <= Whole(cap, limit, stop, pos, status)
  PROVE  /\ [pos |-> pos, status |-> status, offs |-> <<>>] \in Places(cap, target)
         /\ Final(cap, limit, stop, target, pos, status, <<>>) =
              [pos |-> Rem(pos + target, cap),
               status |-> IF target = 0 THEN status
                          ELSE StatusAt(Rem(pos + target, cap), limit, stop),
               offs |-> [k \in 1..target |-> Rem(pos + k - 1, cap)]]
<1>1. [pos |-> pos, status |-> status, offs |-> <<>>] \in Places(cap, target)
  BY DEF Places
<1>2. Less2(Whole(cap, limit, stop, pos, status), target - Len(<<>>)) = target
  <2>1. PICK w \in 0..cap : w = Whole(cap, limit, stop, pos, status)
    <3>1. Whole(cap, limit, stop, pos, status) \in 0..cap
      BY DEF Whole
    <3> QED
      BY <3>1
  <2>2. target - Len(<<>>) = target
    OBVIOUS
  <2> QED
    BY <2>1, <2>2 DEF Less2
<1>3. Len(<<>>) + target = target
  OBVIOUS
<1>4. ASSUME NEW k \in 1..target
      PROVE  OffAt(cap, pos, <<>>, k) = Rem(pos + k - 1, cap)
  <2>1. ~(k <= Len(<<>>)) /\ pos + (k - Len(<<>>)) - 1 = pos + k - 1
    OBVIOUS
  <2> QED
    BY <2>1, Zenon DEF OffAt
<1>5. [k \in 1..target |-> OffAt(cap, pos, <<>>, k)] = [k \in 1..target |-> Rem(pos + k - 1, cap)]
  BY <1>4, Zenon
<1> QED
  BY <1>1, <1>2, <1>3, <1>5, Zenon DEF Final, Walked

\* The loop of read_slice and peek_slice.
LEMMA ReadLoopEnd ==
  ASSUME NEW r, Shaped(r), NEW n \in Nat, n <= AvailableRead(r)
  PROVE  ReadLoop(r, n) = ReadEnd(r, n)
<1> DEFINE P == Places(r.capacity, n)
           T(f, x) == Turn(r.capacity, r.tail, "Empty", n, f, x)
           f == CHOOSE g : g = [x \in P |-> T(g, x)]
<1>1. PICK cap \in Nat \ {0} : cap = r.capacity
  BY DEF Shaped
<1>2. PICK limit \in 0..(cap - 1), pos \in 0..(cap - 1) : limit = r.tail /\ pos = r.head
  BY <1>1 DEF Shaped
<1>3. ReadLoop(r, n) = f[[pos |-> r.head, status |-> r.status, offs |-> <<>>]]
  BY Zenon DEF ReadLoop, Loops, Places, Turn, TurnLen, After, Run, StatusAt, StatusAfterRead,
     ContiguousReadLen
<1>4. f = [x \in P |-> T(f, x)]
  <2>1. \E g : g = [x \in P |-> T(g, x)]
    <3>1. \E g : g = [x \in Places(cap, n) |-> Turn(cap, limit, "Empty", n, g, x)]
      BY LoopExists
    <3> QED
      BY <3>1, <1>1, <1>2, Zenon
  <2> QED
    BY <2>1, Zenon
<1> HIDE DEF f
<1>5. r.status \in Statuses /\ n <= Whole(cap, limit, "Empty", pos, r.status)
  <2>1. r.status \in Statuses
    BY DEF Shaped
  <2>2. AvailableRead(r) = Whole(cap, limit, "Empty", pos, r.status)
    BY <1>1, <1>2 DEF AvailableRead, Whole
  <2> QED
    BY <2>1, <2>2
<1>6. /\ [pos |-> pos, status |-> r.status, offs |-> <<>>] \in Places(cap, n)
      /\ Final(cap, limit, "Empty", n, pos, r.status, <<>>) =
           [pos |-> Rem(pos + n, cap),
            status |-> IF n = 0 THEN r.status ELSE StatusAt(Rem(pos + n, cap), limit, "Empty"),
            offs |-> [k \in 1..n |-> Rem(pos + k - 1, cap)]]
  BY <1>5, FromStart
<1>7. \A x \in Places(cap, n) : f[x] = Final(cap, limit, "Empty", n, x.pos, x.status, x.offs)
  <2>1. f = [x \in Places(cap, n) |-> Turn(cap, limit, "Empty", n, f, x)]
    BY <1>1, <1>2, <1>4, Zenon
  <2> QED
    BY <2>1, LoopValue
<1>8. f[[pos |-> pos, status |-> r.status, offs |-> <<>>]]
        = Final(cap, limit, "Empty", n, pos, r.status, <<>>)
  BY <1>6, <1>7
<1> QED
  BY <1>1, <1>2, <1>3, <1>6, <1>8, Zenon DEF ReadEnd, StatusAt, StatusAfterRead

\* The loop of write_slice.
LEMMA WriteLoopEnd ==
  ASSUME NEW r, Shaped(r), NEW n \in Nat, n <= AvailableWrite(r)
  PROVE  WriteLoop(r, n) = WriteEnd(r, n)
<1> DEFINE P == Places(r.capacity, n)
           T(f, x) == Turn(r.capacity, r.head, "Full", n, f, x)
           Len1(x) == Min({ContiguousWriteLen(r, x.pos, x.status),
                           PAGE_SIZE - (x.pos % PAGE_SIZE), n - Len(x.offs)})
           U(f, x) == IF Len1(x) = 0 THEN x
                      ELSE f[After(r.capacity, r.head, "Full", x.pos, x.offs, Len1(x))]
           f == CHOOSE g : g = [x \in P |-> U(g, x)]
<1>1. PICK cap \in Nat \ {0} : cap = r.capacity
  BY DEF Shaped
<1>2. PICK limit \in 0..(cap - 1), pos \in 0..(cap - 1) : limit = r.head /\ pos = r.tail
  BY <1>1 DEF Shaped
<1>3. WriteLoop(r, n) = f[[pos |-> r.tail, status |-> r.status, offs |-> <<>>]]
  BY Zenon DEF WriteLoop, Loops, Places, After, StatusAt, StatusAfterWrite
<1>9. ASSUME NEW x \in P, NEW g
      PROVE  U(g, x) = T(g, x)
  <2>1. ContiguousWriteLen(r, x.pos, x.status) = Run(r.capacity, r.head, "Full", x.pos, x.status)
    <3>1. PICK p \in 0..(cap - 1) : p = x.pos
      BY <1>1 DEF Places
    <3> QED
      BY <1>1, <1>2, <3>1 DEF ContiguousWriteLen, Run
  <2>2. Len1(x) = TurnLen(r.capacity, r.head, "Full", n, x.pos, x.status, x.offs)
    BY <2>1, Zenon DEF TurnLen
  <2> HIDE DEF Len1
  <2> QED
    BY <2>2, Zenon DEF Turn
<1>10. ASSUME NEW g
       PROVE  [x \in P |-> U(g, x)] = [x \in P |-> T(g, x)]
  <2> HIDE DEF U, T, P
  <2> QED
    BY <1>9, Zenon
<1>4. f = [x \in P |-> T(f, x)]
  <2>1. \E g : g = [x \in P |-> T(g, x)]
    <3>1. \E g : g = [x \in Places(cap, n) |-> Turn(cap, limit, "Full", n, g, x)]
      BY LoopExists
    <3> QED
      BY <3>1, <1>1, <1>2, Zenon
  <2> HIDE DEF U, T, P
  <2>2. PICK g : g = [x \in P |-> T(g, x)]
    BY <2>1, Zenon
  <2>3. g = [x \in P |-> U(g, x)]
    BY <2>2, <1>10, Zenon
  <2>4. f = [x \in P |-> U(f, x)]
    BY <2>3, Zenon
  <2> HIDE DEF f
  <2> QED
    BY <2>4, <1>10, Zenon
<1> HIDE DEF f
<1>5. r.status \in Statuses /\ n <= Whole(cap, limit, "Full", pos, r.status)
  <2>1. r.status \in Statuses
    BY DEF Shaped
  <2>2. AvailableWrite(r) = Whole(cap, limit, "Full", pos, r.status)
    BY <1>1, <1>2 DEF AvailableWrite, AvailableRead, Whole, Shaped, Statuses
  <2> QED
    BY <2>1, <2>2
<1>6. /\ [pos |-> pos, status |-> r.status, offs |-> <<>>] \in Places(cap, n)
      /\ Final(cap, limit, "Full", n, pos, r.status, <<>>) =
           [pos |-> Rem(pos + n, cap),
            status |-> IF n = 0 THEN r.status ELSE StatusAt(Rem(pos + n, cap), limit, "Full"),
            offs |-> [k \in 1..n |-> Rem(pos + k - 1, cap)]]
  BY <1>5, FromStart
<1>7. \A x \in Places(cap, n) : f[x] = Final(cap, limit, "Full", n, x.pos, x.status, x.offs)
  <2>1. f = [x \in Places(cap, n) |-> Turn(cap, limit, "Full", n, f, x)]
    BY <1>1, <1>2, <1>4, Zenon
  <2> QED
    BY <2>1, LoopValue
<1>8. f[[pos |-> pos, status |-> r.status, offs |-> <<>>]]
        = Final(cap, limit, "Full", n, pos, r.status, <<>>)
  BY <1>6, <1>7
<1> QED
  BY <1>1, <1>2, <1>3, <1>6, <1>8, Zenon DEF WriteEnd, StatusAt, StatusAfterWrite

-----------------------------------------------------------------------------
(* The numbers of a ring *)

Shape(cap, head, tail, status) ==
  /\ cap \in Nat \ {0} /\ head \in 0..(cap - 1) /\ tail \in 0..(cap - 1)
  /\ status \in Statuses
  /\ status # "Normal" <=> head = tail

Level(cap, head, tail, status) ==
  IF status = "Empty" THEN 0 ELSE IF tail > head THEN tail - head ELSE tail + cap - head

\* A position inside twice the capacity, wrapped.
LEMMA Wrap ==
  ASSUME NEW cap \in Nat \ {0}, NEW a \in Nat, a < 2 * cap
  PROVE  Rem(a, cap) = IF a < cap THEN a ELSE a - cap
BY RemFacts

\* How full a ring is, and where its bytes end.
LEMMA LevelFacts ==
  ASSUME NEW cap \in Nat \ {0}, NEW head \in 0..(cap - 1), NEW tail \in 0..(cap - 1),
         NEW status, Shape(cap, head, tail, status)
  PROVE  LET l == Level(cap, head, tail, status)
         IN /\ l \in 0..cap /\ l \in Nat
            /\ l = 0 <=> status = "Empty"
            /\ l = cap <=> status = "Full"
            /\ Rem(head + l, cap) = tail
<1>1. PICK l \in 0..cap : l = Level(cap, head, tail, status)
  <2>1. Level(cap, head, tail, status) \in 0..cap
    BY DEF Level, Shape
  <2> QED
    BY <2>1
<1>2. (l = 0 <=> status = "Empty") /\ (l = cap <=> status = "Full")
  BY <1>1 DEF Level, Shape, Statuses
<1>3. Rem(head + l, cap) = tail
  <2>1. Rem(head + l, cap) = IF head + l < cap THEN head + l ELSE (head + l) - cap
    BY Wrap
  <2> QED
    BY <1>1, <2>1 DEF Level, Shape
<1> QED
  BY <1>1, <1>2, <1>3

\* Taking n bytes.
LEMMA LevelAfterRead ==
  ASSUME NEW cap \in Nat \ {0}, NEW head \in 0..(cap - 1), NEW tail \in 0..(cap - 1),
         NEW status, Shape(cap, head, tail, status),
         NEW n \in Nat \ {0}, n <= Level(cap, head, tail, status),
         NEW new, new = Rem(head + n, cap)
  PROVE  /\ Shape(cap, new, tail, StatusAfterRead(new, tail))
         /\ Level(cap, new, tail, StatusAfterRead(new, tail)) = Level(cap, head, tail, status) - n
<1>1. PICK l \in 0..cap : l = Level(cap, head, tail, status)
  BY LevelFacts
<1>2. n <= l
  BY <1>1
<1>3. new = IF head + n < cap THEN head + n ELSE (head + n) - cap
  <2>1. head + n \in Nat /\ head + n < 2 * cap
    BY <1>2
  <2> QED
    BY <2>1, Wrap
<1>4. new \in 0..(cap - 1)
  BY <1>2, <1>3
<1> QED
  BY <1>1, <1>2, <1>3, <1>4 DEF Shape, Level, StatusAfterRead, Statuses

\* Adding n bytes.
LEMMA LevelAfterWrite ==
  ASSUME NEW cap \in Nat \ {0}, NEW head \in 0..(cap - 1), NEW tail \in 0..(cap - 1),
         NEW status, Shape(cap, head, tail, status),
         NEW n \in Nat \ {0}, n <= cap - Level(cap, head, tail, status),
         NEW new, new = Rem(tail + n, cap)
  PROVE  /\ Shape(cap, head, new, StatusAfterWrite(new, head))
         /\ Level(cap, head, new, StatusAfterWrite(new, head)) = Level(cap, head, tail, status) + n
<1>1. PICK l \in 0..cap : l = Level(cap, head, tail, status)
  BY LevelFacts
<1>2. n <= cap - l
  BY <1>1
<1>3. new = IF tail + n < cap THEN tail + n ELSE (tail + n) - cap
  <2>1. tail + n \in Nat /\ tail + n < 2 * cap
    BY <1>2
  <2> QED
    BY <2>1, Wrap
<1>4. new \in 0..(cap - 1)
  BY <1>2, <1>3
<1> QED
  BY <1>1, <1>2, <1>3, <1>4 DEF Shape, Level, StatusAfterWrite, Statuses

\* The offsets from a position on: inside the ring, all different, and the same
\* from a later position.
OffsetsOK(cap, pos) ==
  /\ \A k \in 1..cap : Rem(pos + k - 1, cap) \in 0..(cap - 1)
  /\ \A j, k \in 1..cap : Rem(pos + j - 1, cap) = Rem(pos + k - 1, cap) => j = k
  /\ \A n \in 0..cap : \A k \in 1..(cap - n) :
       Rem(Rem(pos + n, cap) + k - 1, cap) = Rem(pos + (n + k) - 1, cap)

\* That is so.
LEMMA Offsets ==
  ASSUME NEW cap \in Nat \ {0}, NEW pos \in 0..(cap - 1)
  PROVE  OffsetsOK(cap, pos)
<1>1. \A k \in 1..cap :
        Rem(pos + k - 1, cap) = IF pos + k - 1 < cap THEN pos + k - 1 ELSE (pos + k - 1) - cap
  <2> SUFFICES ASSUME NEW k \in 1..cap
               PROVE  Rem(pos + k - 1, cap)
                        = IF pos + k - 1 < cap THEN pos + k - 1 ELSE (pos + k - 1) - cap
    OBVIOUS
  <2>1. PICK a \in Nat : a = pos + k - 1 /\ a < 2 * cap
    OBVIOUS
  <2>2. Rem(a, cap) = IF a < cap THEN a ELSE a - cap
    BY <2>1, Wrap
  <2> QED
    BY <2>1, <2>2
<1>2. ASSUME NEW k \in 1..cap
      PROVE  Rem(pos + k - 1, cap) \in 0..(cap - 1)
  <2>1. PICK a \in Nat : a = pos + k - 1
    OBVIOUS
  <2>2. Rem(a, cap) \in 0..(cap - 1)
    BY ONLY RemFacts
  <2> QED
    BY <2>1, <2>2
<1>3. \A j, k \in 1..cap : Rem(pos + j - 1, cap) = Rem(pos + k - 1, cap) => j = k
  BY <1>1
<1>4. ASSUME NEW n \in 0..cap, NEW k \in 1..(cap - n)
      PROVE  Rem(Rem(pos + n, cap) + k - 1, cap) = Rem(pos + (n + k) - 1, cap)
  <2>1. PICK p \in 0..(cap - 1) : p = Rem(pos + n, cap)
                                  /\ p = IF pos + n < cap THEN pos + n ELSE (pos + n) - cap
    <3>1. pos + n \in Nat /\ pos + n < 2 * cap
      OBVIOUS
    <3>2. Rem(pos + n, cap) = IF pos + n < cap THEN pos + n ELSE (pos + n) - cap
      BY <3>1, Wrap
    <3>3. Rem(pos + n, cap) \in 0..(cap - 1)
      BY <3>1, <3>2
    <3> QED
      BY <3>2, <3>3
  <2>2. PICK a \in Nat : a = p + k - 1 /\ a < 2 * cap
    BY <2>1
  <2>3. PICK b \in Nat : b = pos + (n + k) - 1 /\ b < 2 * cap
    OBVIOUS
  <2>4. /\ Rem(a, cap) = IF a < cap THEN a ELSE a - cap
        /\ Rem(b, cap) = IF b < cap THEN b ELSE b - cap
    BY <2>2, <2>3, Wrap
  <2>5. Rem(a, cap) = Rem(b, cap)
    BY <2>1, <2>2, <2>3, <2>4
  <2> QED
    BY <2>1, <2>2, <2>3, <2>5
<1> QED
  BY <1>2, <1>3, <1>4, Zenon DEF OffsetsOK

\* Where a readable byte lies.
LEMMA ReadableOffset ==
  ASSUME NEW cap \in Nat \ {0}, NEW head \in 0..(cap - 1), NEW tail \in 0..(cap - 1),
         NEW status, Shape(cap, head, tail, status),
         NEW k \in Nat \ {0}, k <= Level(cap, head, tail, status),
         NEW off, off = Rem(head + k - 1, cap)
  PROVE  /\ off \in 0..(cap - 1)
         /\ status = "Full" \/ status = "Normal"
         /\ status = "Normal" => IF head < tail THEN head <= off /\ off < tail
                                                ELSE head <= off \/ off < tail
<1>1. PICK l \in 0..cap : l = Level(cap, head, tail, status)
  BY LevelFacts
<1>2. PICK a \in Nat : a = head + k - 1 /\ a < 2 * cap
  BY <1>1
<1>3. off = IF a < cap THEN a ELSE a - cap
  BY <1>2, Wrap
<1>4. off \in 0..(cap - 1)
  BY <1>2, <1>3
<1> QED
  BY <1>1, <1>2, <1>3, <1>4 DEF Shape, Level, Statuses

-----------------------------------------------------------------------------
(* Rings as records *)

\* A ring is a record with these fields.
Fields(r) ==
  r = [pages |-> r.pages, capacity |-> r.capacity, head |-> r.head, tail |-> r.tail,
       status |-> r.status, read_end_open |-> r.read_end_open, write_end_open |-> r.write_end_open,
       read_waiters |-> r.read_waiters, write_waiters |-> r.write_waiters,
       poll_waiters |-> r.poll_waiters]

\* Two rings agree on the bytes, on the ends that are open, on the queues.
SameNumbers(q, r) == q.capacity = r.capacity /\ q.head = r.head /\ q.tail = r.tail /\ q.status = r.status
SameBytes(q, r) == q.pages = r.pages /\ SameNumbers(q, r)
SameEnds(q, r)  == q.read_end_open = r.read_end_open /\ q.write_end_open = r.write_end_open
SameQueues(q, r) == /\ q.read_waiters = r.read_waiters /\ q.write_waiters = r.write_waiters
                    /\ q.poll_waiters = r.poll_waiters

\* The updates of fields.
WithHead(r, h, s) == [r EXCEPT !.head = h, !.status = s]
WithPages(r, g) == [r EXCEPT !.pages = g]
WithTail(r, g, t, s) == [r EXCEPT !.pages = g, !.tail = t, !.status = s]
WithAll(r, g, n, t, s) ==
  [r EXCEPT !.pages = g, !.capacity = n, !.head = 0, !.tail = t, !.status = s]
WithClosed(r, h, s) == [r EXCEPT !.read_end_open = FALSE, !.head = h, !.status = s]
WithWriteClosed(r) == [r EXCEPT !.write_end_open = FALSE]
WithReadQueue(r, w) == [r EXCEPT !.read_waiters = w]
WithWriteQueue(r, w) == [r EXCEPT !.write_waiters = w]
WithPollQueue(r, w) == [r EXCEPT !.poll_waiters = w]

\* What they set, and what they leave.
HeadSet(q, r, h, s) ==
  /\ Fields(q) /\ SameEnds(q, r) /\ SameQueues(q, r)
  /\ q.pages = r.pages /\ q.capacity = r.capacity /\ q.tail = r.tail
  /\ q.head = h /\ q.status = s

PagesSet(q, r, g) ==
  /\ Fields(q) /\ SameEnds(q, r) /\ SameQueues(q, r) /\ SameNumbers(q, r)
  /\ q.pages = g

TailSet(q, r, g, t, s) ==
  /\ Fields(q) /\ SameEnds(q, r) /\ SameQueues(q, r)
  /\ q.pages = g /\ q.capacity = r.capacity /\ q.head = r.head
  /\ q.tail = t /\ q.status = s

AllSet(q, r, g, n, t, s) ==
  /\ Fields(q) /\ SameEnds(q, r) /\ SameQueues(q, r)
  /\ q.pages = g /\ q.capacity = n /\ q.head = 0 /\ q.tail = t /\ q.status = s

ClosedSet(q, r, h, s) ==
  /\ Fields(q) /\ SameQueues(q, r)
  /\ q.read_end_open = FALSE /\ q.write_end_open = r.write_end_open
  /\ q.pages = r.pages /\ q.capacity = r.capacity /\ q.tail = r.tail
  /\ q.head = h /\ q.status = s

WriteClosedSet(q, r) ==
  /\ Fields(q) /\ SameQueues(q, r) /\ SameBytes(q, r)
  /\ q.read_end_open = r.read_end_open /\ q.write_end_open = FALSE

ReadQueueSet(q, r, w) ==
  /\ Fields(q) /\ SameEnds(q, r) /\ SameBytes(q, r)
  /\ q.read_waiters = w /\ q.write_waiters = r.write_waiters
  /\ q.poll_waiters = r.poll_waiters

WriteQueueSet(q, r, w) ==
  /\ Fields(q) /\ SameEnds(q, r) /\ SameBytes(q, r)
  /\ q.read_waiters = r.read_waiters /\ q.write_waiters = w
  /\ q.poll_waiters = r.poll_waiters

PollQueueSet(q, r, w) ==
  /\ Fields(q) /\ SameEnds(q, r) /\ SameBytes(q, r)
  /\ q.read_waiters = r.read_waiters /\ q.write_waiters = r.write_waiters
  /\ q.poll_waiters = w

WritersTaken(q, r) ==
  /\ Fields(q) /\ SameEnds(q, r) /\ SameBytes(q, r)
  /\ q.read_waiters = r.read_waiters
  /\ q.write_waiters = <<>> /\ q.poll_waiters = <<>>

ReadersTaken(q, r) ==
  /\ Fields(q) /\ SameEnds(q, r) /\ SameBytes(q, r)
  /\ q.write_waiters = r.write_waiters
  /\ q.read_waiters = <<>> /\ q.poll_waiters = <<>>

\* The head moves.
LEMMA SetHead ==
  ASSUME NEW r, Fields(r), NEW h, NEW s
  PROVE  HeadSet(WithHead(r, h, s), r, h, s)
<1> DEFINE q == WithHead(r, h, s)
<1>1. q = [r EXCEPT !.head = h, !.status = s]
  BY Zenon DEF WithHead
<1> HIDE DEF q
<1>2. HeadSet(q, r, h, s)
  BY <1>1 DEF HeadSet, Fields, SameEnds, SameQueues
<1> QED
  BY <1>2, Zenon DEF q

\* The pages change.
LEMMA SetPages ==
  ASSUME NEW r, Fields(r), NEW g
  PROVE  PagesSet(WithPages(r, g), r, g)
<1> DEFINE q == WithPages(r, g)
<1>1. q = [r EXCEPT !.pages = g]
  BY Zenon DEF WithPages
<1> HIDE DEF q
<1>2. PagesSet(q, r, g)
  BY <1>1 DEF PagesSet, Fields, SameEnds, SameQueues, SameNumbers
<1> QED
  BY <1>2, Zenon DEF q

\* The tail moves.
LEMMA SetTail ==
  ASSUME NEW r, Fields(r), NEW g, NEW t, NEW s
  PROVE  TailSet(WithTail(r, g, t, s), r, g, t, s)
<1> DEFINE q == WithTail(r, g, t, s)
<1>1. q = [r EXCEPT !.pages = g, !.tail = t, !.status = s]
  BY Zenon DEF WithTail
<1> HIDE DEF q
<1>2. TailSet(q, r, g, t, s)
  BY <1>1 DEF TailSet, Fields, SameEnds, SameQueues
<1> QED
  BY <1>2, Zenon DEF q

\* The capacity changes.
LEMMA SetAll ==
  ASSUME NEW r, Fields(r), NEW g, NEW n, NEW t, NEW s
  PROVE  AllSet(WithAll(r, g, n, t, s), r, g, n, t, s)
<1> DEFINE q == WithAll(r, g, n, t, s)
<1>1. q = [r EXCEPT !.pages = g, !.capacity = n, !.head = 0, !.tail = t, !.status = s]
  BY Zenon DEF WithAll
<1> HIDE DEF q
<1>2. AllSet(q, r, g, n, t, s)
  BY <1>1 DEF AllSet, Fields, SameEnds, SameQueues
<1> QED
  BY <1>2, Zenon DEF q

\* The read end closes.
LEMMA SetClosed ==
  ASSUME NEW r, Fields(r), NEW h, NEW s
  PROVE  ClosedSet(WithClosed(r, h, s), r, h, s)
<1> DEFINE q == WithClosed(r, h, s)
<1>1. q = [r EXCEPT !.read_end_open = FALSE, !.head = h, !.status = s]
  BY Zenon DEF WithClosed
<1> HIDE DEF q
<1>2. ClosedSet(q, r, h, s)
  BY <1>1 DEF ClosedSet, Fields, SameQueues
<1> QED
  BY <1>2, Zenon DEF q

\* The write end closes.
LEMMA SetWriteClosed ==
  ASSUME NEW r, Fields(r)
  PROVE  WriteClosedSet(WithWriteClosed(r), r)
<1> DEFINE q == WithWriteClosed(r)
<1>1. q = [r EXCEPT !.write_end_open = FALSE]
  BY Zenon DEF WithWriteClosed
<1> HIDE DEF q
<1>2. WriteClosedSet(q, r)
  BY <1>1 DEF WriteClosedSet, Fields, SameQueues, SameBytes, SameNumbers
<1> QED
  BY <1>2, Zenon DEF q

\* The queue of readers changes.
LEMMA SetReadQueue ==
  ASSUME NEW r, Fields(r), NEW w
  PROVE  ReadQueueSet(WithReadQueue(r, w), r, w)
<1> DEFINE q == WithReadQueue(r, w)
<1>1. q = [r EXCEPT !.read_waiters = w]
  BY Zenon DEF WithReadQueue
<1> HIDE DEF q
<1>2. ReadQueueSet(q, r, w)
  BY <1>1 DEF ReadQueueSet, Fields, SameEnds, SameBytes, SameNumbers
<1> QED
  BY <1>2, Zenon DEF q

\* The queue of writers changes.
LEMMA SetWriteQueue ==
  ASSUME NEW r, Fields(r), NEW w
  PROVE  WriteQueueSet(WithWriteQueue(r, w), r, w)
<1> DEFINE q == WithWriteQueue(r, w)
<1>1. q = [r EXCEPT !.write_waiters = w]
  BY Zenon DEF WithWriteQueue
<1> HIDE DEF q
<1>2. WriteQueueSet(q, r, w)
  BY <1>1 DEF WriteQueueSet, Fields, SameEnds, SameBytes, SameNumbers
<1> QED
  BY <1>2, Zenon DEF q

\* The queue of pollers changes.
LEMMA SetPollQueue ==
  ASSUME NEW r, Fields(r), NEW w
  PROVE  PollQueueSet(WithPollQueue(r, w), r, w)
<1> DEFINE q == WithPollQueue(r, w)
<1>1. q = [r EXCEPT !.poll_waiters = w]
  BY Zenon DEF WithPollQueue
<1> HIDE DEF q
<1>2. PollQueueSet(q, r, w)
  BY <1>1 DEF PollQueueSet, Fields, SameEnds, SameBytes, SameNumbers
<1> QED
  BY <1>2, Zenon DEF q

\* Writers and pollers are taken.
LEMMA SetTakenWriters ==
  ASSUME NEW r, Fields(r)
  PROVE  WritersTaken(TakeWriters(r), r)
<1> DEFINE q == TakeWriters(r)
<1>1. q = [r EXCEPT !.write_waiters = <<>>, !.poll_waiters = <<>>]
  BY Zenon DEF TakeWriters
<1> HIDE DEF q
<1>2. WritersTaken(q, r)
  BY <1>1 DEF WritersTaken, Fields, SameEnds, SameBytes, SameNumbers
<1> QED
  BY <1>2, Zenon DEF q

\* Readers and pollers are taken.
LEMMA SetTakenReaders ==
  ASSUME NEW r, Fields(r)
  PROVE  ReadersTaken(TakeReaders(r), r)
<1> DEFINE q == TakeReaders(r)
<1>1. q = [r EXCEPT !.read_waiters = <<>>, !.poll_waiters = <<>>]
  BY Zenon DEF TakeReaders
<1> HIDE DEF q
<1>2. ReadersTaken(q, r)
  BY <1>1 DEF ReadersTaken, Fields, SameEnds, SameBytes, SameNumbers
<1> QED
  BY <1>2, Zenon DEF q

-----------------------------------------------------------------------------
(* Pages *)

PagesOK(pages, cap) ==
  \A i \in DOMAIN pages : /\ i \in Nat /\ i * PAGE_SIZE < cap
                          /\ pages[i] \in [0..(PAGE_SIZE - 1) -> Bytes]

ByteAt(pages, off) ==
  IF Quo(off, PAGE_SIZE) \in DOMAIN pages
  THEN pages[Quo(off, PAGE_SIZE)][Rem(off, PAGE_SIZE)] ELSE 0

\* The bytes of a ring, by its numbers.
BytesOf(pages, cap, head, level) == [i \in 1..level |-> ByteAt(pages, Rem(head + i - 1, cap))]

\* What is stored is bytes.
LEMMA StoredIsByte ==
  ASSUME NEW pages, NEW cap, PagesOK(pages, cap), NEW off \in Nat
  PROVE  ByteAt(pages, off) \in Bytes
<1>1. PAGE_SIZE \in Nat \ {0} /\ 0 \in Bytes
  BY PipeAssumption DEF Bytes
<1>2. Rem(off, PAGE_SIZE) \in 0..(PAGE_SIZE - 1)
  BY ONLY <1>1, RemFacts
<1>3. CASE Quo(off, PAGE_SIZE) \in DOMAIN pages
  <2>1. pages[Quo(off, PAGE_SIZE)] \in [0..(PAGE_SIZE - 1) -> Bytes]
    BY <1>3, Zenon DEF PagesOK
  <2> QED
    BY <1>2, <1>3, <2>1, Zenon DEF ByteAt
<1>4. CASE Quo(off, PAGE_SIZE) \notin DOMAIN pages
  BY <1>1, <1>4, Zenon DEF ByteAt
<1> QED
  BY <1>3, <1>4, Zenon

\* The content of a ring, by its numbers.
LEMMA ContentIs ==
  ASSUME NEW r
  PROVE  /\ AvailableRead(r) = Level(r.capacity, r.head, r.tail, r.status)
         /\ Content(r) = BytesOf(r.pages, r.capacity, r.head, AvailableRead(r))
         /\ \A off : StoredByte(r, off) = ByteAt(r.pages, off)
BY Zenon DEF AvailableRead, Level, Content, BytesOf, StoredByte, ByteAt, Quo, Rem

IsBytes(c, pages, cap, head, level) ==
  /\ c \in Seq(Bytes) /\ Len(c) = level
  /\ \A i \in 1..level : c[i] = ByteAt(pages, Rem(head + i - 1, cap))

\* It is a sequence of bytes.
LEMMA BytesOfSeq ==
  ASSUME NEW pages, NEW cap \in Nat \ {0}, PagesOK(pages, cap), NEW head \in 0..(cap - 1),
         NEW level \in 0..cap
  PROVE  IsBytes(BytesOf(pages, cap, head, level), pages, cap, head, level)
<1> DEFINE c == BytesOf(pages, cap, head, level)
<1>1. ASSUME NEW i \in 1..level
      PROVE  ByteAt(pages, Rem(head + i - 1, cap)) \in Bytes
  <2>1. Rem(head + i - 1, cap) \in Nat
    <3>1. PICK a \in Nat : a = head + i - 1
      OBVIOUS
    <3>2. Rem(a, cap) \in Nat
      BY ONLY RemFacts
    <3> QED
      BY <3>1, <3>2
  <2> QED
    BY <2>1, StoredIsByte, Zenon
<1>2. \A i \in 1..level : c[i] = ByteAt(pages, Rem(head + i - 1, cap))
  BY Zenon DEF BytesOf
<1>3. c \in [1..level -> Bytes]
  BY <1>1, Zenon DEF BytesOf
<1>4. c \in Seq(Bytes) /\ Len(c) = level
  BY ONLY <1>3
<1> QED
  BY <1>2, <1>4, Zenon DEF IsBytes

\* The page of a readable byte is kept.
LEMMA ReadablePageKept ==
  ASSUME NEW r, NEW cap \in Nat \ {0}, NEW head \in 0..(cap - 1), NEW tail \in 0..(cap - 1),
         NEW status, Shape(cap, head, tail, status),
         r.capacity = cap, r.head = head, r.tail = tail, r.status = status,
         NEW k \in Nat \ {0}, k <= Level(cap, head, tail, status),
         NEW off, off = Rem(head + k - 1, cap)
  PROVE  PageContainsReadableData(r, Quo(off, PAGE_SIZE))
<1>1. /\ off \in 0..(cap - 1)
      /\ status = "Full" \/ status = "Normal"
      /\ status = "Normal" => IF head < tail THEN head <= off /\ off < tail
                                             ELSE head <= off \/ off < tail
  BY ONLY ReadableOffset, Shape(cap, head, tail, status), k <= Level(cap, head, tail, status),
     off = Rem(head + k - 1, cap)
<1>2. PICK o \in 0..(cap - 1) : o = off
  BY <1>1
<1>3. PICK size \in Nat \ {0} : size = PAGE_SIZE
  BY PipeAssumption
<1>4. PICK start \in Nat : start = Quo(off, PAGE_SIZE) * PAGE_SIZE /\ start <= o /\ o < start + size
  <2>1. /\ Quo(o, size) * size \in Nat /\ Quo(o, size) * size <= o
        /\ o < Quo(o, size) * size + size
    BY ONLY QuoFacts
  <2> QED
    BY <2>1, <1>2, <1>3
<1>5. PICK end \in Nat : end = Min({start + PAGE_SIZE, r.capacity}) /\ o < end
  <2>1. Least2(start + size, cap) = IF start + size <= cap THEN start + size ELSE cap
    BY LeastOfTwo
  <2>2. Least2(start + size, cap) = Min({start + PAGE_SIZE, r.capacity})
    BY <1>3, Zenon DEF Least2
  <2>3. Least2(start + size, cap) \in Nat /\ o < Least2(start + size, cap)
    BY ONLY <2>1, <1>4
  <2> QED
    BY <2>2, <2>3, Zenon
<1>6. /\ start < end
      /\ head < tail /\ head <= o /\ o < tail => start < tail /\ end > head
      /\ head <= o \/ o < tail => end > head \/ start < tail
  BY ONLY <1>4, <1>5
<1>7. \/ r.status = "Full"
      \/ /\ r.status = "Normal" /\ start < end
         /\ IF r.head < r.tail THEN start < r.tail /\ end > r.head
                               ELSE end > r.head \/ start < r.tail
  BY <1>1, <1>2, <1>6, Zenon
<1> QED
  BY <1>4, <1>5, <1>7, Zenon DEF PageContainsReadableData

\* reclaim_consumed_pages takes away nothing that can be read.
LEMMA ReclaimKeepsBytes ==
  ASSUME NEW r, Fields(r), Shape(r.capacity, r.head, r.tail, r.status),
         PagesOK(r.pages, r.capacity), NEW q, q = ReclaimConsumedPages(r)
  PROVE  /\ Fields(q) /\ SameNumbers(q, r) /\ SameEnds(q, r) /\ SameQueues(q, r)
         /\ PagesOK(q.pages, q.capacity)
         /\ AvailableRead(q) = AvailableRead(r) /\ Content(q) = Content(r)
<1> DEFINE kept == {i \in DOMAIN r.pages : PageContainsReadableData(r, i)}
           g == [i \in kept |-> r.pages[i]]
<1>1. /\ Fields(q) /\ SameNumbers(q, r) /\ SameEnds(q, r) /\ SameQueues(q, r) /\ q.pages = g
  <2>1. q = WithPages(r, g)
    BY Zenon DEF ReclaimConsumedPages, WithPages
  <2> HIDE DEF g
  <2>2. PagesSet(q, r, g)
    BY <2>1, SetPages, Zenon
  <2> QED
    BY <2>2, Zenon DEF PagesSet
<1>2. PagesOK(q.pages, q.capacity)
  BY <1>1, Zenon DEF PagesOK, SameNumbers
<1>3. AvailableRead(q) = AvailableRead(r)
  BY <1>1, Zenon DEF AvailableRead, SameNumbers
<1>4. PICK cap \in Nat \ {0}, head \in Nat, tail \in Nat, status \in Statuses :
        /\ r.capacity = cap /\ r.head = head /\ r.tail = tail /\ r.status = status
        /\ head \in 0..(cap - 1) /\ tail \in 0..(cap - 1) /\ Shape(cap, head, tail, status)
  <2>1. r.capacity \in Nat \ {0} /\ r.head \in Nat /\ r.tail \in Nat /\ r.status \in Statuses
    BY DEF Shape
  <2> QED
    BY <2>1 DEF Shape
<1>5. PICK l \in 0..cap : l = AvailableRead(r) /\ l = Level(cap, head, tail, status)
  <2>1. Level(cap, head, tail, status) \in 0..cap
    BY ONLY <1>4, LevelFacts
  <2> QED
    BY <2>1, <1>4, ContentIs
<1>6. ASSUME NEW i \in 1..l
      PROVE  ByteAt(g, Rem(head + i - 1, cap)) = ByteAt(r.pages, Rem(head + i - 1, cap))
  <2> DEFINE off == Rem(head + i - 1, cap)
             j == Quo(off, PAGE_SIZE)
  <2>1. PageContainsReadableData(r, j)
    <3>1. i \in Nat \ {0} /\ i <= Level(cap, head, tail, status)
      BY ONLY <1>5
    <3> QED
      BY <3>1, <1>4, ReadablePageKept
  <2> HIDE DEF off
  <2>2. CASE j \in DOMAIN r.pages
    <3>1. j \in kept
      BY <2>1, <2>2, Zenon
    <3>2. j \in DOMAIN g /\ g[j] = r.pages[j]
      BY <3>1, Zenon
    <3> QED
      BY <2>2, <3>2, Zenon DEF ByteAt, off
  <2>3. CASE j \notin DOMAIN r.pages
    <3>1. j \notin DOMAIN g
      BY <2>3, Zenon
    <3> QED
      BY <2>3, <3>1, Zenon DEF ByteAt, off
  <2> QED
    BY <2>2, <2>3, Zenon
<1>7. BytesOf(g, cap, head, l) = BytesOf(r.pages, cap, head, l)
  <2> HIDE DEF g
  <2> QED
    BY <1>6, Zenon DEF BytesOf
<1>8. Content(q) = BytesOf(g, cap, head, l) /\ Content(r) = BytesOf(r.pages, cap, head, l)
  <2>1. Content(q) = BytesOf(q.pages, q.capacity, q.head, AvailableRead(q))
    BY ContentIs, Zenon
  <2>2. Content(r) = BytesOf(r.pages, r.capacity, r.head, AvailableRead(r))
    BY ContentIs, Zenon
  <2> HIDE DEF g
  <2> QED
    BY <2>1, <2>2, <1>1, <1>3, <1>4, <1>5, Zenon DEF SameNumbers
<1> QED
  BY <1>1, <1>2, <1>3, <1>7, <1>8, Zenon

-----------------------------------------------------------------------------
(* The operations of a ring *)

EndsOK(r)   == r.read_end_open \in BOOLEAN /\ r.write_end_open \in BOOLEAN
QueuesOK(r) == /\ r.read_waiters \in WaiterQueue /\ r.write_waiters \in WaiterQueue
               /\ r.poll_waiters \in WaiterQueue

RingOK(r) ==
  /\ Fields(r) /\ Shape(r.capacity, r.head, r.tail, r.status) /\ r.capacity >= PIPE_BUF
  /\ PagesOK(r.pages, r.capacity) /\ EndsOK(r) /\ QueuesOK(r)

\* It is what the model calls a ring.
LEMMA RingOKIsRing ==
  ASSUME NEW r, RingOK(r)
  PROVE  IsRing(r)
<1>1. /\ r.capacity \in Nat /\ r.capacity >= PIPE_BUF
      /\ r.head \in 0..(r.capacity - 1) /\ r.tail \in 0..(r.capacity - 1)
      /\ r.status \in Statuses
      /\ r.status # "Normal" <=> r.head = r.tail
  BY DEF RingOK, Shape
<1>2. \A i \in DOMAIN r.pages : /\ i * PAGE_SIZE < r.capacity
                                /\ r.pages[i] \in [0..(PAGE_SIZE - 1) -> Bytes]
  BY Zenon DEF RingOK, PagesOK
<1>3. {r.read_end_open, r.write_end_open} \subseteq BOOLEAN
  BY Zenon DEF RingOK, EndsOK
<1>4. {r.read_waiters, r.write_waiters, r.poll_waiters} \subseteq WaiterQueue
  BY Zenon DEF RingOK, QueuesOK
<1> QED
  BY <1>1, <1>2, <1>3, <1>4, Zenon DEF IsRing

\* Its numbers, by name.
LEMMA RingNumbers ==
  ASSUME NEW r, RingOK(r)
  PROVE  \E cap \in Nat \ {0}, head \in Nat, tail \in Nat, status \in Statuses, level \in Nat :
           /\ r.capacity = cap /\ r.head = head /\ r.tail = tail /\ r.status = status
           /\ head \in 0..(cap - 1) /\ tail \in 0..(cap - 1) /\ level \in 0..cap
           /\ Shape(cap, head, tail, status)
           /\ level = AvailableRead(r) /\ level = Level(cap, head, tail, status)
           /\ AvailableWrite(r) = cap - level
           /\ Rem(head + level, cap) = tail
<1>1. PICK cap \in Nat \ {0} : r.capacity = cap
  BY DEF RingOK, Shape
<1>2. PICK head \in 0..(cap - 1), tail \in 0..(cap - 1), status \in Statuses :
        r.head = head /\ r.tail = tail /\ r.status = status
  BY <1>1 DEF RingOK, Shape
<1>3. Shape(cap, head, tail, status)
  BY <1>1, <1>2, Zenon DEF RingOK
<1>4. PICK level \in 0..cap :
        /\ level = Level(cap, head, tail, status)
        /\ level = cap <=> status = "Full"
        /\ Rem(head + level, cap) = tail
  <2>1. /\ Level(cap, head, tail, status) \in 0..cap
        /\ Level(cap, head, tail, status) = cap <=> status = "Full"
        /\ Rem(head + Level(cap, head, tail, status), cap) = tail
    BY <1>3, LevelFacts
  <2> QED
    BY <2>1, Zenon
<1>5. level = AvailableRead(r)
  BY <1>1, <1>2, <1>4, ContentIs, Zenon
<1>6. AvailableWrite(r) = cap - level
  BY <1>1, <1>2, <1>4, <1>5 DEF AvailableWrite
<1>7. head \in Nat /\ tail \in Nat /\ level \in Nat
  OBVIOUS
<1> QED
  BY <1>1, <1>2, <1>3, <1>4, <1>5, <1>6, <1>7, Zenon

\* What one may say of a ring without looking inside.
LEMMA RingLevel ==
  ASSUME NEW r, RingOK(r)
  PROVE  /\ r.capacity \in Nat \ {0} /\ AvailableRead(r) \in 0..r.capacity
         /\ AvailableWrite(r) = r.capacity - AvailableRead(r)
         /\ Content(r) \in Seq(Bytes) /\ Len(Content(r)) = AvailableRead(r)
<1>1. PICK cap \in Nat \ {0}, head \in Nat, level \in Nat :
        /\ r.capacity = cap /\ r.head = head /\ level = AvailableRead(r) /\ level \in 0..cap
        /\ AvailableWrite(r) = cap - level /\ head \in 0..(cap - 1)
  BY RingNumbers
<1>2. Content(r) = BytesOf(r.pages, cap, head, level) /\ PagesOK(r.pages, cap)
  BY <1>1, ContentIs, Zenon DEF RingOK
<1>3. Content(r) \in Seq(Bytes) /\ Len(Content(r)) = level
  <2>1. IsBytes(Content(r), r.pages, cap, head, level)
    BY <1>1, <1>2, BytesOfSeq
  <2> QED
    BY <2>1, Zenon DEF IsBytes
<1> QED
  BY <1>1, <1>3

\* n bytes are gone from the front, and nothing else has changed.
Took(q, r, n) ==
  /\ RingOK(q) /\ SameEnds(q, r) /\ SameQueues(q, r) /\ q.capacity = r.capacity
  /\ AvailableRead(q) = AvailableRead(r) - n
  /\ Content(q) = SubSeq(Content(r), n + 1, AvailableRead(r))

\* Reading the first n bytes.
LEMMA ReadOp ==
  ASSUME NEW r, RingOK(r), NEW n \in Nat \ {0}, n <= AvailableRead(r),
         NEW new, new = Rem(r.head + n, r.capacity),
         NEW q, q = ReclaimConsumedPages([r EXCEPT !.head = new,
                                                   !.status = StatusAfterRead(new, r.tail)])
  PROVE  Took(q, r, n)
<1>2. PICK cap \in Nat \ {0}, head \in Nat, tail \in Nat, status \in Statuses, level \in Nat :
           /\ r.capacity = cap /\ r.head = head /\ r.tail = tail /\ r.status = status
           /\ head \in 0..(cap - 1) /\ tail \in 0..(cap - 1) /\ level \in 0..cap
           /\ Shape(cap, head, tail, status)
           /\ level = AvailableRead(r) /\ level = Level(cap, head, tail, status)
  BY RingNumbers
<1>3. PICK h \in 0..(cap - 1) : h = new /\ h = Rem(head + n, cap)
  <2>1. Rem(head + n, cap) \in 0..(cap - 1)
    BY ONLY RemFacts
  <2> QED
    BY <2>1, <1>2, Zenon
<1> DEFINE s == StatusAfterRead(h, tail)
           m == WithHead(r, h, s)
<1>4. Shape(cap, h, tail, s) /\ Level(cap, h, tail, s) = level - n
  BY ONLY LevelAfterRead, <1>2, <1>3, n <= AvailableRead(r)
<1>5. /\ Fields(m) /\ SameEnds(m, r) /\ SameQueues(m, r)
      /\ m.pages = r.pages /\ m.capacity = cap /\ m.tail = tail
      /\ m.head = h /\ m.status = s
  <2>1. Fields(r)
    BY DEF RingOK
  <2> HIDE DEF s
  <2>2. HeadSet(m, r, h, s)
    BY <2>1, SetHead, Zenon
  <2> HIDE DEF m
  <2> QED
    BY <2>2, <1>2, Zenon DEF HeadSet
<1>6. q = ReclaimConsumedPages(m)
  BY <1>2, <1>3, Zenon DEF WithHead
<1> HIDE DEF m, s
<1>7. /\ Fields(q) /\ SameNumbers(q, m) /\ SameEnds(q, m) /\ SameQueues(q, m)
      /\ PagesOK(q.pages, q.capacity)
      /\ AvailableRead(q) = AvailableRead(m) /\ Content(q) = Content(m)
  <2>1. Shape(m.capacity, m.head, m.tail, m.status) /\ PagesOK(m.pages, m.capacity)
    BY <1>2, <1>4, <1>5, Zenon DEF RingOK
  <2> QED
    BY <1>5, <1>6, <2>1, ReclaimKeepsBytes
<1>8. AvailableRead(m) = level - n
  BY <1>4, <1>5, ContentIs, Zenon
<1>9. RingOK(q)
  <2>1. Shape(q.capacity, q.head, q.tail, q.status) /\ q.capacity >= PIPE_BUF
    BY <1>2, <1>4, <1>5, <1>7, Zenon DEF SameNumbers, RingOK
  <2>2. EndsOK(q) /\ QueuesOK(q)
    BY <1>5, <1>7, Zenon DEF EndsOK, QueuesOK, SameEnds, SameQueues, RingOK
  <2> QED
    BY <1>7, <2>1, <2>2, Zenon DEF RingOK
<1>10. Content(m) = SubSeq(Content(r), n + 1, AvailableRead(r))
  <2> DEFINE c == Content(r)
  <2>1. c = BytesOf(r.pages, cap, head, level) /\ PagesOK(r.pages, cap)
    BY <1>2, ContentIs, Zenon DEF RingOK
  <2> HIDE DEF c
  <2>2. /\ c \in Seq(Bytes) /\ Len(c) = level
        /\ \A i \in 1..level : c[i] = ByteAt(r.pages, Rem(head + i - 1, cap))
    <3>1. IsBytes(c, r.pages, cap, head, level)
      BY <1>2, <2>1, BytesOfSeq
    <3> QED
      BY <3>1, Zenon DEF IsBytes
  <2>3. PICK l \in 0..cap : l = level - n
    BY ONLY <1>2, n <= AvailableRead(r)
  <2>4. Content(m) = BytesOf(r.pages, cap, h, l)
    BY <1>5, <1>8, <2>3, ContentIs, Zenon
  <2>5. /\ Content(m) \in Seq(Bytes) /\ Len(Content(m)) = l
        /\ \A i \in 1..l : Content(m)[i] = ByteAt(r.pages, Rem(h + i - 1, cap))
    <3>1. IsBytes(Content(m), r.pages, cap, h, l)
      BY <2>1, <2>4, BytesOfSeq
    <3> QED
      BY <3>1, Zenon DEF IsBytes
  <2>6. \A i \in 1..l : Rem(h + i - 1, cap) = Rem(head + (n + i) - 1, cap) /\ n + i \in 1..level
    <3>1. n \in 0..cap /\ \A i \in 1..l : i \in 1..(cap - n) /\ n + i \in 1..level
      BY ONLY <1>2, <2>3, n <= AvailableRead(r)
    <3>2. \A k \in 1..(cap - n) : Rem(Rem(head + n, cap) + k - 1, cap) = Rem(head + (n + k) - 1, cap)
      <4>1. OffsetsOK(cap, head)
        BY <1>2, Offsets
      <4> QED
        BY <4>1, <3>1, Zenon DEF OffsetsOK
    <3> QED
      BY <3>1, <3>2, <1>3, Zenon
  <2>7. \A i \in 1..l : Content(m)[i] = c[n + i]
    BY <2>2, <2>5, <2>6, Zenon
  <2>8. /\ SubSeq(c, n + 1, level) \in Seq(Bytes) /\ Len(SubSeq(c, n + 1, level)) = l
        /\ \A i \in 1..l : SubSeq(c, n + 1, level)[i] = c[n + i]
    <3>1. n <= level /\ l = level - n
      BY ONLY <1>2, <2>3, n <= AvailableRead(r)
    <3> HIDE DEF c
    <3>2. c \in Seq(Bytes) /\ Len(c) = level
      BY <2>2, Zenon
    <3>3. /\ SubSeq(c, n + 1, level) \in Seq(Bytes) /\ Len(SubSeq(c, n + 1, level)) = level - n
          /\ \A i \in 1..(level - n) : SubSeq(c, n + 1, level)[i] = c[n + i]
      BY ONLY <3>1, <3>2, Suffix
    <3> QED
      BY <3>1, <3>3, Zenon
  <2>9. Content(m) = SubSeq(c, n + 1, level)
    BY ONLY <2>5, <2>7, <2>8, SeqEqual
  <2> QED
    BY <2>9, <1>2, Zenon DEF c
<1>11. SameEnds(q, r) /\ SameQueues(q, r) /\ q.capacity = r.capacity
  BY <1>2, <1>5, <1>7, Zenon DEF SameEnds, SameQueues, SameNumbers
<1> QED
  BY <1>2, <1>7, <1>8, <1>9, <1>10, <1>11, Zenon DEF Took

-----------------------------------------------------------------------------
(* Storing bytes *)

\* One byte of a page that Store makes.
PutByte(pages, offs, src, i, o) ==
  LET here == {k \in DOMAIN offs : offs[k] = i * PAGE_SIZE + o}
  IN IF here = {} THEN (IF i \in DOMAIN pages THEN pages[i][o] ELSE 0)
                  ELSE src[CHOOSE k \in here : TRUE]

Touched(pages, offs) == DOMAIN pages \cup {Quo(offs[k], PAGE_SIZE) : k \in DOMAIN offs}

\* The offsets of n bytes, and the bytes for them.
Target(offs, n, cap, src) ==
  /\ DOMAIN offs = 1..n
  /\ \A k \in 1..n : offs[k] \in 0..(cap - 1) /\ src[k] \in Bytes
  /\ \A j, k \in 1..n : offs[j] = offs[k] => j = k

\* What Store makes.
LEMMA StoreIs ==
  ASSUME NEW pages, NEW offs, NEW src
  PROVE  Store(pages, offs, src)
           = [i \in Touched(pages, offs) |->
                [o \in 0..(PAGE_SIZE - 1) |-> PutByte(pages, offs, src, i, o)]]
BY Zenon DEF Store, Touched, PutByte, Quo

\* Pages stay pages.
LEMMA StorePages ==
  ASSUME NEW pages, NEW cap \in Nat \ {0}, PagesOK(pages, cap), NEW n \in Nat,
         NEW offs, NEW src, Target(offs, n, cap, src)
  PROVE  PagesOK(Store(pages, offs, src), cap)
<1> DEFINE S == Store(pages, offs, src)
           T == Touched(pages, offs)
<1>1. PAGE_SIZE \in Nat \ {0} /\ 0 \in Bytes
  BY PipeAssumption DEF Bytes
<1>2. DOMAIN S = T
      /\ \A i \in T : S[i] = [o \in 0..(PAGE_SIZE - 1) |-> PutByte(pages, offs, src, i, o)]
  BY StoreIs, Zenon
<1>3. ASSUME NEW i \in T
      PROVE  i \in Nat /\ i * PAGE_SIZE < cap
  <2>1. CASE i \in DOMAIN pages
    BY <2>1, Zenon DEF PagesOK
  <2>2. CASE i \notin DOMAIN pages
    <3>1. PICK k \in 1..n : i = Quo(offs[k], PAGE_SIZE)
      BY <2>2, Zenon DEF Touched, Target
    <3>2. PICK a \in Nat : a = offs[k] /\ a < cap
      <4>1. offs[k] \in 0..(cap - 1)
        BY Zenon DEF Target
      <4> QED
        BY <4>1
    <3>3. PICK s \in Nat \ {0} : s = PAGE_SIZE
      BY <1>1
    <3>4. Quo(a, s) \in Nat /\ Quo(a, s) * s \in Nat /\ Quo(a, s) * s <= a
      BY ONLY QuoFacts
    <3>5. Quo(a, s) * s < cap
      BY <3>2, <3>4
    <3> QED
      BY <3>1, <3>2, <3>3, <3>4, <3>5, Zenon
  <2> QED
    BY <2>1, <2>2, Zenon
<1>4. ASSUME NEW i \in T, NEW o \in 0..(PAGE_SIZE - 1)
      PROVE  PutByte(pages, offs, src, i, o) \in Bytes
  <2> DEFINE here == {k \in DOMAIN offs : offs[k] = i * PAGE_SIZE + o}
  <2>1. CASE here = {}
    <3>1. CASE i \in DOMAIN pages
      BY <2>1, <3>1, Zenon DEF PagesOK, PutByte
    <3>2. CASE i \notin DOMAIN pages
      BY <1>1, <2>1, <3>2, Zenon DEF PutByte
    <3> QED
      BY <3>1, <3>2, Zenon
  <2>2. CASE here # {}
    <3>1. (CHOOSE k \in here : TRUE) \in here
      BY <2>2, Zenon
    <3>2. (CHOOSE k \in here : TRUE) \in 1..n
      BY <3>1, Zenon DEF Target
    <3>3. src[CHOOSE k \in here : TRUE] \in Bytes
      BY <3>2, Zenon DEF Target
    <3> QED
      BY <2>2, <3>3, Zenon DEF PutByte
  <2> QED
    BY <2>1, <2>2, Zenon
<1>5. ASSUME NEW i \in T
      PROVE  S[i] \in [0..(PAGE_SIZE - 1) -> Bytes]
  BY <1>2, <1>4, Zenon
<1> HIDE DEF S, T
<1>6. PagesOK(S, cap)
  BY <1>2, <1>3, <1>5, Zenon DEF PagesOK
<1> QED
  BY <1>6, Zenon DEF S

\* What is at an offset after the bytes of src were stored.
BytePut(g, pages, offs, src, n, off) ==
  /\ (\A k \in 1..n : offs[k] # off) => ByteAt(g, off) = ByteAt(pages, off)
  /\ \A k \in 1..n : offs[k] = off => ByteAt(g, off) = src[k]

\* The other bytes stay, and the new ones are there.
LEMMA StoreBytes ==
  ASSUME NEW pages, NEW cap \in Nat \ {0}, NEW n \in Nat,
         NEW offs, NEW src, Target(offs, n, cap, src),
         NEW off \in 0..(cap - 1)
  PROVE  BytePut(Store(pages, offs, src), pages, offs, src, n, off)
<1> DEFINE S == Store(pages, offs, src)
           T == Touched(pages, offs)
           i == Quo(off, PAGE_SIZE)
           o == Rem(off, PAGE_SIZE)
           here == {k \in DOMAIN offs : offs[k] = i * PAGE_SIZE + o}
<1>1. PICK s \in Nat \ {0} : s = PAGE_SIZE
  BY PipeAssumption
<1>2. off \in Nat
  OBVIOUS
<1>3. o \in 0..(PAGE_SIZE - 1) /\ i * PAGE_SIZE + o = off
  <2>1. Rem(off, s) \in 0..(s - 1) /\ Quo(off, s) * s + Rem(off, s) = off
    <3>1. Quo(off, s) * s + Rem(off, s) = off
      BY ONLY <1>2, QuoFacts
    <3>2. Rem(off, s) \in 0..(s - 1)
      BY ONLY <1>2, RemFacts
    <3> QED
      BY <3>1, <3>2, Zenon
  <2> QED
    BY <1>1, <2>1, Zenon
<1>4. i \in T => ByteAt(S, off) = PutByte(pages, offs, src, i, o)
  <2> HIDE DEF T
  <2>1. DOMAIN S = T
        /\ \A j \in T : S[j] = [x \in 0..(PAGE_SIZE - 1) |-> PutByte(pages, offs, src, j, x)]
    BY StoreIs, Zenon DEF T
  <2> HIDE DEF S
  <2>2. ASSUME i \in T
        PROVE  ByteAt(S, off) = S[i][o]
    BY <2>1, <2>2, Zenon DEF ByteAt
  <2>3. ASSUME i \in T
        PROVE  S[i][o] = PutByte(pages, offs, src, i, o)
    <3>1. S[i] = [x \in 0..(PAGE_SIZE - 1) |-> PutByte(pages, offs, src, i, x)]
      BY <2>1, <2>3, Zenon
    <3> HIDE DEF i, o
    <3> QED
      BY <3>1, <1>3, Zenon
  <2> QED
    BY <2>2, <2>3, Zenon
<1>5. i \notin T => ByteAt(S, off) = 0
  BY StoreIs, Zenon DEF ByteAt
<1>6. here = {k \in 1..n : offs[k] = off}
  BY <1>3, Zenon DEF Target
<1>7. ASSUME \A k \in 1..n : offs[k] # off
      PROVE  ByteAt(S, off) = ByteAt(pages, off)
  <2>1. here = {}
    BY <1>6, <1>7, Zenon
  <2>2. PutByte(pages, offs, src, i, o) = IF i \in DOMAIN pages THEN pages[i][o] ELSE 0
    BY <2>1, Zenon DEF PutByte
  <2>3. PutByte(pages, offs, src, i, o) = ByteAt(pages, off)
    BY <2>2, Zenon DEF ByteAt
  <2>4. i \notin T => ByteAt(pages, off) = 0
    BY Zenon DEF ByteAt, Touched
  <2> HIDE DEF S, T, i, o
  <2> QED
    BY <1>4, <1>5, <2>3, <2>4, Zenon
<1>8. ASSUME NEW k \in 1..n, offs[k] = off
      PROVE  ByteAt(S, off) = src[k]
  <2>1. here = {k}
    BY <1>6, <1>8, Zenon DEF Target
  <2>2. (CHOOSE j \in here : TRUE) = k
    <3>1. (CHOOSE j \in here : TRUE) \in here
      BY <2>1, Zenon
    <3> QED
      BY <2>1, <3>1, Zenon
  <2>3. PutByte(pages, offs, src, i, o) = src[k]
    BY <2>1, <2>2, Zenon DEF PutByte
  <2>4. i \in T
    BY <1>8, Zenon DEF Touched, Target
  <2> HIDE DEF S, T, i, o
  <2> QED
    BY <1>4, <2>3, <2>4, Zenon
<1> HIDE DEF S, T, i, o
<1>9. BytePut(S, pages, offs, src, n, off)
  BY <1>7, <1>8, Zenon DEF BytePut
<1> QED
  BY <1>9, Zenon DEF S

\* The bytes of d have come to the end, and nothing else has changed.
Gave(q, r, d) ==
  /\ RingOK(q) /\ SameEnds(q, r) /\ SameQueues(q, r) /\ q.capacity = r.capacity
  /\ AvailableRead(q) = AvailableRead(r) + Len(d)
  /\ Content(q) = Content(r) \o d

\* Writing the first n bytes of src.
LEMMA WriteOp ==
  ASSUME NEW r, RingOK(r), NEW n \in Nat \ {0}, n <= AvailableWrite(r),
         NEW src, src \in Seq(Bytes), n <= Len(src)
  PROVE  Gave(AfterWrite(r, WriteEnd(r, n), src), r, SubSeq(src, 1, n))
<1> DEFINE q == AfterWrite(r, WriteEnd(r, n), src)
           d == SubSeq(src, 1, n)
<1>1. PICK cap \in Nat \ {0}, head \in Nat, tail \in Nat, status \in Statuses, level \in Nat :
           /\ r.capacity = cap /\ r.head = head /\ r.tail = tail /\ r.status = status
           /\ head \in 0..(cap - 1) /\ tail \in 0..(cap - 1) /\ level \in 0..cap
           /\ Shape(cap, head, tail, status)
           /\ level = AvailableRead(r) /\ level = Level(cap, head, tail, status)
           /\ AvailableWrite(r) = cap - level
           /\ Rem(head + level, cap) = tail
  BY RingNumbers
<1>2. PICK h \in 0..(cap - 1) : h = Rem(tail + n, cap)
  <2>1. Rem(tail + n, cap) \in 0..(cap - 1)
    BY ONLY RemFacts
  <2> QED
    BY <2>1, Zenon
<1>3. n <= cap - level
  BY <1>1
<1> DEFINE s == StatusAfterWrite(h, head)
           offs == [k \in 1..n |-> Rem(tail + k - 1, cap)]
           g == Store(r.pages, offs, src)
<1>4. Shape(cap, head, h, s) /\ Level(cap, head, h, s) = level + n
  BY ONLY LevelAfterWrite, <1>1, <1>2, <1>3
<1>5. q = WithTail(r, g, h, s)
  <2>1. WriteEnd(r, n).pos = h
    BY <1>1, <1>2, Zenon DEF WriteEnd
  <2>2. WriteEnd(r, n).status = s
    BY <1>1, <1>2, Zenon DEF WriteEnd
  <2>3. WriteEnd(r, n).offs = offs
    BY <1>1, Zenon DEF WriteEnd
  <2> HIDE DEF s, offs
  <2> QED
    BY <2>1, <2>2, <2>3, Zenon DEF AfterWrite, WithTail
<1>6. Target(offs, n, cap, src)
  <2>1. OffsetsOK(cap, tail)
    BY <1>1, Offsets
  <2>2. \A k \in 1..n : k \in 1..cap
    BY ONLY <1>1, <1>3
  <2>3. \A k \in 1..n : src[k] \in Bytes
    BY ONLY src \in Seq(Bytes), n <= Len(src)
  <2>4. \A k \in 1..n : offs[k] = Rem(tail + k - 1, cap)
    BY Zenon
  <2>5. DOMAIN offs = 1..n
    BY Zenon
  <2> HIDE DEF offs
  <2>6. ASSUME NEW k \in 1..n
        PROVE  offs[k] \in 0..(cap - 1)
    <3>1. k \in 1..cap
      BY <2>2, Zenon
    <3>2. Rem(tail + k - 1, cap) \in 0..(cap - 1)
      BY <3>1, <2>1, Zenon DEF OffsetsOK
    <3> QED
      BY <3>2, <2>4, Zenon
  <2>7. ASSUME NEW j \in 1..n, NEW k \in 1..n, offs[j] = offs[k]
        PROVE  j = k
    <3>1. Rem(tail + j - 1, cap) = Rem(tail + k - 1, cap) /\ j \in 1..cap /\ k \in 1..cap
      BY <2>2, <2>4, <2>7, Zenon
    <3> QED
      BY <3>1, <2>1, Zenon DEF OffsetsOK
  <2> QED
    BY <2>3, <2>5, <2>6, <2>7, Zenon DEF Target
<1>7. PagesOK(r.pages, cap)
  BY <1>1, Zenon DEF RingOK
<1>8. PagesOK(g, cap)
  <2> HIDE DEF offs
  <2> QED
    BY <1>6, <1>7, StorePages, Zenon
<1>9. /\ Fields(q) /\ SameEnds(q, r) /\ SameQueues(q, r)
      /\ q.pages = g /\ q.capacity = cap /\ q.head = head
      /\ q.tail = h /\ q.status = s
  <2>1. Fields(r)
    BY DEF RingOK
  <2> HIDE DEF s, g, q
  <2>2. TailSet(q, r, g, h, s)
    BY <1>5, <2>1, SetTail, Zenon
  <2> QED
    BY <2>2, <1>1, Zenon DEF TailSet
<1>10. AvailableRead(q) = level + n
  <2> HIDE DEF q, s
  <2> QED
    BY <1>4, <1>9, ContentIs, Zenon
<1>11. RingOK(q)
  <2> HIDE DEF q, s, g
  <2>1. Shape(q.capacity, q.head, q.tail, q.status) /\ q.capacity >= PIPE_BUF
    BY <1>1, <1>4, <1>9, Zenon DEF RingOK
  <2>2. EndsOK(q) /\ QueuesOK(q)
    BY <1>9, Zenon DEF EndsOK, QueuesOK, SameEnds, SameQueues, RingOK
  <2> QED
    BY <1>8, <1>9, <2>1, <2>2, Zenon DEF RingOK
<1>12. d \in Seq(Bytes) /\ Len(d) = n /\ \A k \in 1..n : d[k] = src[k]
  <2>1. PICK l \in Nat : Len(src) = l /\ n <= l
    BY ONLY src \in Seq(Bytes), n <= Len(src), LenProperties
  <2> QED
    BY ONLY src \in Seq(Bytes), <2>1, Prefix
<1> HIDE DEF d, q, s
<1>13. /\ Content(r) \in Seq(Bytes) /\ Len(Content(r)) = level
       /\ \A i \in 1..level : Content(r)[i] = ByteAt(r.pages, Rem(head + i - 1, cap))
  <2>1. Content(r) = BytesOf(r.pages, cap, head, level)
    BY <1>1, ContentIs, Zenon
  <2>2. IsBytes(Content(r), r.pages, cap, head, level)
    BY <1>1, <1>7, <2>1, BytesOfSeq
  <2> QED
    BY <2>2, Zenon DEF IsBytes
<1>14. PICK l \in 0..cap : l = level + n
  BY ONLY <1>1, <1>3
<1>15. /\ Content(q) \in Seq(Bytes) /\ Len(Content(q)) = l
       /\ \A i \in 1..l : Content(q)[i] = ByteAt(g, Rem(head + i - 1, cap))
  <2> HIDE DEF g
  <2>1. Content(q) = BytesOf(g, cap, head, l)
    BY <1>9, <1>10, <1>14, ContentIs, Zenon
  <2>2. IsBytes(Content(q), g, cap, head, l)
    BY <1>1, <1>8, <2>1, BytesOfSeq
  <2> QED
    BY <2>2, Zenon DEF IsBytes
<1>16. OffsetsOK(cap, head)
  BY <1>1, Offsets
<1>17. ASSUME NEW k \in 1..n
       PROVE  offs[k] = Rem(head + (level + k) - 1, cap) /\ level + k \in 1..cap
  <2>1. k \in 1..(cap - level) /\ level \in 0..cap /\ level + k \in 1..cap
    BY ONLY <1>1, <1>3
  <2>2. Rem(Rem(head + level, cap) + k - 1, cap) = Rem(head + (level + k) - 1, cap)
    BY <1>16, <2>1, Zenon DEF OffsetsOK
  <2> QED
    BY <1>1, <2>1, <2>2, Zenon
<1>18. ASSUME NEW i \in 1..level
       PROVE  Content(q)[i] = Content(r)[i]
  <2>1. i \in 1..l /\ i \in 1..cap
    BY ONLY <1>1, <1>14
  <2>2. \A k \in 1..n : offs[k] # Rem(head + i - 1, cap)
    <3> SUFFICES ASSUME NEW k \in 1..n, offs[k] = Rem(head + i - 1, cap)
                 PROVE  FALSE
      BY Zenon
    <3>1. Rem(head + (level + k) - 1, cap) = Rem(head + i - 1, cap) /\ level + k \in 1..cap
      BY <1>17, Zenon
    <3>2. level + k = i
      BY <3>1, <2>1, <1>16, Zenon DEF OffsetsOK
    <3> QED
      BY ONLY <1>1, <3>2
  <2>3. Rem(head + i - 1, cap) \in 0..(cap - 1)
    BY <2>1, <1>16, Zenon DEF OffsetsOK
  <2> HIDE DEF offs
  <2>4. ByteAt(g, Rem(head + i - 1, cap)) = ByteAt(r.pages, Rem(head + i - 1, cap))
    <3>1. BytePut(g, r.pages, offs, src, n, Rem(head + i - 1, cap))
      BY <1>6, <2>3, StoreBytes, Zenon
    <3> HIDE DEF g
    <3> QED
      BY <3>1, <2>2, Zenon DEF BytePut
  <2> HIDE DEF g
  <2> QED
    BY <2>1, <2>4, <1>13, <1>15, Zenon
<1>19. ASSUME NEW k \in 1..n
       PROVE  Content(q)[level + k] = d[k]
  <2>1. level + k \in 1..l /\ k \in 1..n
    BY ONLY <1>1, <1>14
  <2>2. offs[k] = Rem(head + (level + k) - 1, cap) /\ level + k \in 1..cap
    BY <1>17, Zenon
  <2>3. Rem(head + (level + k) - 1, cap) \in 0..(cap - 1)
    BY <2>2, <1>16, Zenon DEF OffsetsOK
  <2> HIDE DEF offs
  <2>4. ByteAt(g, Rem(head + (level + k) - 1, cap)) = src[k]
    <3>1. BytePut(g, r.pages, offs, src, n, Rem(head + (level + k) - 1, cap))
      BY <1>6, <2>3, StoreBytes, Zenon
    <3> HIDE DEF g
    <3> QED
      BY <3>1, <2>2, Zenon DEF BytePut
  <2> HIDE DEF g
  <2> QED
    BY <2>1, <2>4, <1>12, <1>15, Zenon
<1>20. Content(q) = Content(r) \o d
  <2> DEFINE c == Content(r)
             e == Content(q)
  <2> HIDE DEF c, e
  <2>1. /\ c \in Seq(Bytes) /\ Len(c) = level /\ d \in Seq(Bytes) /\ Len(d) = n
        /\ e \in Seq(Bytes) /\ Len(e) = level + n
    BY <1>12, <1>13, <1>14, <1>15, Zenon DEF c, e
  <2>2. /\ \A i \in 1..level : e[i] = c[i]
        /\ \A k \in 1..n : e[level + k] = d[k]
    BY <1>18, <1>19, Zenon DEF c, e
  <2>3. Parts(Bytes, e, c, d, level, n)
    BY <2>1, <2>2, Zenon DEF Parts
  <2>4. e = c \o d
    BY <2>3, Joined, Zenon
  <2> QED
    BY <2>4, Zenon DEF c, e
<1>21. SameEnds(q, r) /\ SameQueues(q, r) /\ q.capacity = r.capacity /\ AvailableRead(q) = AvailableRead(r) + Len(d)
  BY <1>1, <1>9, <1>10, <1>12, Zenon
<1>22. Gave(q, r, d)
  BY <1>11, <1>20, <1>21, Zenon DEF Gave
<1> QED
  BY <1>22, Zenon DEF q, d

\* The bytes that a loop of read_slice copies are the first ones.
LEMMA ReadBytes ==
  ASSUME NEW r, RingOK(r), NEW n \in Nat, n <= AvailableRead(r)
  PROVE  BytesRead(r, ReadEnd(r, n)) = SubSeq(Content(r), 1, n)
<1>1. PICK cap \in Nat \ {0}, head \in Nat, tail \in Nat, status \in Statuses, level \in Nat :
           /\ r.capacity = cap /\ r.head = head /\ r.tail = tail /\ r.status = status
           /\ head \in 0..(cap - 1) /\ tail \in 0..(cap - 1) /\ level \in 0..cap
           /\ Shape(cap, head, tail, status)
           /\ level = AvailableRead(r) /\ level = Level(cap, head, tail, status)
  BY RingNumbers
<1>2. n <= level
  BY <1>1
<1>3. PagesOK(r.pages, cap)
  BY <1>1, Zenon DEF RingOK
<1>4. /\ Content(r) \in Seq(Bytes) /\ Len(Content(r)) = level
      /\ \A i \in 1..level : Content(r)[i] = ByteAt(r.pages, Rem(head + i - 1, cap))
  <2>1. Content(r) = BytesOf(r.pages, cap, head, level)
    BY <1>1, ContentIs, Zenon
  <2>2. IsBytes(Content(r), r.pages, cap, head, level)
    BY <1>1, <1>3, <2>1, BytesOfSeq
  <2> QED
    BY <2>2, Zenon DEF IsBytes
<1>5. BytesRead(r, ReadEnd(r, n)) = BytesOf(r.pages, cap, head, n)
  <2>1. ReadEnd(r, n).offs = [k \in 1..n |-> Rem(head + k - 1, cap)]
    BY <1>1, Zenon DEF ReadEnd
  <2>2. \A off : StoredByte(r, off) = ByteAt(r.pages, off)
    BY ContentIs, Zenon
  <2> DEFINE o == ReadEnd(r, n).offs
  <2>3. DOMAIN o = 1..n /\ \A k \in 1..n : o[k] = Rem(head + k - 1, cap)
    BY <2>1, Zenon
  <2> HIDE DEF o
  <2>4. BytesRead(r, ReadEnd(r, n)) = [k \in DOMAIN o |-> StoredByte(r, o[k])]
    BY Zenon DEF BytesRead, o
  <2>5. [k \in DOMAIN o |-> StoredByte(r, o[k])] = [k \in 1..n |-> ByteAt(r.pages, Rem(head + k - 1, cap))]
    BY <2>2, <2>3, Zenon
  <2> QED
    BY <2>4, <2>5, Zenon DEF BytesOf
<1>6. IsBytes(BytesOf(r.pages, cap, head, n), r.pages, cap, head, n)
  <2>1. n \in 0..cap
    BY ONLY <1>1, <1>2
  <2> QED
    BY <1>1, <1>3, <2>1, BytesOfSeq
<1> DEFINE b == BytesOf(r.pages, cap, head, n)
           c == Content(r)
<1>7. /\ b \in Seq(Bytes) /\ Len(b) = n
      /\ \A i \in 1..n : b[i] = ByteAt(r.pages, Rem(head + i - 1, cap))
  BY <1>6, Zenon DEF IsBytes
<1> HIDE DEF b, c
<1>8. c \in Seq(Bytes) /\ Len(c) = level
  BY <1>4, Zenon DEF c
<1>9. \A i \in 1..n : b[i] = c[i]
  <2>1. \A i \in 1..n : i \in 1..level
    BY ONLY <1>2
  <2> QED
    BY <2>1, <1>4, <1>7, Zenon DEF c
<1>10. /\ SubSeq(c, 1, n) \in Seq(Bytes) /\ Len(SubSeq(c, 1, n)) = n
       /\ \A i \in 1..n : SubSeq(c, 1, n)[i] = c[i]
  BY ONLY <1>2, <1>8, Prefix
<1>11. b = SubSeq(c, 1, n)
  BY ONLY <1>7, <1>9, <1>10, SeqEqual
<1> QED
  BY <1>5, <1>11, Zenon DEF b, c

\* A loop of read_slice for n bytes that finds m.
ReadOutcome(r, n, loop, m) ==
  /\ m = Min({n, AvailableRead(r)})
  /\ m <= n /\ m <= AvailableRead(r) /\ (m = n \/ m = AvailableRead(r))
  /\ Len(loop.offs) = m /\ (loop.offs = <<>> <=> m = 0)
  /\ BytesRead(r, loop) = SubSeq(Content(r), 1, m)
  /\ m # 0 => Took(AfterRead(r, loop), r, m)

\* Every loop of read_slice is one.
LEMMA ReadsIs ==
  ASSUME NEW r, RingOK(r), NEW n \in Nat, NEW loop, loop \in Reads(r, n)
  PROVE  \E m \in Nat : ReadOutcome(r, n, loop, m)
<1>1. PICK a \in Nat : a = AvailableRead(r)
  BY RingLevel
<1>2. PICK m \in Nat : m = Least2(n, a) /\ m <= n /\ m <= a /\ (m = n \/ m = a)
  BY LeastOfTwo
<1>3. m = Min({n, AvailableRead(r)})
  BY <1>1, <1>2, Zenon DEF Least2
<1>4. loop = ReadLoop(r, m)
  BY <1>3, Zenon DEF Reads
<1>5. m <= AvailableRead(r)
  BY <1>1, <1>2, Zenon
<1>6. Shaped(r)
  BY Zenon DEF RingOK, Shape, Shaped
<1>7. loop = ReadEnd(r, m)
  BY <1>4, <1>5, <1>6, ReadLoopEnd, Zenon
<1>8. Len(loop.offs) = m /\ (loop.offs = <<>> <=> m = 0)
  <2>1. loop.offs = [k \in 1..m |-> Rem(r.head + k - 1, r.capacity)]
    BY <1>7, Zenon DEF ReadEnd
  <2> QED
    BY <2>1
<1>9. BytesRead(r, loop) = SubSeq(Content(r), 1, m)
  BY <1>5, <1>7, ReadBytes, Zenon
<1>10. ASSUME m # 0
       PROVE  Took(AfterRead(r, loop), r, m)
  <2> DEFINE h == Rem(r.head + m, r.capacity)
  <2>1. loop.pos = h
    BY <1>7, Zenon DEF ReadEnd
  <2>2. loop.status = StatusAfterRead(h, r.tail)
    BY <1>7, <1>10, Zenon DEF ReadEnd
  <2> HIDE DEF h
  <2>3. AfterRead(r, loop) = ReclaimConsumedPages([r EXCEPT !.head = h, !.status = StatusAfterRead(h, r.tail)])
    BY <2>1, <2>2, Zenon DEF AfterRead
  <2>4. m \in Nat \ {0}
    BY <1>10
  <2> QED
    BY <2>3, <2>4, <1>5, ReadOp, Zenon DEF h
<1>11. ReadOutcome(r, n, loop, m)
  BY <1>1, <1>2, <1>3, <1>8, <1>9, <1>10, Zenon DEF ReadOutcome
<1> QED
  BY <1>11, Zenon

\* A loop of write_slice for n bytes that stores m.
WriteOutcome(r, n, loop, m) ==
  /\ m = Min({n, AvailableWrite(r)})
  /\ m <= n /\ m <= AvailableWrite(r) /\ (m = n \/ m = AvailableWrite(r))
  /\ Len(loop.offs) = m
  /\ \A src \in Seq(Bytes) : m # 0 /\ m <= Len(src) =>
       Gave(AfterWrite(r, loop, src), r, SubSeq(src, 1, m))

\* Every loop of write_slice is one.
LEMMA WritesIs ==
  ASSUME NEW r, RingOK(r), NEW n \in Nat, NEW loop, loop \in Writes(r, n)
  PROVE  \E m \in Nat : WriteOutcome(r, n, loop, m)
<1>1. PICK a \in Nat : a = AvailableWrite(r)
  BY RingLevel
<1>2. PICK m \in Nat : m = Least2(n, a) /\ m <= n /\ m <= a /\ (m = n \/ m = a)
  BY LeastOfTwo
<1>3. m = Min({n, AvailableWrite(r)})
  BY <1>1, <1>2, Zenon DEF Least2
<1>4. loop = WriteLoop(r, m)
  BY <1>3, Zenon DEF Writes
<1>5. m <= AvailableWrite(r)
  BY <1>1, <1>2, Zenon
<1>6. Shaped(r)
  BY Zenon DEF RingOK, Shape, Shaped
<1>7. loop = WriteEnd(r, m)
  BY <1>4, <1>5, <1>6, WriteLoopEnd, Zenon
<1>8. Len(loop.offs) = m
  <2>1. loop.offs = [k \in 1..m |-> Rem(r.tail + k - 1, r.capacity)]
    BY <1>7, Zenon DEF WriteEnd
  <2> QED
    BY <2>1
<1>9. ASSUME NEW src \in Seq(Bytes), m # 0, m <= Len(src)
      PROVE  Gave(AfterWrite(r, loop, src), r, SubSeq(src, 1, m))
  <2>1. m \in Nat \ {0}
    BY ONLY <1>9
  <2> QED
    BY <2>1, <1>5, <1>7, <1>9, WriteOp, Zenon
<1>10. WriteOutcome(r, n, loop, m)
  BY <1>1, <1>2, <1>3, <1>8, <1>9, Zenon DEF WriteOutcome
<1> QED
  BY <1>10, Zenon

\* discard_slice.
LEMMA DiscardIs ==
  ASSUME NEW r, RingOK(r), NEW n \in Nat \ {0}, n <= AvailableRead(r)
  PROVE  Took(DiscardSlice(r, n), r, n)
<1>1. PICK a \in Nat : a = AvailableRead(r)
  BY RingLevel
<1>2. Least2(n, a) = n
  BY <1>1, LeastOfTwo
<1>3. Min({n, AvailableRead(r)}) = n /\ n # 0
  BY <1>1, <1>2, Zenon DEF Least2
<1> DEFINE h == Rem(r.head + n, r.capacity)
<1>4. DiscardSlice(r, n) = ReclaimConsumedPages([r EXCEPT !.head = h, !.status = StatusAfterRead(h, r.tail)])
  BY <1>3, Zenon DEF DiscardSlice, Rem
<1> HIDE DEF h
<1> QED
  BY <1>4, ReadOp, Zenon DEF h

\* The numbers of a ring whose bytes were moved to the front.
LEMMA FrontShape ==
  ASSUME NEW n \in Nat \ {0}, NEW len \in 0..n,
         NEW s, s = IF len = 0 THEN "Empty" ELSE IF len = n THEN "Full" ELSE "Normal"
  PROVE  /\ Shape(n, 0, Rem(len, n), s) /\ Level(n, 0, Rem(len, n), s) = len
<1>1. Rem(len, n) = IF len = n THEN 0 ELSE len
  BY RemFacts
<1> QED
  BY <1>1 DEF Shape, Level, Statuses

\* A page of the new ring.
FrontPage(bytes, len, i) ==
  [o \in 0..(PAGE_SIZE - 1) |-> IF i * PAGE_SIZE + o < len THEN bytes[i * PAGE_SIZE + o + 1] ELSE 0]

FrontPages(bytes, len) ==
  [i \in {j \in 0..len : j * PAGE_SIZE < len} |-> FrontPage(bytes, len, i)]

\* The new pages hold the bytes in order.
LEMMA FrontBytes ==
  ASSUME NEW n \in Nat \ {0}, NEW len \in 0..n, NEW bytes, bytes \in Seq(Bytes), Len(bytes) = len
  PROVE  /\ PagesOK(FrontPages(bytes, len), n)
         /\ \A i \in 1..len : ByteAt(FrontPages(bytes, len), i - 1) = bytes[i]
<1> DEFINE g == FrontPages(bytes, len)
           D == {j \in 0..len : j * PAGE_SIZE < len}
<1>1. PICK s \in Nat \ {0} : s = PAGE_SIZE
  BY PipeAssumption
<1>2. 0 \in Bytes /\ \A k \in 1..len : bytes[k] \in Bytes
  BY PipeAssumption DEF Bytes
<1>3. DOMAIN g = D /\ \A i \in D : g[i] = FrontPage(bytes, len, i)
  BY Zenon DEF FrontPages
<1> HIDE DEF g, D
<1>4. ASSUME NEW i \in D
      PROVE  i \in Nat /\ i * PAGE_SIZE < n /\ g[i] \in [0..(PAGE_SIZE - 1) -> Bytes]
  <2>1. PICK j \in Nat : j = i /\ j * s < len
    BY <1>1 DEF D
  <2>2. PICK z \in Nat : z = j * s
    OBVIOUS
  <2>3. z < n
    BY ONLY <2>1, <2>2
  <2>4. ASSUME NEW o \in 0..(s - 1)
        PROVE  (IF z + o < len THEN bytes[z + o + 1] ELSE 0) \in Bytes
    <3>1. z + o < len => z + o + 1 \in 1..len
      BY ONLY TRUE
    <3> QED
      BY <3>1, <1>2, Zenon
  <2>5. g[i] = [o \in 0..(s - 1) |-> IF z + o < len THEN bytes[z + o + 1] ELSE 0]
    BY <1>1, <1>3, <2>1, <2>2, Zenon DEF FrontPage
  <2>6. g[i] \in [0..(s - 1) -> Bytes]
    BY <2>4, <2>5, Zenon
  <2> QED
    BY <1>1, <2>1, <2>2, <2>3, <2>6, Zenon
<1>5. PagesOK(g, n)
  BY <1>3, <1>4, Zenon DEF PagesOK
<1>6. ASSUME NEW i \in 1..len
      PROVE  ByteAt(g, i - 1) = bytes[i]
  <2>1. PICK a \in Nat : a = i - 1 /\ a + 1 = i /\ a < len
    OBVIOUS
  <2>2. PICK j \in Nat, o \in Nat :
          /\ j = Quo(a, s) /\ o = Rem(a, s) /\ o \in 0..(s - 1)
          /\ j <= a /\ j * s \in Nat /\ j * s <= a /\ j * s + o = a
    <3>1. /\ Quo(a, s) \in Nat /\ Quo(a, s) <= a /\ Quo(a, s) * s \in Nat /\ Quo(a, s) * s <= a
          /\ Quo(a, s) * s + Rem(a, s) = a
      BY ONLY QuoFacts
    <3>2. Rem(a, s) \in Nat /\ Rem(a, s) \in 0..(s - 1)
      BY ONLY RemFacts
    <3> QED
      BY <3>1, <3>2, Zenon
  <2>3. j \in 0..len /\ j * s < len
    BY ONLY <2>1, <2>2
  <2>4. j \in D
    BY <1>1, <2>3, Zenon DEF D
  <2>5. g[j][o] = IF j * s + o < len THEN bytes[j * s + o + 1] ELSE 0
    BY <1>1, <1>3, <2>2, <2>4, Zenon DEF FrontPage
  <2>6. g[j][o] = bytes[i]
    BY <2>1, <2>2, <2>5, Zenon
  <2>7. ByteAt(g, a) = g[j][o]
    BY <1>1, <1>3, <2>2, <2>4, Zenon DEF ByteAt
  <2> QED
    BY <2>1, <2>6, <2>7, Zenon
<1> QED
  BY <1>5, <1>6, Zenon DEF g

\* The bytes are the same, in a ring of another capacity.
Resized(q, r, n) ==
  /\ RingOK(q) /\ SameEnds(q, r) /\ SameQueues(q, r) /\ q.capacity = n
  /\ AvailableRead(q) = AvailableRead(r) /\ Content(q) = Content(r)

\* resize.
LEMMA ResizeIs ==
  ASSUME NEW r, RingOK(r), NEW n \in Nat \ {0}, n >= PIPE_BUF, n >= AvailableRead(r)
  PROVE  Resized(ResizeTo(r, n), r, n)
<1> DEFINE q == ResizeTo(r, n)
           c == Content(r)
<1>1. PICK len \in 0..n : len = AvailableRead(r) /\ c \in Seq(Bytes) /\ Len(c) = len
  BY RingLevel
<1> DEFINE s == IF len = 0 THEN "Empty" ELSE IF len = n THEN "Full" ELSE "Normal"
           g == FrontPages(c, len)
           t == Rem(len, n)
<1>2. q = WithAll(r, g, n, t, s)
  <2> HIDE DEF c
  <2>1. Len(c) = len
    BY <1>1
  <2> QED
    BY <2>1, Zenon DEF ResizeTo, WithAll, FrontPages, FrontPage, NewTail, Rem, c
<1>3. Shape(n, 0, t, s) /\ Level(n, 0, t, s) = len
  BY FrontShape
<1> HIDE DEF q, c
<1>4. PagesOK(g, n) /\ \A i \in 1..len : ByteAt(g, i - 1) = c[i]
  BY <1>1, FrontBytes
<1> HIDE DEF g, s, t
<1>5. /\ Fields(q) /\ SameEnds(q, r) /\ SameQueues(q, r)
      /\ q.pages = g /\ q.capacity = n /\ q.head = 0 /\ q.tail = t /\ q.status = s
  <2>1. Fields(r)
    BY DEF RingOK
  <2>2. AllSet(q, r, g, n, t, s)
    BY <1>2, <2>1, SetAll, Zenon
  <2> QED
    BY <2>2, Zenon DEF AllSet
<1>6. AvailableRead(q) = len
  BY <1>3, <1>5, ContentIs, Zenon
<1>7. RingOK(q)
  <2>1. Shape(q.capacity, q.head, q.tail, q.status) /\ q.capacity >= PIPE_BUF
    BY <1>3, <1>5, Zenon
  <2>2. EndsOK(q) /\ QueuesOK(q)
    BY <1>5, Zenon DEF EndsOK, QueuesOK, SameEnds, SameQueues, RingOK
  <2> QED
    BY <1>4, <1>5, <2>1, <2>2, Zenon DEF RingOK
<1>8. Content(q) = c
  <2>1. Content(q) = BytesOf(g, n, 0, len)
    BY <1>5, <1>6, ContentIs, Zenon
  <2> DEFINE e == Content(q)
  <2> HIDE DEF e
  <2>2. /\ e \in Seq(Bytes) /\ Len(e) = len
        /\ \A i \in 1..len : e[i] = ByteAt(g, Rem(0 + i - 1, n))
    <3>1. 0 \in 0..(n - 1)
      OBVIOUS
    <3>2. IsBytes(e, g, n, 0, len)
      BY <3>1, <1>4, <2>1, BytesOfSeq DEF e
    <3> QED
      BY <3>2, Zenon DEF IsBytes
  <2>3. ASSUME NEW i \in 1..len
        PROVE  e[i] = c[i]
    <3>1. PICK a \in Nat : a = i - 1 /\ 0 + i - 1 = a /\ a < n
      OBVIOUS
    <3>2. Rem(a, n) = a
      BY ONLY <3>1, RemFacts
    <3> QED
      BY <3>1, <3>2, <1>4, <2>2, Zenon
  <2>4. e = c
    BY ONLY <1>1, <2>2, <2>3, SeqEqual
  <2> QED
    BY <2>4, Zenon DEF e
<1>9. Resized(q, r, n)
  BY <1>1, <1>5, <1>6, <1>7, <1>8, Zenon DEF Resized, c
<1> QED
  BY <1>9, Zenon DEF q

\* The read end is closed and the bytes are dropped.
Dropped(q, r) ==
  /\ RingOK(q) /\ q.read_end_open = FALSE /\ q.write_end_open = r.write_end_open
  /\ SameQueues(q, r) /\ q.capacity = r.capacity
  /\ AvailableRead(q) = 0 /\ Content(q) = <<>>

\* close_read_end.
LEMMA CloseReadIs ==
  ASSUME NEW r, RingOK(r)
  PROVE  Dropped(CloseReadEnd(r), r)
<1> DEFINE q == CloseReadEnd(r)
           m == WithClosed(r, r.tail, "Empty")
<1>1. q = ReclaimConsumedPages(m)
  BY Zenon DEF CloseReadEnd, WithClosed
<1>2. /\ Fields(m) /\ SameQueues(m, r)
      /\ m.read_end_open = FALSE /\ m.write_end_open = r.write_end_open
      /\ m.pages = r.pages /\ m.capacity = r.capacity /\ m.tail = r.tail
      /\ m.head = r.tail /\ m.status = "Empty"
  <2>1. Fields(r)
    BY DEF RingOK
  <2>2. ClosedSet(m, r, r.tail, "Empty")
    BY <2>1, SetClosed, Zenon
  <2> HIDE DEF m
  <2> QED
    BY <2>2, Zenon DEF ClosedSet
<1> HIDE DEF q, m
<1>3. Shape(m.capacity, m.head, m.tail, m.status)
  BY <1>2 DEF RingOK, Shape, Statuses
<1>4. PagesOK(m.pages, m.capacity)
  BY <1>2, Zenon DEF RingOK
<1>5. /\ Fields(q) /\ SameNumbers(q, m) /\ SameEnds(q, m) /\ SameQueues(q, m)
      /\ PagesOK(q.pages, q.capacity)
      /\ AvailableRead(q) = AvailableRead(m) /\ Content(q) = Content(m)
  BY <1>1, <1>2, <1>3, <1>4, ReclaimKeepsBytes
<1>6. AvailableRead(m) = 0
  BY <1>2, Zenon DEF AvailableRead
<1>7. RingOK(q)
  <2>1. Shape(q.capacity, q.head, q.tail, q.status) /\ q.capacity >= PIPE_BUF
    BY <1>2, <1>3, <1>5, Zenon DEF SameNumbers, RingOK
  <2>2. EndsOK(q)
    <3>1. q.read_end_open = FALSE /\ q.write_end_open = r.write_end_open
      BY <1>2, <1>5, Zenon DEF SameEnds
    <3> QED
      BY <3>1, Zenon DEF EndsOK, RingOK
  <2>3. QueuesOK(q)
    BY <1>2, <1>5, Zenon DEF QueuesOK, SameQueues, RingOK
  <2> QED
    BY <1>5, <2>1, <2>2, <2>3, Zenon DEF RingOK
<1>8. Content(q) = <<>>
  <2>1. Content(q) \in Seq(Bytes) /\ Len(Content(q)) = 0
    BY <1>5, <1>6, <1>7, RingLevel
  <2> QED
    BY <2>1, EmptySeq
<1>9. Dropped(q, r)
  BY <1>2, <1>5, <1>6, <1>7, <1>8, Zenon DEF Dropped, SameEnds, SameQueues, SameNumbers
<1> QED
  BY <1>9, Zenon DEF q

-----------------------------------------------------------------------------
(* Queues of waiters *)

\* Every task of s is in q.
Within(s, q) == \A u : Contains(s, u) => Contains(q, u)

\* An empty queue.
LEMMA EmptyQueue == <<>> \in WaiterQueue /\ <<>> \in Seq(Tasks) /\ \A u : ~Contains(<<>>, u)
<1>1. <<>> \in Seq(Tasks) /\ Len(<<>>) = 0
  OBVIOUS
<1>2. IsInjective(<<>>)
  BY DEF IsInjective
<1>3. \A u : ~Contains(<<>>, u)
  BY <1>1 DEF Contains
<1> QED
  BY <1>1, <1>2, <1>3, Zenon DEF WaiterQueue

\* What is in a queue, by index.
LEMMA QueueIs ==
  ASSUME NEW q, q \in WaiterQueue
  PROVE  \E n \in Nat : /\ q \in Seq(Tasks) /\ Len(q) = n /\ DOMAIN q = 1..n
                        /\ \A j, k \in 1..n : q[j] = q[k] => j = k
                        /\ \A k \in 1..n : q[k] \in Tasks
                        /\ \A u : Contains(q, u) <=> \E k \in 1..n : q[k] = u
<1>1. q \in Seq(Tasks) /\ IsInjective(q)
  BY Zenon DEF WaiterQueue
<1>2. PICK n \in Nat : Len(q) = n /\ DOMAIN q = 1..n
  BY <1>1, LenProperties
<1>3. \A k \in 1..n : q[k] \in Tasks
  BY <1>1, <1>2, ElementOfSeq
<1> QED
  BY <1>1, <1>2, <1>3, Zenon DEF IsInjective, Contains

\* register_waiter.
LEMMA RegisteredIs ==
  ASSUME NEW q, q \in WaiterQueue, NEW t \in Tasks
  PROVE  /\ Registered(q, t) \in WaiterQueue
         /\ Contains(Registered(q, t), t) /\ Within(q, Registered(q, t))
<1>1. PICK n \in Nat : /\ q \in Seq(Tasks) /\ Len(q) = n /\ DOMAIN q = 1..n
                       /\ \A j, k \in 1..n : q[j] = q[k] => j = k
                       /\ \A k \in 1..n : q[k] \in Tasks
                       /\ \A u : Contains(q, u) <=> \E k \in 1..n : q[k] = u
  BY QueueIs
<1>2. CASE Contains(q, t)
  BY <1>2, Zenon DEF Registered, Within
<1>3. CASE ~Contains(q, t)
  <2> DEFINE a == Append(q, t)
  <2>1. /\ a \in Seq(Tasks) /\ Len(a) = n + 1
        /\ \A i \in 1..n : a[i] = q[i]
        /\ a[n + 1] = t
    BY <1>1, AppendProperties
  <2>2. DOMAIN a = 1..(n + 1)
    BY <2>1, LenProperties
  <2> HIDE DEF a
  <2>3. \A k \in 1..n : q[k] # t
    BY <1>1, <1>3, Zenon
  <2>4. IsInjective(a)
    <3>1. ASSUME NEW j \in 1..(n + 1), NEW k \in 1..(n + 1), a[j] = a[k]
          PROVE  j = k
      <4>1. (j \in 1..n \/ j = n + 1) /\ (k \in 1..n \/ k = n + 1)
        BY ONLY TRUE
      <4> QED
        BY <4>1, <3>1, <2>1, <2>3, <1>1, Zenon
    <3> QED
      BY <3>1, <2>2, Zenon DEF IsInjective
  <2>5. n + 1 \in 1..(n + 1) /\ \A k \in 1..n : k \in 1..(n + 1)
    BY ONLY TRUE
  <2>6. \A u : Contains(a, u) <=> \E k \in 1..(n + 1) : a[k] = u
    BY <2>1, Zenon DEF Contains
  <2>7. Contains(a, t) /\ Within(q, a)
    <3>1. Contains(a, t)
      BY <2>1, <2>5, <2>6, Zenon
    <3>2. ASSUME NEW u, Contains(q, u)
          PROVE  Contains(a, u)
      <4>1. PICK k \in 1..n : q[k] = u
        BY <1>1, <3>2, Zenon
      <4>2. k \in 1..(n + 1) /\ a[k] = u
        BY <2>1, <2>5, <4>1, Zenon
      <4> QED
        BY <2>6, <4>2, Zenon
    <3> QED
      BY <3>1, <3>2, Zenon DEF Within
  <2>8. Registered(q, t) = a
    BY <1>3, Zenon DEF Registered, a
  <2> QED
    BY <2>1, <2>4, <2>7, <2>8, Zenon DEF WaiterQueue
<1> QED
  BY <1>2, <1>3, Zenon

\* clear_waiter.
LEMMA ClearedIs ==
  ASSUME NEW q, q \in WaiterQueue, NEW t \in Tasks
  PROVE  /\ Cleared(q, t) \in WaiterQueue
         /\ \A u : u # t /\ Contains(q, u) => Contains(Cleared(q, t), u)
<1>1. PICK n \in Nat : /\ q \in Seq(Tasks) /\ Len(q) = n /\ DOMAIN q = 1..n
                       /\ \A j, k \in 1..n : q[j] = q[k] => j = k
                       /\ \A k \in 1..n : q[k] \in Tasks
                       /\ \A u : Contains(q, u) <=> \E k \in 1..n : q[k] = u
  BY QueueIs
<1>2. CASE ~Contains(q, t)
  BY <1>2, Zenon DEF Cleared
<1>3. CASE Contains(q, t)
  <2>1. PICK x \in 1..n : x = (CHOOSE i \in DOMAIN q : q[i] = t) /\ q[x] = t
    <3>1. \E i \in DOMAIN q : q[i] = t
      BY <1>1, <1>3, Zenon
    <3>2. (CHOOSE i \in DOMAIN q : q[i] = t) \in DOMAIN q /\ q[CHOOSE i \in DOMAIN q : q[i] = t] = t
      BY <3>1, Zenon
    <3> QED
      BY <3>2, <1>1, Zenon
  <2> DEFINE a == SubSeq(q, 1, x - 1)
             b == SubSeq(q, x + 1, n)
             c == a \o b
  <2>2. Cleared(q, t) = c
    BY <1>1, <1>3, <2>1, Zenon DEF Cleared, RemoveAt
  <2>3. PICK l \in Nat : l = x - 1 /\ l + 1 = x /\ l <= n
    BY ONLY TRUE
  <2>4. a \in Seq(Tasks) /\ Len(a) = l /\ \A i \in 1..l : a[i] = q[i]
    <3>1. /\ SubSeq(q, 1, l) \in Seq(Tasks) /\ Len(SubSeq(q, 1, l)) = l
          /\ \A i \in 1..l : SubSeq(q, 1, l)[i] = q[i]
      BY ONLY <1>1, <2>3, Prefix
    <3> QED
      BY <3>1, <2>3, Zenon
  <2>5. PICK m \in Nat : /\ m = n - x /\ b \in Seq(Tasks) /\ Len(b) = m
                         /\ \A i \in 1..m : b[i] = q[x + i]
    <3>1. PICK m \in Nat : m = n - x
      BY ONLY TRUE
    <3>2. x \in Nat /\ x <= n
      BY ONLY TRUE
    <3>3. /\ SubSeq(q, x + 1, n) \in Seq(Tasks) /\ Len(SubSeq(q, x + 1, n)) = n - x
          /\ \A i \in 1..(n - x) : SubSeq(q, x + 1, n)[i] = q[x + i]
      BY ONLY <1>1, <3>2, Suffix
    <3> QED
      BY <3>1, <3>3, Zenon
  <2> HIDE DEF a, b
  <2>6. /\ c \in Seq(Tasks) /\ Len(c) = l + m
        /\ \A i \in 1..(l + m) : c[i] = IF i <= l THEN a[i] ELSE b[i - l]
    <3>1. IsConcat(Tasks, a \o b, a, b, l, m)
      BY <2>4, <2>5, ConcatIs, Zenon
    <3> QED
      BY <3>1, Zenon DEF IsConcat
  <2>7. DOMAIN c = 1..(l + m)
    BY ONLY <2>6, LenProperties
  <2> HIDE DEF c
  <2>8. ASSUME NEW i \in 1..(l + m)
        PROVE  \E k \in 1..n : c[i] = q[k] /\ k = IF i <= l THEN i ELSE i + 1
    <3>1. CASE i <= l
      <4>1. i \in 1..l /\ i \in 1..n
        BY ONLY <3>1, <2>3
      <4> QED
        BY <4>1, <3>1, <2>4, <2>6, Zenon
    <3>2. CASE ~(i <= l)
      <4>1. PICK j \in 1..m : j = i - l /\ x + j = i + 1 /\ i + 1 \in 1..n
        BY ONLY <3>2, <2>3, <2>5
      <4> QED
        BY <4>1, <3>2, <2>5, <2>6, Zenon
    <3> QED
      BY <3>1, <3>2, Zenon
  <2>9. IsInjective(c)
    <3>1. ASSUME NEW i \in 1..(l + m), NEW j \in 1..(l + m), c[i] = c[j]
          PROVE  i = j
      <4>1. PICK k \in 1..n : c[i] = q[k] /\ k = IF i <= l THEN i ELSE i + 1
        BY <2>8, Zenon
      <4>2. PICK h \in 1..n : c[j] = q[h] /\ h = IF j <= l THEN j ELSE j + 1
        BY <2>8, Zenon
      <4>3. q[k] = q[h]
        BY <4>1, <4>2, <3>1, Zenon
      <4>4. k = h
        BY <4>3, <1>1, Zenon
      <4> QED
        BY ONLY <4>1, <4>2, <4>4
    <3> QED
      BY <3>1, <2>7, Zenon DEF IsInjective
  <2>10. ASSUME NEW u, u # t, Contains(q, u)
         PROVE  Contains(c, u)
    <3>1. PICK k \in 1..n : q[k] = u
      BY <1>1, <2>10, Zenon
    <3>2. k # x
      BY <2>1, <2>10, <3>1, Zenon
    <3>3. PICK i \in 1..(l + m) : k = IF i <= l THEN i ELSE i + 1
      <4>1. CASE k < x
        <5>1. k \in 1..(l + m) /\ k <= l
          BY ONLY <4>1, <2>3, <2>5
        <5> QED
          BY <5>1, Zenon
      <4>2. CASE k > x
        <5>1. k - 1 \in 1..(l + m) /\ ~(k - 1 <= l) /\ k - 1 + 1 = k
          BY ONLY <4>2, <2>3, <2>5
        <5> QED
          BY <5>1, Zenon
      <4> QED
        BY <3>2, <4>1, <4>2
    <3>4. c[i] = u
      BY <2>8, <3>1, <3>3, Zenon
    <3> QED
      BY <3>4, <2>6, Zenon DEF Contains
  <2> QED
    BY <2>2, <2>6, <2>9, <2>10, Zenon DEF WaiterQueue
<1> QED
  BY <1>2, <1>3, Zenon

\* Two queues, one after the other.
LEMMA JoinQueues ==
  ASSUME NEW a, a \in Seq(Tasks), NEW b, b \in Seq(Tasks)
  PROVE  a \o b \in Seq(Tasks) /\ Within(a, a \o b) /\ Within(b, a \o b)
<1>1. PICK l \in Nat, n \in Nat : Len(a) = l /\ Len(b) = n
  BY LenProperties
<1> DEFINE c == a \o b
<1>2. /\ c \in Seq(Tasks) /\ Len(c) = l + n
      /\ \A i \in 1..(l + n) : c[i] = IF i <= l THEN a[i] ELSE b[i - l]
  BY <1>1, ConcatProperties
<1> HIDE DEF c
<1>3. ASSUME NEW i \in 1..l
      PROVE  \E k \in 1..(l + n) : c[k] = a[i]
  <2>1. i \in 1..(l + n) /\ i <= l
    BY ONLY TRUE
  <2> QED
    BY <1>2, <2>1, Zenon
<1>4. ASSUME NEW i \in 1..n
      PROVE  \E k \in 1..(l + n) : c[k] = b[i]
  <2>1. PICK k \in 1..(l + n) : k = l + i /\ ~(k <= l) /\ k - l = i
    BY ONLY TRUE
  <2> QED
    BY <1>2, <2>1, Zenon
<1>5. ASSUME NEW u, Contains(a, u)
      PROVE  Contains(c, u)
  <2>1. PICK i \in 1..l : a[i] = u
    BY <1>1, <1>5, Zenon DEF Contains
  <2>2. PICK k \in 1..(l + n) : c[k] = u
    BY <1>3, <2>1, Zenon
  <2> QED
    BY <1>2, <2>2, Zenon DEF Contains
<1>6. ASSUME NEW u, Contains(b, u)
      PROVE  Contains(c, u)
  <2>1. PICK i \in 1..n : b[i] = u
    BY <1>1, <1>6, Zenon DEF Contains
  <2>2. PICK k \in 1..(l + n) : c[k] = u
    BY <1>4, <2>1, Zenon
  <2> QED
    BY <1>2, <2>2, Zenon DEF Contains
<1> QED
  BY <1>2, <1>5, <1>6, Zenon DEF c, Within

\* The head of a queue, and the rest.
LEMMA SplitQueue ==
  ASSUME NEW s, s \in Seq(Tasks), s # <<>>
  PROVE  /\ Head(s) \in Tasks /\ Tail(s) \in Seq(Tasks)
         /\ \A u : Contains(s, u) => u = Head(s) \/ Contains(Tail(s), u)
<1>1. PICK n \in Nat \ {0} : Len(s) = n
  BY LenProperties, EmptySeq
<1>2. PICK m \in Nat : /\ Head(s) \in Tasks /\ Tail(s) \in Seq(Tasks) /\ m = n - 1 /\ Len(Tail(s)) = m
                       /\ \A i \in 1..m : Tail(s)[i] = s[i + 1]
                       /\ Head(s) = s[1]
  BY <1>1, HeadTailProperties
<1>3. ASSUME NEW u, Contains(s, u)
      PROVE  u = Head(s) \/ Contains(Tail(s), u)
  <2>1. PICK k \in 1..n : s[k] = u
    BY <1>1, <1>3, Zenon DEF Contains
  <2>2. CASE k = 1
    BY <2>1, <2>2, <1>2, Zenon
  <2>3. CASE k # 1
    <3>1. PICK i \in 1..m : i + 1 = k
      BY ONLY <2>3, <1>2
    <3>2. Tail(s)[i] = u
      BY <3>1, <2>1, <1>2, Zenon
    <3> QED
      BY <3>2, <1>2, Zenon DEF Contains
  <2> QED
    BY <2>2, <2>3, Zenon
<1> QED
  BY <1>2, <1>3, Zenon

-----------------------------------------------------------------------------
(* What the operations of a ring do to those who wait *)

\* Nothing a reader (a writer) waits for has happened.
NoNewData(q, r) == /\ AvailableRead(r) = 0 => AvailableRead(q) = 0
                   /\ r.write_end_open => q.write_end_open
NoNewRoom(q, r) == AvailableWrite(q) <= AvailableWrite(r) /\ (r.read_end_open => q.read_end_open)

\* Everybody but t who waits for the ring is in w, to be woken, or in G, or
\* still queued with nothing new to see.
Effect(q, r, w, G, t) ==
  /\ RingOK(q)
  /\ \A u \in Tasks \ {t} :
       /\ Contains(r.read_waiters, u) =>
            Contains(w, u) \/ (Contains(q.read_waiters, u) /\ NoNewData(q, r))
       /\ Contains(r.write_waiters, u) =>
            Contains(w, u) \/ u \in G \/ (Contains(q.write_waiters, u) /\ NoNewRoom(q, r))
       /\ Contains(r.poll_waiters, u) =>
            \/ Contains(w, u) \/ u \in G
            \/ Contains(q.poll_waiters, u) /\ NoNewData(q, r) /\ NoNewRoom(q, r)

\* The same bytes and ends, with other queues.
LEMMA SameRing ==
  ASSUME NEW r, RingOK(r), NEW q, Fields(q), SameBytes(q, r), SameEnds(q, r), QueuesOK(q)
  PROVE  /\ RingOK(q) /\ AvailableRead(q) = AvailableRead(r) /\ AvailableWrite(q) = AvailableWrite(r)
         /\ Content(q) = Content(r) /\ NoNewData(q, r) /\ NoNewRoom(q, r)
<1>1. RingOK(q)
  BY Zenon DEF RingOK, SameBytes, SameNumbers, SameEnds, EndsOK
<1>2. AvailableRead(q) = AvailableRead(r)
  BY Zenon DEF AvailableRead, SameBytes, SameNumbers
<1>3. AvailableWrite(q) = AvailableWrite(r)
  BY <1>2, Zenon DEF AvailableWrite, SameBytes, SameNumbers
<1>4. Content(q) = Content(r)
  <2>1. Content(q) = BytesOf(q.pages, q.capacity, q.head, AvailableRead(q))
    BY ContentIs, Zenon
  <2>2. Content(r) = BytesOf(r.pages, r.capacity, r.head, AvailableRead(r))
    BY ContentIs, Zenon
  <2> QED
    BY <2>1, <2>2, <1>2, Zenon DEF SameBytes, SameNumbers
<1>5. AvailableWrite(q) <= AvailableWrite(r)
  <2>1. PICK a \in Int : a = AvailableWrite(r)
    BY RingLevel
  <2> QED
    BY <2>1, <1>3
<1> QED
  BY <1>1, <1>2, <1>3, <1>4, <1>5, Zenon DEF NoNewData, NoNewRoom, SameEnds

\* Nothing happens.
LEMMA NoEffect ==
  ASSUME NEW r, RingOK(r), NEW w, NEW G, NEW t
  PROVE  Effect(r, r, w, G, t)
<1>1. NoNewData(r, r) /\ NoNewRoom(r, r)
  <2>1. Fields(r) /\ SameBytes(r, r) /\ SameEnds(r, r) /\ QueuesOK(r)
    BY Zenon DEF RingOK, SameBytes, SameNumbers, SameEnds
  <2> QED
    BY <2>1, SameRing, Zenon
<1> QED
  BY <1>1, Zenon DEF Effect

\* A queue gets longer.
LEMMA QueueEffect ==
  ASSUME NEW r, RingOK(r), NEW q, Fields(q), SameBytes(q, r), SameEnds(q, r), QueuesOK(q),
         NEW w, NEW G, NEW t,
         Within(r.read_waiters, q.read_waiters), Within(r.write_waiters, q.write_waiters),
         \A u : u # t /\ Contains(r.poll_waiters, u) => Contains(q.poll_waiters, u)
  PROVE  Effect(q, r, w, G, t)
<1>1. RingOK(q) /\ NoNewData(q, r) /\ NoNewRoom(q, r)
  BY SameRing, Zenon
<1> QED
  BY <1>1, Zenon DEF Effect, Within

\* Only queues change.
Quiet(q, r, w, G, t) == Effect(q, r, w, G, t) /\ SameEnds(q, r) /\ SameBytes(q, r)

\* A reader queues.
LEMMA ReaderQueued ==
  ASSUME NEW r, RingOK(r), NEW t \in Tasks, NEW w, NEW G
  PROVE  /\ Quiet(WithReadQueue(r, Registered(r.read_waiters, t)), r, w, G, t)
         /\ Contains(WithReadQueue(r, Registered(r.read_waiters, t)).read_waiters, t)
<1> DEFINE x == Registered(r.read_waiters, t)
           q == WithReadQueue(r, x)
<1>1. QueuesOK(r) /\ Fields(r)
  BY Zenon DEF RingOK
<1>2. x \in WaiterQueue /\ Contains(x, t) /\ Within(r.read_waiters, x)
  BY <1>1, RegisteredIs, Zenon DEF QueuesOK
<1> HIDE DEF x
<1>3. ReadQueueSet(q, r, x)
  BY <1>1, SetReadQueue, Zenon
<1> HIDE DEF q
<1>4. /\ Fields(q) /\ SameBytes(q, r) /\ SameEnds(q, r) /\ QueuesOK(q)
      /\ Within(r.read_waiters, q.read_waiters) /\ Within(r.write_waiters, q.write_waiters)
      /\ \A u : u # t /\ Contains(r.poll_waiters, u) => Contains(q.poll_waiters, u)
      /\ Contains(q.read_waiters, t)
  BY <1>1, <1>2, <1>3, Zenon DEF ReadQueueSet, QueuesOK, Within
<1>5. Effect(q, r, w, G, t)
  BY <1>4, QueueEffect, Zenon
<1> QED
  BY <1>4, <1>5, Zenon DEF q, x, Quiet

\* A writer queues.
LEMMA WriterQueued ==
  ASSUME NEW r, RingOK(r), NEW t \in Tasks, NEW w, NEW G
  PROVE  /\ Quiet(WithWriteQueue(r, Registered(r.write_waiters, t)), r, w, G, t)
         /\ Contains(WithWriteQueue(r, Registered(r.write_waiters, t)).write_waiters, t)
<1> DEFINE x == Registered(r.write_waiters, t)
           q == WithWriteQueue(r, x)
<1>1. QueuesOK(r) /\ Fields(r)
  BY Zenon DEF RingOK
<1>2. x \in WaiterQueue /\ Contains(x, t) /\ Within(r.write_waiters, x)
  BY <1>1, RegisteredIs, Zenon DEF QueuesOK
<1> HIDE DEF x
<1>3. WriteQueueSet(q, r, x)
  BY <1>1, SetWriteQueue, Zenon
<1> HIDE DEF q
<1>4. /\ Fields(q) /\ SameBytes(q, r) /\ SameEnds(q, r) /\ QueuesOK(q)
      /\ Within(r.read_waiters, q.read_waiters) /\ Within(r.write_waiters, q.write_waiters)
      /\ \A u : u # t /\ Contains(r.poll_waiters, u) => Contains(q.poll_waiters, u)
      /\ Contains(q.write_waiters, t)
  BY <1>1, <1>2, <1>3, Zenon DEF WriteQueueSet, QueuesOK, Within
<1>5. Effect(q, r, w, G, t)
  BY <1>4, QueueEffect, Zenon
<1> QED
  BY <1>4, <1>5, Zenon DEF q, x, Quiet

\* A poller queues.
LEMMA PollerQueued ==
  ASSUME NEW r, RingOK(r), NEW t \in Tasks, NEW w, NEW G
  PROVE  /\ Quiet(WithPollQueue(r, Registered(r.poll_waiters, t)), r, w, G, t)
         /\ Contains(WithPollQueue(r, Registered(r.poll_waiters, t)).poll_waiters, t)
<1> DEFINE x == Registered(r.poll_waiters, t)
           q == WithPollQueue(r, x)
<1>1. QueuesOK(r) /\ Fields(r)
  BY Zenon DEF RingOK
<1>2. x \in WaiterQueue /\ Contains(x, t) /\ Within(r.poll_waiters, x)
  BY <1>1, RegisteredIs, Zenon DEF QueuesOK
<1> HIDE DEF x
<1>3. PollQueueSet(q, r, x)
  BY <1>1, SetPollQueue, Zenon
<1> HIDE DEF q
<1>4. /\ Fields(q) /\ SameBytes(q, r) /\ SameEnds(q, r) /\ QueuesOK(q)
      /\ Within(r.read_waiters, q.read_waiters) /\ Within(r.write_waiters, q.write_waiters)
      /\ \A u : u # t /\ Contains(r.poll_waiters, u) => Contains(q.poll_waiters, u)
      /\ Contains(q.poll_waiters, t)
  BY <1>1, <1>2, <1>3, Zenon DEF PollQueueSet, QueuesOK, Within
<1>5. Effect(q, r, w, G, t)
  BY <1>4, QueueEffect, Zenon
<1> QED
  BY <1>4, <1>5, Zenon DEF q, x, Quiet

\* A poller leaves the queue.
LEMMA PollerCleared ==
  ASSUME NEW r, RingOK(r), NEW t \in Tasks, NEW w, NEW G
  PROVE  Quiet(WithPollQueue(r, Cleared(r.poll_waiters, t)), r, w, G, t)
<1> DEFINE x == Cleared(r.poll_waiters, t)
           q == WithPollQueue(r, x)
<1>1. QueuesOK(r) /\ Fields(r)
  BY Zenon DEF RingOK
<1>2. x \in WaiterQueue /\ \A u : u # t /\ Contains(r.poll_waiters, u) => Contains(x, u)
  BY <1>1, ClearedIs, Zenon DEF QueuesOK
<1> HIDE DEF x
<1>3. PollQueueSet(q, r, x)
  BY <1>1, SetPollQueue, Zenon
<1> HIDE DEF q
<1>4. /\ Fields(q) /\ SameBytes(q, r) /\ SameEnds(q, r) /\ QueuesOK(q)
      /\ Within(r.read_waiters, q.read_waiters) /\ Within(r.write_waiters, q.write_waiters)
      /\ \A u : u # t /\ Contains(r.poll_waiters, u) => Contains(q.poll_waiters, u)
  BY <1>1, <1>2, <1>3, Zenon DEF PollQueueSet, QueuesOK, Within
<1>5. Effect(q, r, w, G, t)
  BY <1>4, QueueEffect, Zenon
<1> QED
  BY <1>4, <1>5, Zenon DEF q, x, Quiet

\* End of file: the pollers are taken, to be woken.
LEMMA PollersWoken ==
  ASSUME NEW r, RingOK(r), NEW w, NEW G, NEW t, Within(r.poll_waiters, w)
  PROVE  Quiet(WithPollQueue(r, <<>>), r, w, G, t)
<1> DEFINE q == WithPollQueue(r, <<>>)
<1>1. QueuesOK(r) /\ Fields(r)
  BY Zenon DEF RingOK
<1>2. <<>> \in WaiterQueue
  BY EmptyQueue
<1>3. PollQueueSet(q, r, <<>>)
  BY <1>1, SetPollQueue, Zenon
<1> HIDE DEF q
<1>4. Fields(q) /\ SameBytes(q, r) /\ SameEnds(q, r) /\ QueuesOK(q)
  BY <1>1, <1>2, <1>3, Zenon DEF PollQueueSet, QueuesOK
<1>5. RingOK(q) /\ NoNewData(q, r) /\ NoNewRoom(q, r)
  BY <1>4, SameRing, Zenon
<1>6. q.read_waiters = r.read_waiters /\ q.write_waiters = r.write_waiters
  BY <1>3, Zenon DEF PollQueueSet
<1>7. Effect(q, r, w, G, t)
  BY <1>5, <1>6, Zenon DEF Effect, Within
<1> QED
  BY <1>4, <1>7, Zenon DEF q, Quiet

\* Those who wait to write, and to read.
LEMMA WaitersIn ==
  ASSUME NEW r, RingOK(r)
  PROVE  /\ Writers(r) \in Seq(Tasks) /\ Readers(r) \in Seq(Tasks)
         /\ Within(r.write_waiters, Writers(r)) /\ Within(r.poll_waiters, Writers(r))
         /\ Within(r.read_waiters, Readers(r)) /\ Within(r.poll_waiters, Readers(r))
<1>1. /\ r.read_waiters \in Seq(Tasks) /\ r.write_waiters \in Seq(Tasks)
      /\ r.poll_waiters \in Seq(Tasks)
  BY Zenon DEF RingOK, QueuesOK, WaiterQueue
<1> QED
  BY <1>1, JoinQueues, Zenon DEF Writers, Readers

\* Writers and pollers are taken, from a ring whose bytes are right.
LEMMA WritersGone ==
  ASSUME NEW r, RingOK(r)
  PROVE  /\ RingOK(TakeWriters(r)) /\ SameEnds(TakeWriters(r), r) /\ SameBytes(TakeWriters(r), r)
         /\ TakeWriters(r).read_waiters = r.read_waiters
         /\ AvailableRead(TakeWriters(r)) = AvailableRead(r) /\ Content(TakeWriters(r)) = Content(r)
<1> DEFINE q == TakeWriters(r)
<1>1. QueuesOK(r) /\ Fields(r)
  BY Zenon DEF RingOK
<1>2. WritersTaken(q, r)
  BY <1>1, SetTakenWriters, Zenon
<1> HIDE DEF q
<1>3. /\ Fields(q) /\ SameBytes(q, r) /\ SameEnds(q, r) /\ QueuesOK(q)
      /\ q.read_waiters = r.read_waiters
  BY <1>1, <1>2, EmptyQueue, Zenon DEF WritersTaken, QueuesOK
<1>4. RingOK(q) /\ AvailableRead(q) = AvailableRead(r) /\ Content(q) = Content(r)
  BY <1>3, SameRing, Zenon
<1> QED
  BY <1>3, <1>4, Zenon DEF q

\* Readers and pollers are taken.
LEMMA ReadersGone ==
  ASSUME NEW r, RingOK(r)
  PROVE  /\ RingOK(TakeReaders(r)) /\ SameEnds(TakeReaders(r), r) /\ SameBytes(TakeReaders(r), r)
         /\ TakeReaders(r).write_waiters = r.write_waiters
         /\ AvailableRead(TakeReaders(r)) = AvailableRead(r) /\ Content(TakeReaders(r)) = Content(r)
<1> DEFINE q == TakeReaders(r)
<1>1. QueuesOK(r) /\ Fields(r)
  BY Zenon DEF RingOK
<1>2. ReadersTaken(q, r)
  BY <1>1, SetTakenReaders, Zenon
<1> HIDE DEF q
<1>3. /\ Fields(q) /\ SameBytes(q, r) /\ SameEnds(q, r) /\ QueuesOK(q)
      /\ q.write_waiters = r.write_waiters
  BY <1>1, <1>2, EmptyQueue, Zenon DEF ReadersTaken, QueuesOK
<1>4. RingOK(q) /\ AvailableRead(q) = AvailableRead(r) /\ Content(q) = Content(r)
  BY <1>3, SameRing, Zenon
<1> QED
  BY <1>3, <1>4, Zenon DEF q

\* n bytes leave, and the writers are woken.
Drawn(q, r, n) ==
  /\ SameEnds(q, r) /\ q.capacity = r.capacity
  /\ Content(q) = SubSeq(Content(r), n + 1, AvailableRead(r))

\* It has no other effect.
LEMMA TookEffect ==
  ASSUME NEW r, RingOK(r), NEW n \in Nat \ {0}, n <= AvailableRead(r), NEW m, Took(m, r, n),
         NEW w, Within(Writers(r), w), NEW G, NEW t
  PROVE  Effect(TakeWriters(m), r, w, G, t) /\ Drawn(TakeWriters(m), r, n)
<1> DEFINE q == TakeWriters(m)
<1>1. RingOK(m) /\ SameEnds(m, r) /\ SameQueues(m, r) /\ m.capacity = r.capacity
      /\ Content(m) = SubSeq(Content(r), n + 1, AvailableRead(r))
  BY Zenon DEF Took
<1>2. /\ RingOK(q) /\ SameEnds(q, m) /\ SameBytes(q, m) /\ q.read_waiters = m.read_waiters
      /\ Content(q) = Content(m)
  BY <1>1, WritersGone, Zenon
<1> HIDE DEF q
<1>3. ~(AvailableRead(r) = 0)
  BY RingLevel
<1>4. NoNewData(q, r)
  BY <1>1, <1>2, <1>3, Zenon DEF NoNewData, SameEnds
<1>5. q.read_waiters = r.read_waiters
  BY <1>1, <1>2, Zenon DEF SameQueues
<1>6. Within(r.write_waiters, w) /\ Within(r.poll_waiters, w)
  BY WaitersIn, Zenon DEF Within
<1>7. Effect(q, r, w, G, t)
  BY <1>2, <1>4, <1>5, <1>6, Zenon DEF Effect, Within
<1>8. Drawn(q, r, n)
  BY <1>1, <1>2, Zenon DEF Drawn, SameEnds, SameBytes, SameNumbers
<1> QED
  BY <1>7, <1>8, Zenon DEF q

\* Bytes come, and the readers are woken.
Fed(q, r, d) ==
  /\ SameEnds(q, r) /\ q.capacity = r.capacity
  /\ Content(q) = Content(r) \o d

\* It has no other effect.
LEMMA GaveEffect ==
  ASSUME NEW r, RingOK(r), NEW d, Len(d) \in Nat, NEW m, Gave(m, r, d),
         NEW w, Within(Readers(r), w), NEW G, NEW t
  PROVE  /\ Effect(TakeReaders(m), r, w, G, t) /\ Fed(TakeReaders(m), r, d)
         /\ Readers(r) = <<>> => Effect(m, r, w, G, t) /\ Fed(m, r, d)
<1> DEFINE q == TakeReaders(m)
<1>1. /\ RingOK(m) /\ SameEnds(m, r) /\ SameQueues(m, r) /\ m.capacity = r.capacity
      /\ AvailableRead(m) = AvailableRead(r) + Len(d) /\ Content(m) = Content(r) \o d
  BY Zenon DEF Gave
<1>2. /\ RingOK(q) /\ SameEnds(q, m) /\ SameBytes(q, m) /\ q.write_waiters = m.write_waiters
      /\ Content(q) = Content(m) /\ AvailableRead(q) = AvailableRead(m)
  BY <1>1, ReadersGone, Zenon
<1> HIDE DEF q
<1>3. q.capacity = r.capacity
  BY <1>1, <1>2, Zenon DEF SameBytes, SameNumbers
<1>4. AvailableWrite(q) <= AvailableWrite(r) /\ AvailableWrite(m) <= AvailableWrite(r)
  <2>1. PICK cap \in Nat, a \in Nat : /\ cap = r.capacity /\ a = AvailableRead(r)
                                      /\ AvailableWrite(r) = cap - a
    BY RingLevel
  <2>2. PICK l \in Nat : l = Len(d)
    OBVIOUS
  <2>3. AvailableRead(q) = a + l /\ AvailableRead(m) = a + l
    BY <1>1, <1>2, <2>1, <2>2, Zenon
  <2>4. AvailableWrite(q) = cap - (a + l) /\ AvailableWrite(m) = cap - (a + l)
    BY <1>1, <1>2, <1>3, <2>1, <2>3, RingLevel, Zenon
  <2> QED
    BY ONLY <2>1, <2>4
<1>5. NoNewRoom(q, r) /\ NoNewRoom(m, r)
  BY <1>1, <1>2, <1>4, Zenon DEF NoNewRoom, SameEnds
<1>6. q.write_waiters = r.write_waiters /\ m.write_waiters = r.write_waiters
  BY <1>1, <1>2, Zenon DEF SameQueues
<1>7. Within(r.read_waiters, Readers(r)) /\ Within(r.poll_waiters, Readers(r))
  BY WaitersIn, Zenon
<1>8. Effect(q, r, w, G, t)
  BY <1>2, <1>5, <1>6, <1>7, Zenon DEF Effect, Within
<1>9. Fed(q, r, d) /\ Fed(m, r, d)
  BY <1>1, <1>2, <1>3, Zenon DEF Fed, SameEnds
<1>10. ASSUME Readers(r) = <<>>
       PROVE  Effect(m, r, w, G, t)
  <2>1. \A u : ~Contains(r.read_waiters, u) /\ ~Contains(r.poll_waiters, u)
    BY <1>7, <1>10, EmptyQueue, Zenon DEF Within
  <2> QED
    BY <1>1, <1>5, <1>6, <2>1, Zenon DEF Effect
<1> QED
  BY <1>8, <1>9, <1>10, Zenon DEF q

\* A resize: those who wait for room are in G if the capacity grows.
LEMMA ResizeEffect ==
  ASSUME NEW r, RingOK(r), NEW n \in Nat \ {0}, NEW q, Resized(q, r, n), NEW w, NEW G, NEW t,
         n > r.capacity => ToSet(Writers(r)) \subseteq G
  PROVE  Effect(q, r, w, G, t)
<1>1. /\ RingOK(q) /\ SameEnds(q, r) /\ SameQueues(q, r) /\ q.capacity = n
      /\ AvailableRead(q) = AvailableRead(r)
  BY Zenon DEF Resized
<1>2. NoNewData(q, r)
  BY <1>1, Zenon DEF NoNewData, SameEnds
<1>3. PICK cap \in Nat : cap = r.capacity
  BY RingLevel
<1>4. CASE n > cap
  <2>1. \A u : Contains(Writers(r), u) => u \in ToSet(Writers(r))
    <3>1. Writers(r) \in Seq(Tasks)
      BY WaitersIn, Zenon
    <3>2. DOMAIN Writers(r) = 1..Len(Writers(r))
      BY <3>1, LenProperties
    <3> QED
      BY <3>2, Zenon DEF Contains, ToSet
  <2>2. \A u : Contains(r.write_waiters, u) \/ Contains(r.poll_waiters, u) => u \in G
    BY <1>3, <1>4, <2>1, WaitersIn, Zenon DEF Within
  <2> QED
    BY <1>1, <1>2, <2>2, Zenon DEF Effect, SameQueues
<1>5. CASE ~(n > cap)
  <2>1. PICK a \in Nat : a = AvailableRead(r) /\ AvailableWrite(r) = cap - a
    BY <1>3, RingLevel
  <2>2. AvailableWrite(q) = n - a
    BY <1>1, <2>1, RingLevel, Zenon
  <2>3. AvailableWrite(q) <= AvailableWrite(r)
    BY ONLY <1>5, <2>1, <2>2
  <2>4. NoNewRoom(q, r)
    BY <1>1, <2>3, Zenon DEF NoNewRoom, SameEnds
  <2> QED
    BY <1>1, <1>2, <2>4, Zenon DEF Effect, SameQueues
<1> QED
  BY <1>4, <1>5, Zenon

\* The last reader goes, and the writers are woken.
LEMMA CloseReadEffect ==
  ASSUME NEW r, RingOK(r), NEW m, Dropped(m, r), NEW w, Within(Writers(r), w), NEW G, NEW t
  PROVE  /\ Effect(TakeWriters(m), r, w, G, t)
         /\ TakeWriters(m).read_end_open = FALSE /\ TakeWriters(m).write_end_open = r.write_end_open
         /\ TakeWriters(m).capacity = r.capacity /\ Content(TakeWriters(m)) = <<>>
<1> DEFINE q == TakeWriters(m)
<1>1. /\ RingOK(m) /\ m.read_end_open = FALSE /\ m.write_end_open = r.write_end_open
      /\ SameQueues(m, r) /\ m.capacity = r.capacity /\ AvailableRead(m) = 0 /\ Content(m) = <<>>
  BY Zenon DEF Dropped
<1>2. /\ RingOK(q) /\ SameEnds(q, m) /\ SameBytes(q, m) /\ q.read_waiters = m.read_waiters
      /\ Content(q) = Content(m) /\ AvailableRead(q) = AvailableRead(m)
  BY <1>1, WritersGone, Zenon
<1> HIDE DEF q
<1>3. /\ q.read_end_open = FALSE /\ q.write_end_open = r.write_end_open
      /\ q.capacity = r.capacity /\ Content(q) = <<>> /\ AvailableRead(q) = 0
      /\ q.read_waiters = r.read_waiters
  BY <1>1, <1>2, Zenon DEF SameEnds, SameBytes, SameNumbers, SameQueues
<1>4. NoNewData(q, r)
  BY <1>3, Zenon DEF NoNewData
<1>5. Within(r.write_waiters, w) /\ Within(r.poll_waiters, w)
  BY WaitersIn, Zenon DEF Within
<1>6. Effect(q, r, w, G, t)
  BY <1>2, <1>3, <1>4, <1>5, Zenon DEF Effect, Within
<1> QED
  BY <1>3, <1>6, Zenon DEF q

\* The last writer goes, and the readers are woken.
LEMMA CloseWriteEffect ==
  ASSUME NEW r, RingOK(r), NEW w, Within(Readers(r), w), NEW G, NEW t
  PROVE  LET q == TakeReaders([r EXCEPT !.write_end_open = FALSE])
         IN /\ Effect(q, r, w, G, t)
            /\ q.read_end_open = r.read_end_open /\ q.write_end_open = FALSE
            /\ q.capacity = r.capacity /\ Content(q) = Content(r)
<1> DEFINE m == WithWriteClosed(r)
           q == TakeReaders(m)
<1>1. QueuesOK(r) /\ Fields(r)
  BY Zenon DEF RingOK
<1>2. WriteClosedSet(m, r)
  BY <1>1, SetWriteClosed, Zenon
<1>3. q = TakeReaders([r EXCEPT !.write_end_open = FALSE])
  BY Zenon DEF WithWriteClosed
<1> HIDE DEF m
<1>4. ReadersTaken(q, m)
  BY <1>2, SetTakenReaders, Zenon DEF WriteClosedSet
<1> HIDE DEF q
<1>5. /\ Fields(q) /\ SameBytes(q, r) /\ q.read_end_open = r.read_end_open
      /\ q.write_end_open = FALSE /\ q.write_waiters = r.write_waiters
      /\ q.read_waiters = <<>> /\ q.poll_waiters = <<>>
  BY <1>2, <1>4, Zenon DEF WriteClosedSet, ReadersTaken, SameBytes, SameNumbers, SameEnds, SameQueues
<1>6. QueuesOK(q) /\ EndsOK(q)
  BY <1>1, <1>5, EmptyQueue, Zenon DEF QueuesOK, EndsOK, RingOK
<1>7. RingOK(q)
  BY <1>5, <1>6, Zenon DEF RingOK, SameBytes, SameNumbers
<1>8. AvailableRead(q) = AvailableRead(r)
  BY <1>5, Zenon DEF AvailableRead, SameBytes, SameNumbers
<1>9. AvailableWrite(q) <= AvailableWrite(r)
  <2>1. AvailableWrite(q) = AvailableWrite(r)
    BY <1>5, <1>8, Zenon DEF AvailableWrite, SameBytes, SameNumbers
  <2>2. PICK a \in Int : a = AvailableWrite(r)
    BY RingLevel
  <2> QED
    BY <2>1, <2>2
<1>10. NoNewRoom(q, r)
  BY <1>5, <1>9, Zenon DEF NoNewRoom
<1>11. Within(r.read_waiters, w) /\ Within(r.poll_waiters, w)
  BY WaitersIn, Zenon DEF Within
<1>12. Effect(q, r, w, G, t)
  BY <1>5, <1>7, <1>10, <1>11, Zenon DEF Effect, Within
<1>13. Content(q) = Content(r) /\ q.capacity = r.capacity
  <2>1. Content(q) = BytesOf(q.pages, q.capacity, q.head, AvailableRead(q))
    BY ContentIs, Zenon
  <2>2. Content(r) = BytesOf(r.pages, r.capacity, r.head, AvailableRead(r))
    BY ContentIs, Zenon
  <2> QED
    BY <2>1, <2>2, <1>5, <1>8, Zenon DEF SameBytes, SameNumbers
<1> QED
  BY <1>3, <1>5, <1>12, <1>13, Zenon

-----------------------------------------------------------------------------
(* Where a task is in its call *)

Labels == {"read", "write", "writev", "waitin", "waitout", "transfer", "store", "peek", "discard",
           "scan", "enlist", "rescan", "delist", "delist ready", "close", "resize", "done"}

Aux == [done : Nat, room : Nat, peeked : Seq(Bytes), i : Nat, hit : BOOLEAN]

Polling == {"scan", "enlist", "rescan", "delist", "delist ready"}

\* At label a of call c, with locals x: what has been done is part of what was
\* asked for, and a poll is at one of its descriptors.
CallOK(c, a, x) ==
  \/ c.op = "read" /\ a = "read"
  \/ c.op \in {"write", "writev"} /\ a = c.op /\ x.done < Len(c.data)
  \/ c.op = "splice" /\ a \in {"waitin", "waitout", "transfer"} /\ x.done < c.n
  \/ c.op = "drain" /\ a = "waitin" /\ x.done = 0
  \/ c.op = "drain" /\ a = "peek" /\ x.done <= x.room
  \/ c.op = "drain" /\ a = "discard" /\ x.done + Len(x.peeked) <= x.room
  \/ c.op = "fill" /\ a = "waitout" /\ x.done < Len(c.data)
  \/ c.op = "fill" /\ a = "store" /\ x.done + x.room <= Len(c.data)
  \/ c.op = "poll" /\ a \in Polling /\ x.i \in 1..Len(c.fds)
  \/ c.op = "close" /\ a = "close"
  \/ c.op = "resize" /\ a = "resize"

TaskOK(pr, a, x) ==
  /\ pr \in Seq(Calls) /\ x \in Aux /\ a \in Labels
  /\ pr = <<>> => a = "done"
  /\ pr # <<>> => CallOK(Head(pr), a, x)

\* The fields of a call.
CallFields(c) ==
  /\ c.op \in {"read", "splice", "drain"} => c.pipe \in Pipes /\ c.n \in Nat \ {0}
  /\ c.op \in {"write", "writev"} => c.pipe \in Pipes /\ c.data \in Seq(Bytes) /\ c.data # <<>>
  /\ c.op \in {"splice", "fill"} => c.out \in Pipes
  /\ c.op = "splice" => c.pipe # c.out
  /\ c.op = "fill" => c.data \in Seq(Bytes) /\ c.data # <<>>
  /\ c.op = "poll" => c.fds \in Seq(Poll) /\ c.fds # <<>>
  /\ c.op = "close" => c.pipe \in Pipes /\ c.end \in {"r", "w"}
  /\ c.op = "resize" => c.pipe \in Pipes /\ c.n \in Nat

Ops == {"read", "write", "writev", "splice", "drain", "fill", "poll", "close", "resize"}

\* They are what they should be.
LEMMA CallIs ==
  ASSUME NEW c, c \in Calls
  PROVE  CallFields(c) /\ c.op \in Ops
<1>1. CASE c \in [op : {"read"}, pipe : Pipes, n : Count, nonblock : BOOLEAN, all : BOOLEAN]
  <2>1. c.op = "read" /\ c.pipe \in Pipes /\ c.n \in Nat \ {0}
    BY <1>1 DEF Count
  <2> QED
    BY <2>1 DEF CallFields, Ops
<1>2. CASE c \in [op : {"write", "writev"}, pipe : Pipes, data : Data, nonblock : BOOLEAN]
  <2>1. c.op \in {"write", "writev"} /\ c.pipe \in Pipes /\ c.data \in Data
    BY <1>2
  <2> QED
    BY <2>1 DEF CallFields, Ops, Data
<1>3. CASE c \in {x \in [op : {"splice"}, pipe : Pipes, out : Pipes, n : Count, nonblock : BOOLEAN] :
                    x.pipe # x.out}
  <2>1. c.op = "splice" /\ c.pipe \in Pipes /\ c.out \in Pipes /\ c.n \in Nat \ {0} /\ c.pipe # c.out
    BY <1>3 DEF Count
  <2> QED
    BY <2>1 DEF CallFields, Ops
<1>4. CASE c \in [op : {"drain"}, pipe : Pipes, n : Count, nonblock : BOOLEAN]
  <2>1. c.op = "drain" /\ c.pipe \in Pipes /\ c.n \in Nat \ {0}
    BY <1>4 DEF Count
  <2> QED
    BY <2>1 DEF CallFields, Ops
<1>5. CASE c \in [op : {"fill"}, out : Pipes, data : Data, nonblock : BOOLEAN]
  <2>1. c.op = "fill" /\ c.out \in Pipes /\ c.data \in Data
    BY <1>5
  <2> QED
    BY <2>1 DEF CallFields, Ops, Data
<1>6. CASE c \in [op : {"poll"}, fds : Seq(Poll) \ {<<>>}]
  <2>1. c.op = "poll" /\ c.fds \in Seq(Poll) /\ c.fds # <<>>
    BY <1>6
  <2> QED
    BY <2>1 DEF CallFields, Ops
<1>7. CASE c \in [op : {"close"}, pipe : Pipes, end : {"r", "w"}]
  <2>1. c.op = "close" /\ c.pipe \in Pipes /\ c.end \in {"r", "w"}
    BY <1>7
  <2> QED
    BY <2>1 DEF CallFields, Ops
<1>8. CASE c \in [op : {"resize"}, pipe : Pipes, n : Nat]
  <2>1. c.op = "resize" /\ c.pipe \in Pipes /\ c.n \in Nat
    BY <1>8
  <2> QED
    BY <2>1 DEF CallFields, Ops
<1> QED
  BY <1>1, <1>2, <1>3, <1>4, <1>5, <1>6, <1>7, <1>8, Zenon DEF Calls

\* The call a task is in.
LEMMA CurrentCall ==
  ASSUME NEW pr, NEW a, NEW x, TaskOK(pr, a, x), a # "done"
  PROVE  /\ pr # <<>> /\ Head(pr) \in Calls /\ Tail(pr) \in Seq(Calls)
         /\ CallFields(Head(pr)) /\ Head(pr).op \in Ops /\ CallOK(Head(pr), a, x)
<1>1. pr # <<>> /\ pr \in Seq(Calls) /\ CallOK(Head(pr), a, x)
  BY Zenon DEF TaskOK
<1>2. Head(pr) \in Calls /\ Tail(pr) \in Seq(Calls)
  BY <1>1, HeadTailProperties
<1> QED
  BY <1>1, <1>2, CallIs, Zenon

\* NoAux is for the beginning of a call.
LEMMA NoAuxIs == NoAux \in Aux /\ NoAux.done = 0 /\ NoAux.i = 1
BY DEF NoAux, Aux

\* The labels where a call begins.
LEMMA EntryIs ==
  ASSUME NEW pr, pr \in Seq(Calls)
  PROVE  /\ TaskOK(pr, Entry(pr), NoAux)
         /\ Entry(pr) \notin {"enlist", "rescan"}
<1>1. CASE pr = <<>>
  <2>1. Entry(pr) = "done"
    BY <1>1 DEF Entry
  <2> QED
    BY <2>1, <1>1, NoAuxIs DEF TaskOK, Labels
<1>2. CASE pr # <<>>
  <2> DEFINE c == Head(pr)
  <2>1. CallFields(c) /\ c.op \in Ops
    <3>1. c \in Calls
      BY <1>2, HeadTailProperties
    <3> QED
      BY <3>1, CallIs, Zenon
  <2>2. Entry(pr) = IF c.op \in {"splice", "drain"} THEN "waitin"
                    ELSE IF c.op = "fill" THEN "waitout"
                    ELSE IF c.op = "poll" THEN "scan" ELSE c.op
    BY <1>2, Zenon DEF Entry
  <2> HIDE DEF c
  <2>3. (c.op \in {"write", "writev", "fill"} => 0 < Len(c.data)) /\ (c.op = "poll" => 1 \in 1..Len(c.fds))
    <3>1. ASSUME c.op \in {"write", "writev", "fill"}
          PROVE  0 < Len(c.data)
      <4>1. c.data \in Seq(Bytes) /\ c.data # <<>>
        BY <2>1, <3>1 DEF CallFields
      <4> QED
        BY <4>1, LenProperties, EmptySeq
    <3>2. ASSUME c.op = "poll"
          PROVE  1 \in 1..Len(c.fds)
      <4>1. c.fds \in Seq(Poll) /\ c.fds # <<>>
        BY <2>1, <3>2 DEF CallFields
      <4> QED
        BY <4>1, LenProperties, EmptySeq
    <3> QED
      BY <3>1, <3>2, Zenon
  <2>4. c.op \in {"splice"} => 0 < c.n
    BY <2>1 DEF CallFields
  <2> DEFINE e == Entry(pr)
             x == NoAux
  <2>5. x.done = 0 /\ x.i = 1
    BY NoAuxIs, Zenon
  <2> HIDE DEF e, x
  <2>6. e = IF c.op \in {"splice", "drain"} THEN "waitin"
                    ELSE IF c.op = "fill" THEN "waitout"
                    ELSE IF c.op = "poll" THEN "scan" ELSE c.op
    BY <2>2, Zenon DEF e
  <2>7. c.op \in Ops
    BY <2>1
  <2>8. CallOK(c, e, x)
    BY ONLY <2>3, <2>4, <2>5, <2>6, <2>7 DEF CallOK, Ops, Polling
  <2>9. e \in Labels /\ e \notin {"enlist", "rescan"}
    BY ONLY <2>6, <2>7 DEF Labels, Ops
  <2> QED
    BY <1>2, <2>8, <2>9, NoAuxIs, Zenon DEF TaskOK, c, e, x
<1> QED
  BY <1>1, <1>2, Zenon

-----------------------------------------------------------------------------
(* The invariant *)

Sleeping == Reading \cup Writing \cup {"delist"}
Blocked  == {"block", "asleep"}

\* Rings of all pipes.
IsRings(rs) == /\ rs = [p \in Pipes |-> rs[p]]
               /\ \A p \in Pipes : RingOK(rs[p])

Types ==
  /\ prog = [t \in Tasks |-> prog[t]]
  /\ at = [t \in Tasks |-> at[t]]
  /\ aux = [t \in Tasks |-> aux[t]]
  /\ st \in [Tasks -> {"run", "block", "asleep", "awake"}]
  /\ token \in [Tasks -> BOOLEAN] /\ intr \in [Tasks -> BOOLEAN]
  /\ toWake \in [Tasks -> Seq(Tasks)]
  /\ signals \in 0..MaxSignals

\* Every task is where its call allows, and sleeps only where calls wait.
Placed == \A t \in Tasks : /\ TaskOK(prog[t], at[t], aux[t])
                           /\ st[t] # "run" => at[t] \in Sleeping

\* A task is about to be woken, or will find that it has been.
Comes(u) == WakeComing(u) \/ (st[u] # "asleep" /\ token[u])

\* A reader that blocks is queued, and there is nothing for it.
Idle(r, u) == Contains(r.read_waiters, u) /\ AvailableRead(r) = 0 /\ r.write_end_open

ReaderIdle(rs, pr, a, s, u) ==
  s \in Blocked /\ a \in Reading => Idle(rs[Head(pr).pipe], u)

\* A writer that blocks is queued, and there is no room for it.
Stuck(r, u, a, want) == Contains(r.write_waiters, u) /\ r.read_end_open /\ MustWait(r, a, want)

OutOf(c) == IF c.op \in {"splice", "fill"} THEN c.out ELSE c.pipe
WantOf(c, x) == IF c.op \in {"write", "writev"} THEN Len(c.data) - x.done ELSE 1

WriterIdle(rs, pr, a, x, s, u) ==
  s \in Blocked /\ a \in Writing => Stuck(rs[OutOf(Head(pr))], u, a, WantOf(Head(pr), x))

\* A poller is queued for its first n descriptors, and the first m are not ready.
Unready(r, e) == /\ e = "r" => AvailableRead(r) = 0 /\ r.write_end_open
                 /\ e # "r" => AvailableWrite(r) = 0 /\ r.read_end_open

Listed(rs, fds, u, n, m) ==
  /\ \A j \in 1..n : Contains(rs[fds[j].pipe].poll_waiters, u)
  /\ \A j \in 1..m : Unready(rs[fds[j].pipe], fds[j].end)

PollIdle(rs, pr, a, x, s, u) ==
  LET fds == Head(pr).fds
  IN /\ a = "enlist" => Listed(rs, fds, u, x.i - 1, 0)
     /\ a = "rescan" => Listed(rs, fds, u, Len(fds), x.i - 1)
     /\ a = "delist" /\ s \in Blocked => Listed(rs, fds, u, Len(fds), Len(fds))

ReaderOk(u) == Comes(u) \/ ReaderIdle(ring, prog[u], at[u], st[u], u)
WriterOk(u) == Comes(u) \/ u \in grown \/ WriterIdle(ring, prog[u], at[u], aux[u], st[u], u)
PollOk(u)   == Comes(u) \/ u \in grown \/ PollIdle(ring, prog[u], at[u], aux[u], st[u], u)

\* Nobody sleeps over what it waits for.
Watched == \A u \in Tasks : ReaderOk(u) /\ WriterOk(u) /\ PollOk(u)

Inv == IsRings(ring) /\ Types /\ Placed /\ Watched

-----------------------------------------------------------------------------
(* Waiters that a step of another task leaves alone *)

\* Readers.
LEMMA ReaderStays ==
  ASSUME NEW rs, NEW rt, NEW t, NEW u \in Tasks \ {t}, NEW w, NEW G,
         \A p \in Pipes : Effect(rt[p], rs[p], w, G, t),
         NEW pr, NEW a, NEW x, NEW s, TaskOK(pr, a, x), ReaderIdle(rs, pr, a, s, u)
  PROVE  Contains(w, u) \/ ReaderIdle(rt, pr, a, s, u)
<1> SUFFICES ASSUME s \in Blocked, a \in Reading
             PROVE  Contains(w, u) \/ Idle(rt[Head(pr).pipe], u)
  BY Zenon DEF ReaderIdle
<1> DEFINE p == Head(pr).pipe
<1>1. a = "read" \/ a = "waitin"
  BY DEF Reading
<1>2. a # "done"
  BY <1>1
<1>3. CallFields(Head(pr)) /\ CallOK(Head(pr), a, x)
  BY <1>2, CurrentCall, Zenon
<1>4. p \in Pipes
  BY ONLY <1>1, <1>3 DEF CallFields, CallOK, Polling
<1> HIDE DEF p
<1>5. Idle(rs[p], u)
  BY Zenon DEF ReaderIdle, p
<1>6. Contains(w, u) \/ Idle(rt[p], u)
  BY <1>4, <1>5, Zenon DEF Effect, NoNewData, Idle
<1> QED
  BY <1>6, Zenon DEF p

\* What is not there stays away.
LEMMA MustWaitStays ==
  ASSUME NEW q, NEW r, RingOK(q), RingOK(r), AvailableWrite(q) <= AvailableWrite(r),
         NEW a, NEW want \in Int, MustWait(r, a, want)
  PROVE  MustWait(q, a, want)
<1>1. PICK m \in Nat : m = AvailableWrite(q)
  BY RingLevel
<1>2. PICK n \in Nat : n = AvailableWrite(r)
  BY RingLevel
<1>3. m <= n
  BY <1>1, <1>2
<1>4. n = 0 => m = 0
  BY ONLY <1>3
<1>5. n < want => m < want
  BY ONLY <1>3
<1> QED
  BY <1>1, <1>2, <1>4, <1>5, Zenon DEF MustWait

\* Where a writer is.
LEMMA WriterCall ==
  ASSUME NEW pr, NEW a, NEW x, TaskOK(pr, a, x), a \in Writing
  PROVE  /\ OutOf(Head(pr)) \in Pipes /\ WantOf(Head(pr), x) \in Nat \ {0}
         /\ CallFields(Head(pr)) /\ CallOK(Head(pr), a, x) /\ Head(pr).op \in {"write", "writev", "splice", "fill"}
<1> DEFINE c == Head(pr)
<1>1. a = "write" \/ a = "writev" \/ a = "waitout"
  BY DEF Writing
<1>2. a # "done"
  BY <1>1
<1>3. CallFields(c) /\ CallOK(c, a, x)
  BY <1>2, CurrentCall, Zenon
<1> HIDE DEF c
<1>4. c.op \in {"write", "writev", "splice", "fill"}
  BY ONLY <1>1, <1>3 DEF CallOK, Polling
<1>5. OutOf(c) \in Pipes
  BY ONLY <1>4, <1>3 DEF OutOf, CallFields
<1>6. WantOf(c, x) \in Nat \ {0}
  <2>1. CASE c.op \in {"write", "writev"}
    <3>1. c.data \in Seq(Bytes) /\ x.done < Len(c.data)
      BY ONLY <1>3, <2>1 DEF CallFields, CallOK
    <3>2. PICK n \in Nat : n = Len(c.data)
      BY <3>1, LenProperties
    <3>3. PICK d \in Nat : d = x.done
      BY DEF TaskOK, Aux
    <3> QED
      BY ONLY <2>1, <3>1, <3>2, <3>3 DEF WantOf
  <2>2. CASE c.op \notin {"write", "writev"}
    BY ONLY <2>2 DEF WantOf
  <2> QED
    BY <2>1, <2>2, Zenon
<1> QED
  BY <1>3, <1>4, <1>5, <1>6, Zenon DEF c

\* Writers.
LEMMA WriterStays ==
  ASSUME NEW rs, IsRings(rs), NEW rt, NEW t, NEW u \in Tasks \ {t}, NEW w, NEW G,
         \A p \in Pipes : Effect(rt[p], rs[p], w, G, t),
         NEW pr, NEW a, NEW x, NEW s, TaskOK(pr, a, x), WriterIdle(rs, pr, a, x, s, u)
  PROVE  Contains(w, u) \/ u \in G \/ WriterIdle(rt, pr, a, x, s, u)
<1> SUFFICES ASSUME s \in Blocked, a \in Writing
             PROVE  Contains(w, u) \/ u \in G \/ Stuck(rt[OutOf(Head(pr))], u, a, WantOf(Head(pr), x))
  BY Zenon DEF WriterIdle
<1> DEFINE p == OutOf(Head(pr))
           want == WantOf(Head(pr), x)
<1>1. p \in Pipes /\ want \in Nat \ {0}
  BY WriterCall, Zenon
<1>2. want \in Int
  BY <1>1
<1> HIDE DEF p, want
<1>3. Stuck(rs[p], u, a, want)
  BY Zenon DEF WriterIdle, p, want
<1>4. RingOK(rs[p]) /\ RingOK(rt[p])
  BY <1>1, Zenon DEF IsRings, Effect
<1>5. CASE Contains(rt[p].write_waiters, u) /\ NoNewRoom(rt[p], rs[p])
  <2>1. MustWait(rt[p], a, want)
    BY <1>2, <1>3, <1>4, <1>5, MustWaitStays, Zenon DEF Stuck, NoNewRoom
  <2>2. Stuck(rt[p], u, a, want)
    BY <1>3, <1>5, <2>1, Zenon DEF Stuck, NoNewRoom
  <2> QED
    BY <2>2, Zenon DEF p, want
<1>6. Contains(w, u) \/ u \in G \/ (Contains(rt[p].write_waiters, u) /\ NoNewRoom(rt[p], rs[p]))
  BY <1>1, <1>3, Zenon DEF Effect, Stuck
<1> QED
  BY <1>5, <1>6, Zenon

\* Where a poller is.
LEMMA PollCall ==
  ASSUME NEW pr, NEW a, NEW x, TaskOK(pr, a, x), a \in Polling
  PROVE  \E n \in Nat \ {0}, i \in Nat :
           /\ Head(pr).fds \in Seq(Poll) /\ Len(Head(pr).fds) = n /\ x.i = i /\ i \in 1..n
           /\ \A j \in 1..n : Head(pr).fds[j].pipe \in Pipes /\ Head(pr).fds[j].end \in {"r", "w"}
           /\ Head(pr).op = "poll"
<1> DEFINE c == Head(pr)
           f == c.fds
<1>1. a # "done"
  BY DEF Polling
<1>2. CallFields(c) /\ CallOK(c, a, x)
  BY <1>1, CurrentCall, Zenon
<1>3. c.op = "poll" /\ f \in Seq(Poll) /\ x.i \in 1..Len(f)
  <2> HIDE DEF c
  <2> QED
    BY <1>2 DEF CallOK, CallFields, Polling
<1> HIDE DEF f
<1>4. PICK n \in Nat : Len(f) = n
  BY <1>3, LenProperties
<1>5. PICK i \in Nat : x.i = i /\ i \in 1..n
  BY ONLY <1>3, <1>4
<1>6. n \in Nat \ {0}
  BY ONLY <1>5
<1>7. \A j \in 1..n : f[j] \in Poll
  BY <1>3, <1>4, ElementOfSeq
<1>8. \A j \in 1..n : f[j].pipe \in Pipes /\ f[j].end \in {"r", "w"}
  BY <1>7 DEF Poll
<1> QED
  BY <1>3, <1>4, <1>5, <1>6, <1>8, Zenon DEF f

\* A descriptor that is not ready.
LEMMA UnreadyStays ==
  ASSUME NEW q, NEW r, RingOK(q), RingOK(r), NoNewData(q, r), NoNewRoom(q, r), NEW e, Unready(r, e)
  PROVE  Unready(q, e)
<1>1. PICK m \in Nat : m = AvailableWrite(q)
  BY RingLevel
<1>2. PICK n \in Nat : n = AvailableWrite(r)
  BY RingLevel
<1>3. m <= n
  BY <1>1, <1>2 DEF NoNewRoom
<1>4. n = 0 => m = 0
  BY ONLY <1>3
<1> QED
  BY <1>1, <1>2, <1>4, Zenon DEF Unready, NoNewData, NoNewRoom

\* The descriptors of a poller.
LEMMA ListedStays ==
  ASSUME NEW rs, IsRings(rs), NEW rt, NEW t, NEW u \in Tasks \ {t}, NEW w, NEW G,
         \A p \in Pipes : Effect(rt[p], rs[p], w, G, t),
         NEW fds, NEW n, NEW m, \A j \in 1..n : fds[j].pipe \in Pipes, \A j \in 1..m : j \in 1..n,
         Listed(rs, fds, u, n, m)
  PROVE  Contains(w, u) \/ u \in G \/ Listed(rt, fds, u, n, m)
<1> SUFFICES ASSUME ~Contains(w, u), u \notin G
             PROVE  Listed(rt, fds, u, n, m)
  BY Zenon
<1>1. ASSUME NEW j \in 1..n
      PROVE  LET p == fds[j].pipe
             IN /\ Contains(rt[p].poll_waiters, u) /\ NoNewData(rt[p], rs[p]) /\ NoNewRoom(rt[p], rs[p])
                /\ RingOK(rt[p]) /\ RingOK(rs[p])
  <2> DEFINE p == fds[j].pipe
  <2>1. p \in Pipes /\ Contains(rs[p].poll_waiters, u)
    BY <1>1, Zenon DEF Listed
  <2> HIDE DEF p
  <2>2. Effect(rt[p], rs[p], w, G, t) /\ RingOK(rs[p])
    BY <2>1, Zenon DEF IsRings
  <2>3. /\ Contains(rt[p].poll_waiters, u) /\ NoNewData(rt[p], rs[p]) /\ NoNewRoom(rt[p], rs[p])
        /\ RingOK(rt[p])
    BY <2>1, <2>2, Zenon DEF Effect
  <2> QED
    BY <2>2, <2>3, Zenon DEF p
<1>2. ASSUME NEW j \in 1..m
      PROVE  Unready(rt[fds[j].pipe], fds[j].end)
  <2>1. j \in 1..n
    BY <1>2, Zenon
  <2> DEFINE p == fds[j].pipe
  <2>2. Unready(rs[p], fds[j].end)
    BY <1>2, Zenon DEF Listed
  <2>3. /\ NoNewData(rt[p], rs[p]) /\ NoNewRoom(rt[p], rs[p])
        /\ RingOK(rt[p]) /\ RingOK(rs[p])
    BY <1>1, <2>1, Zenon
  <2> HIDE DEF p
  <2>4. Unready(rt[p], fds[j].end)
    BY <2>2, <2>3, UnreadyStays, Zenon
  <2> QED
    BY <2>4, Zenon DEF p
<1> QED
  BY <1>1, <1>2, Zenon DEF Listed

\* Pollers.
LEMMA PollerStays ==
  ASSUME NEW rs, IsRings(rs), NEW rt, NEW t, NEW u \in Tasks \ {t}, NEW w, NEW G,
         \A p \in Pipes : Effect(rt[p], rs[p], w, G, t),
         NEW pr, NEW a, NEW x, NEW s, TaskOK(pr, a, x), PollIdle(rs, pr, a, x, s, u)
  PROVE  Contains(w, u) \/ u \in G \/ PollIdle(rt, pr, a, x, s, u)
<1>1. CASE a \notin Polling
  BY <1>1 DEF PollIdle, Polling
<1>2. CASE a \in Polling
  <2> DEFINE fds == Head(pr).fds
  <2>1. PICK n \in Nat \ {0}, i \in Nat :
          /\ fds \in Seq(Poll) /\ Len(fds) = n /\ x.i = i /\ i \in 1..n
          /\ \A j \in 1..n : fds[j].pipe \in Pipes
    BY <1>2, PollCall
  <2> HIDE DEF fds
  <2>2. PICK k \in Nat : k = i - 1 /\ k <= n
    BY ONLY <2>1
  <2>3. /\ a = "enlist" => Listed(rs, fds, u, k, 0)
        /\ a = "rescan" => Listed(rs, fds, u, n, k)
        /\ a = "delist" /\ s \in Blocked => Listed(rs, fds, u, n, n)
    BY <2>1, <2>2, Zenon DEF PollIdle, fds
  <2>4. /\ \A j \in 1..k : j \in 1..n
        /\ \A j \in 1..0 : j \in 1..k
        /\ \A j \in 1..n : j \in 1..n
    BY ONLY <2>2
  <2>5. \A j \in 1..k : fds[j].pipe \in Pipes
    BY <2>1, <2>4, Zenon
  <2> SUFFICES ASSUME ~Contains(w, u), u \notin G
               PROVE  PollIdle(rt, pr, a, x, s, u)
    BY Zenon
  <2>6. a = "enlist" => Listed(rt, fds, u, k, 0)
    BY <2>3, <2>4, <2>5, ListedStays, Zenon
  <2>7. a = "rescan" => Listed(rt, fds, u, n, k)
    BY <2>1, <2>3, <2>4, ListedStays, Zenon
  <2>8. a = "delist" /\ s \in Blocked => Listed(rt, fds, u, n, n)
    BY <2>1, <2>3, <2>4, ListedStays, Zenon
  <2> QED
    BY <2>1, <2>2, <2>6, <2>7, <2>8, Zenon DEF PollIdle, fds
<1> QED
  BY <1>1, <1>2, Zenon

-----------------------------------------------------------------------------
(* A step of a task in its call *)

AllEffect(rt, rs, w, G, t) == /\ rt = [p \in Pipes |-> rt[p]]
                              /\ \A p \in Pipes : Effect(rt[p], rs[p], w, G, t)

\* No ring changes.
LEMMA NoRings ==
  ASSUME NEW rs, IsRings(rs), NEW w, NEW G, NEW t
  PROVE  AllEffect(rs, rs, w, G, t)
BY NoEffect, Zenon DEF AllEffect, IsRings

\* One ring changes.
LEMMA OneRing ==
  ASSUME NEW rs, IsRings(rs), NEW w, NEW G, NEW t, NEW p \in Pipes, NEW x,
         Effect(x, rs[p], w, G, t)
  PROVE  AllEffect([rs EXCEPT ![p] = x], rs, w, G, t) /\ [rs EXCEPT ![p] = x][p] = x
<1> DEFINE rt == [rs EXCEPT ![p] = x]
<1>1. rs = [q \in Pipes |-> rs[q]] /\ \A q \in Pipes : RingOK(rs[q])
  BY Zenon DEF IsRings
<1>2. rt = [q \in Pipes |-> IF q = p THEN x ELSE rs[q]]
  BY <1>1, Zenon
<1> HIDE DEF rt
<1>3. rt[p] = x /\ \A q \in Pipes : q # p => rt[q] = rs[q]
  BY <1>2, Zenon
<1>4. rt = [q \in Pipes |-> rt[q]]
  BY <1>2, Zenon
<1>5. ASSUME NEW q \in Pipes
      PROVE  Effect(rt[q], rs[q], w, G, t)
  <2>1. CASE q = p
    BY <2>1, <1>3, Zenon
  <2>2. CASE q # p
    BY <2>2, <1>1, <1>3, NoEffect, Zenon
  <2> QED
    BY <2>1, <2>2, Zenon
<1> QED
  BY <1>3, <1>4, <1>5, Zenon DEF AllEffect, rt

\* Two rings change.
LEMMA TwoRings ==
  ASSUME NEW rs, IsRings(rs), NEW w, NEW G, NEW t, NEW p \in Pipes, NEW q \in Pipes, p # q,
         NEW x, NEW y, Effect(x, rs[p], w, G, t), Effect(y, rs[q], w, G, t)
  PROVE  AllEffect([rs EXCEPT ![p] = x, ![q] = y], rs, w, G, t)
<1> DEFINE rt == [rs EXCEPT ![p] = x, ![q] = y]
<1>1. rs = [o \in Pipes |-> rs[o]] /\ \A o \in Pipes : RingOK(rs[o])
  BY Zenon DEF IsRings
<1>2. rt = [o \in Pipes |-> IF o = q THEN y ELSE IF o = p THEN x ELSE rs[o]]
  BY <1>1, Zenon
<1> HIDE DEF rt
<1>3. /\ rt[p] = x /\ rt[q] = y
      /\ \A o \in Pipes : o # p /\ o # q => rt[o] = rs[o]
  BY <1>2, Zenon
<1>4. rt = [o \in Pipes |-> rt[o]]
  BY <1>2, Zenon
<1>5. ASSUME NEW o \in Pipes
      PROVE  Effect(rt[o], rs[o], w, G, t)
  <2>1. CASE o = p
    BY <2>1, <1>3, Zenon
  <2>2. CASE o = q
    BY <2>2, <1>3, Zenon
  <2>3. CASE o # p /\ o # q
    BY <2>3, <1>1, <1>3, NoEffect, Zenon
  <2> QED
    BY <2>1, <2>2, <2>3, Zenon
<1> QED
  BY <1>4, <1>5, Zenon DEF AllEffect, rt

\* Only the call of t goes on.
Local(t) ==
  /\ prog' = [u \in Tasks |-> prog'[u]]
  /\ at' = [u \in Tasks |-> at'[u]]
  /\ aux' = [u \in Tasks |-> aux'[u]]
  /\ intr' \in [Tasks -> BOOLEAN]
  /\ \A u \in Tasks \ {t} : prog'[u] = prog[u] /\ at'[u] = at[u] /\ aux'[u] = aux[u]
  /\ TaskOK(prog'[t], at'[t], aux'[t])

OwnStep(t, w) ==
  /\ AllEffect(ring', ring, w, grown', t)
  /\ Local(t)
  /\ st' \in [Tasks -> {"run", "block", "asleep", "awake"}]
  /\ \A u \in Tasks \ {t} : st'[u] = st[u] /\ toWake'[u] = toWake[u]
  /\ token' = token /\ signals' = signals
  /\ toWake' \in [Tasks -> Seq(Tasks)]
  /\ toWake[t] = <<>> /\ toWake'[t] = w
  /\ grown \subseteq grown'
  /\ st'[t] \in {"run", "block"}
  /\ st'[t] # "run" => at'[t] \in Sleeping
  /\ ReaderIdle(ring', prog'[t], at'[t], st'[t], t)
  /\ WriterIdle(ring', prog'[t], at'[t], aux'[t], st'[t], t)
  /\ \/ Comes(t) \/ t \in grown
     \/ PollIdle(ring', prog'[t], at'[t], aux'[t], st'[t], t)

\* It keeps the invariant.
LEMMA OwnStepInv ==
  ASSUME Inv, NEW t \in Tasks, NEW w, OwnStep(t, w)
  PROVE  Inv'
<1>1. /\ IsRings(ring) /\ Types /\ Placed /\ Watched
  BY Zenon DEF Inv
<1>2. AllEffect(ring', ring, w, grown', t)
  BY Zenon DEF OwnStep
<1>3. IsRings(ring)'
  BY <1>2, Zenon DEF AllEffect, Effect, IsRings
<1>4. Types'
  BY <1>1, Zenon DEF OwnStep, Local, Types
<1>5. ASSUME NEW u \in Tasks
      PROVE  TaskOK(prog[u], at[u], aux[u])' /\ (st[u] # "run" => at[u] \in Sleeping)'
  <2>1. CASE u = t
    BY <2>1, Zenon DEF OwnStep, Local
  <2>2. CASE u # t
    BY <2>2, <1>1, Zenon DEF OwnStep, Local, Placed
  <2> QED
    BY <2>1, <2>2, Zenon
<1>6. Placed'
  BY <1>5, Zenon DEF Placed
<1>7. ASSUME NEW u \in Tasks, Contains(w, u)
      PROVE  Comes(u)'
  BY <1>7, Zenon DEF OwnStep, Comes, WakeComing
<1>8. ASSUME NEW u \in Tasks, Comes(u)
      PROVE  Comes(u)'
  <2>1. CASE WakeComing(u)
    <3>1. PICK v \in Tasks : Contains(toWake[v], u)
      BY <2>1, Zenon DEF WakeComing
    <3>2. v # t
      BY <3>1, EmptyQueue, Zenon DEF OwnStep
    <3> QED
      BY <3>1, <3>2, Zenon DEF OwnStep, Comes, WakeComing
  <2>2. CASE st[u] # "asleep" /\ token[u]
    <3>1. st'[u] # "asleep"
      <4>1. CASE u = t
        <5>1. st'[t] \in {"run", "block"}
          BY Zenon DEF OwnStep
        <5> QED
          BY <4>1, <5>1
      <4>2. CASE u # t
        BY <4>2, <2>2, Zenon DEF OwnStep
      <4> QED
        BY <4>1, <4>2, Zenon
    <3> QED
      BY <2>2, <3>1, Zenon DEF OwnStep, Comes
  <2> QED
    BY <1>8, <2>1, <2>2, Zenon DEF Comes
<1>9. ASSUME NEW u \in Tasks
      PROVE  ReaderOk(u)' /\ WriterOk(u)' /\ PollOk(u)'
  <2>1. CASE u = t
    BY <2>1, <1>8, Zenon DEF OwnStep, ReaderOk, WriterOk, PollOk
  <2>2. CASE u # t
    <3>1. /\ prog'[u] = prog[u] /\ at'[u] = at[u] /\ aux'[u] = aux[u] /\ st'[u] = st[u]
          /\ (u \in grown => u \in grown') /\ u \in Tasks \ {t}
      BY <2>2, Zenon DEF OwnStep, Local
    <3>2. ReaderOk(u) /\ WriterOk(u) /\ PollOk(u) /\ TaskOK(prog[u], at[u], aux[u])
      BY <1>1, Zenon DEF Watched, Placed
    <3>3. \A p \in Pipes : Effect(ring'[p], ring[p], w, grown', t)
      BY <1>2, Zenon DEF AllEffect
    <3>4. ReaderOk(u)'
      <4>1. ReaderIdle(ring, prog[u], at[u], st[u], u) =>
              Contains(w, u) \/ ReaderIdle(ring', prog[u], at[u], st[u], u)
        BY <3>1, <3>2, <3>3, ReaderStays, Zenon
      <4> QED
        BY <4>1, <3>1, <3>2, <1>7, <1>8, Zenon DEF ReaderOk
    <3>5. WriterOk(u)'
      <4>1. WriterIdle(ring, prog[u], at[u], aux[u], st[u], u) =>
              Contains(w, u) \/ u \in grown' \/ WriterIdle(ring', prog[u], at[u], aux[u], st[u], u)
        BY <1>1, <3>1, <3>2, <3>3, WriterStays, Zenon
      <4> QED
        BY <4>1, <3>1, <3>2, <1>7, <1>8, Zenon DEF WriterOk
    <3>6. PollOk(u)'
      <4>1. PollIdle(ring, prog[u], at[u], aux[u], st[u], u) =>
              Contains(w, u) \/ u \in grown' \/ PollIdle(ring', prog[u], at[u], aux[u], st[u], u)
        BY <1>1, <3>1, <3>2, <3>3, PollerStays, Zenon
      <4> QED
        BY <4>1, <3>1, <3>2, <1>7, <1>8, Zenon DEF PollOk
    <3> QED
      BY <3>4, <3>5, <3>6, Zenon
  <2> QED
    BY <2>1, <2>2, Zenon
<1>10. Watched'
  BY <1>9, Zenon DEF Watched
<1> QED
  BY <1>3, <1>4, <1>6, <1>10, Zenon DEF Inv

\* A step after which t runs on, in no poll that has queued.
LEMMA CalmStep ==
  ASSUME Inv, NEW t \in Tasks, st[t] = "run", toWake[t] = <<>>, NEW w \in Seq(Tasks),
         AllEffect(ring', ring, w, grown', t), Local(t), at'[t] \notin {"enlist", "rescan"},
         st' = st, token' = token, signals' = signals, toWake' = [toWake EXCEPT ![t] = w],
         grown \subseteq grown'
  PROVE  OwnStep(t, w)
<1>1. Types
  BY Zenon DEF Inv
<1>2. /\ toWake' \in [Tasks -> Seq(Tasks)] /\ toWake'[t] = w
      /\ \A u \in Tasks \ {t} : toWake'[u] = toWake[u]
  BY <1>1, Zenon DEF Types
<1>3. st' \in [Tasks -> {"run", "block", "asleep", "awake"}] /\ st'[t] = "run"
  BY <1>1, Zenon DEF Types
<1>4. "run" \notin Blocked /\ "run" \in {"run", "block"}
  BY DEF Blocked
<1>5. ReaderIdle(ring', prog'[t], at'[t], st'[t], t)
  BY <1>3, <1>4, Zenon DEF ReaderIdle
<1>6. WriterIdle(ring', prog'[t], at'[t], aux'[t], st'[t], t)
  BY <1>3, <1>4, Zenon DEF WriterIdle
<1>7. PollIdle(ring', prog'[t], at'[t], aux'[t], st'[t], t)
  BY <1>3, <1>4, Zenon DEF PollIdle
<1> QED
  BY <1>2, <1>3, <1>4, <1>5, <1>6, <1>7, Zenon DEF OwnStep

\* The call ends.
LEMMA ReturnLocal ==
  ASSUME Inv, NEW t \in Tasks, at[t] # "done", Return(t)
  PROVE  Local(t) /\ at'[t] \notin {"enlist", "rescan"}
<1>1. Types /\ TaskOK(prog[t], at[t], aux[t])
  BY Zenon DEF Inv, Placed
<1>2. Tail(prog[t]) \in Seq(Calls)
  BY <1>1, CurrentCall, Zenon
<1> DEFINE pr == Tail(prog[t])
<1>3. TaskOK(pr, Entry(pr), NoAux) /\ Entry(pr) \notin {"enlist", "rescan"}
  BY <1>2, EntryIs, Zenon
<1>4. /\ prog' = [prog EXCEPT ![t] = pr] /\ at' = [at EXCEPT ![t] = Entry(pr)]
      /\ aux' = [aux EXCEPT ![t] = NoAux] /\ intr' = [intr EXCEPT ![t] = FALSE]
  BY Zenon DEF Return, Goto
<1> HIDE DEF pr
<1>5. /\ prog' = [u \in Tasks |-> prog'[u]] /\ prog'[t] = pr
      /\ \A u \in Tasks \ {t} : prog'[u] = prog[u]
  BY <1>1, <1>4, Zenon DEF Types
<1>6. /\ at' = [u \in Tasks |-> at'[u]] /\ at'[t] = Entry(pr)
      /\ \A u \in Tasks \ {t} : at'[u] = at[u]
  BY <1>1, <1>4, Zenon DEF Types
<1>7. /\ aux' = [u \in Tasks |-> aux'[u]] /\ aux'[t] = NoAux
      /\ \A u \in Tasks \ {t} : aux'[u] = aux[u]
  BY <1>1, <1>4, Zenon DEF Types
<1>8. intr' \in [Tasks -> BOOLEAN]
  BY <1>1, <1>4, Zenon DEF Types
<1> QED
  BY <1>3, <1>5, <1>6, <1>7, <1>8, Zenon DEF Local

\* The call goes on, at label a with locals x.
LEMMA GoesOn ==
  ASSUME Inv, NEW t \in Tasks, NEW a, NEW x, TaskOK(prog[t], a, x),
         prog' = prog, intr' \in [Tasks -> BOOLEAN],
         at' = [at EXCEPT ![t] = a], aux' = [aux EXCEPT ![t] = x]
  PROVE  Local(t) /\ at'[t] = a /\ aux'[t] = x /\ prog'[t] = prog[t]
<1>1. Types
  BY Zenon DEF Inv
<1>6. /\ at' = [u \in Tasks |-> at'[u]] /\ at'[t] = a
      /\ \A u \in Tasks \ {t} : at'[u] = at[u]
  BY <1>1, Zenon DEF Types
<1>7. /\ aux' = [u \in Tasks |-> aux'[u]] /\ aux'[t] = x
      /\ \A u \in Tasks \ {t} : aux'[u] = aux[u]
  BY <1>1, Zenon DEF Types
<1> QED
  BY <1>1, <1>6, <1>7, Zenon DEF Local, Types

\* The task stays where it is.
LEMMA StaysLocal ==
  ASSUME Inv, NEW t \in Tasks, prog' = prog, at' = at, aux' = aux, intr' \in [Tasks -> BOOLEAN]
  PROVE  Local(t)
BY Zenon DEF Inv, Types, Placed, Local

-----------------------------------------------------------------------------
(* The steps of a call *)

\* A task that runs at label a.
LEMMA AtCall ==
  ASSUME Inv, NEW t \in Tasks, NEW a, Runs(t, a), a # "done"
  PROVE  /\ st[t] = "run" /\ toWake[t] = <<>> /\ at[t] = a /\ TaskOK(prog[t], a, aux[t])
         /\ IsRings(ring) /\ intr \in [Tasks -> BOOLEAN] /\ toWake = [toWake EXCEPT ![t] = <<>>]
         /\ CallFields(Call(t)) /\ CallOK(Call(t), a, aux[t]) /\ aux[t] \in Aux
<1>1. IsRings(ring) /\ Types /\ TaskOK(prog[t], at[t], aux[t])
  BY Zenon DEF Inv, Placed
<1>2. st[t] = "run" /\ toWake[t] = <<>> /\ at[t] = a
  BY Zenon DEF Runs
<1>3. CallFields(Call(t)) /\ CallOK(Call(t), a, aux[t])
  BY <1>1, <1>2, CurrentCall, Zenon DEF Call
<1>4. toWake = [toWake EXCEPT ![t] = <<>>]
  BY <1>1, <1>2 DEF Types
<1> QED
  BY <1>1, <1>2, <1>3, <1>4, Zenon DEF Types, TaskOK

\* Which calls have which labels.
LEMMA LabelCall ==
  ASSUME NEW c, NEW a, NEW x, CallOK(c, a, x)
  PROVE  /\ a = "read" => c.op = "read"
         /\ a = "waitin" => c.op \in {"splice", "drain"}
         /\ a \in {"write", "writev"} => c.op = a /\ x.done < Len(c.data)
         /\ a = "waitout" => c.op \in {"splice", "fill"}
         /\ a = "transfer" => c.op = "splice" /\ x.done < c.n
         /\ a = "store" => c.op = "fill" /\ x.done + x.room <= Len(c.data)
         /\ a = "peek" => c.op = "drain" /\ x.done <= x.room
         /\ a = "discard" => c.op = "drain" /\ x.done + Len(x.peeked) <= x.room
         /\ a = "close" => c.op = "close"
         /\ a = "resize" => c.op = "resize"
BY DEF CallOK, Polling

\* Nothing of what a pipe promises changes.
Unseen == /\ \A p \in Pipes : /\ SameEnds(ring'[p], ring[p]) /\ ring'[p].capacity = ring[p].capacity
                              /\ Content(ring'[p]) = Content(ring[p])
          /\ taken' = taken

\* The other pipes stay.
Only(p) == \A q \in Pipes \ {p} : ring'[q] = ring[q]

\* One ring is replaced.
LEMMA Replaced ==
  ASSUME IsRings(ring), NEW p \in Pipes, NEW x, ring' = [ring EXCEPT ![p] = x]
  PROVE  ring'[p] = x /\ Only(p)
BY Zenon DEF IsRings, Only

\* One ring changes in its queues.
LEMMA QuietRing ==
  ASSUME IsRings(ring), NEW p \in Pipes, NEW x, ring' = [ring EXCEPT ![p] = x], taken' = taken,
         NEW w, NEW t, Quiet(x, ring[p], w, grown', t)
  PROVE  AllEffect(ring', ring, w, grown', t) /\ Unseen /\ ring'[p] = x
<1>1. Effect(x, ring[p], w, grown', t) /\ SameEnds(x, ring[p]) /\ SameBytes(x, ring[p])
  BY Zenon DEF Quiet
<1>2. AllEffect(ring', ring, w, grown', t)
  BY <1>1, OneRing, Zenon
<1>3. ring'[p] = x /\ \A q \in Pipes \ {p} : ring'[q] = ring[q]
  BY Replaced, Zenon DEF Only
<1>4. RingOK(x) /\ RingOK(ring[p])
  BY <1>1, Zenon DEF Effect, IsRings
<1>5. Content(x) = Content(ring[p]) /\ x.capacity = ring[p].capacity
  <2>1. Fields(x) /\ QueuesOK(x)
    BY <1>4, Zenon DEF RingOK
  <2> QED
    BY <1>1, <1>4, <2>1, SameRing, Zenon DEF SameBytes, SameNumbers
<1>6. ASSUME NEW q \in Pipes
      PROVE  /\ SameEnds(ring'[q], ring[q]) /\ ring'[q].capacity = ring[q].capacity
             /\ Content(ring'[q]) = Content(ring[q])
  <2>1. CASE q = p
    BY <1>1, <1>3, <1>5, <2>1, Zenon
  <2>2. CASE q # p
    <3>1. ring'[q] = ring[q]
      BY <1>3, <2>2, Zenon
    <3> QED
      BY <3>1, Zenon DEF SameEnds
  <2> QED
    BY <2>1, <2>2, Zenon
<1> QED
  BY <1>2, <1>3, <1>6, Zenon DEF Unseen

\* No ring changes.
LEMMA SameRings ==
  ASSUME ring' = ring, taken' = taken
  PROVE  Unseen
BY Zenon DEF Unseen, SameEnds

\* n bytes leave pipe p, to a consumer.
Takes(p, n) ==
  /\ n <= AvailableRead(ring[p]) /\ Only(p) /\ Drawn(ring'[p], ring[p], n)
  /\ taken' = [taken EXCEPT ![p] = @ \o SubSeq(Content(ring[p]), 1, n)]

\* read that finds bytes.
LEMMA ReadDataStep ==
  ASSUME Inv, NEW t \in Tasks, ReadData(t)
  PROVE  /\ \E w : OwnStep(t, w)
         /\ \E p \in Pipes : Consumes(Call(t), p) /\ \E n \in Nat \ {0} : Takes(p, n)
<1> DEFINE c == Call(t)
           p == c.pipe
           r == ring[p]
<1>1. /\ Runs(t, "read") /\ ReturnSome(t) /\ RingStep /\ stream' = stream
      /\ \E loop \in Reads(r, c.n) :
           /\ loop.offs # <<>>
           /\ ring' = [ring EXCEPT ![p] = TakeWriters(AfterRead(r, loop))]
           /\ taken' = [taken EXCEPT ![p] = @ \o BytesRead(r, loop)]
           /\ Wake(t, Writers(r))
  BY Zenon DEF ReadData
<1>2. /\ st[t] = "run" /\ toWake[t] = <<>> /\ at[t] = "read" /\ TaskOK(prog[t], "read", aux[t])
      /\ IsRings(ring) /\ intr \in [Tasks -> BOOLEAN]
      /\ CallFields(c) /\ CallOK(c, "read", aux[t])
  BY <1>1, AtCall
<1> HIDE DEF c
<1>3. p \in Pipes /\ c.n \in Nat /\ Consumes(c, p)
  <2>1. c.op = "read"
    BY <1>2, LabelCall
  <2> QED
    BY <1>2, <2>1 DEF CallFields, Consumes
<1>4. RingOK(r)
  BY <1>2, <1>3, Zenon DEF IsRings
<1>5. PICK loop \in Reads(r, c.n) :
           /\ loop.offs # <<>>
           /\ ring' = [ring EXCEPT ![p] = TakeWriters(AfterRead(r, loop))]
           /\ taken' = [taken EXCEPT ![p] = @ \o BytesRead(r, loop)]
           /\ Wake(t, Writers(r))
  BY <1>1, Zenon
<1>6. PICK n \in Nat : ReadOutcome(r, c.n, loop, n)
  BY <1>3, <1>4, ReadsIs, Zenon
<1>7. n \in Nat \ {0} /\ n <= AvailableRead(r) /\ Took(AfterRead(r, loop), r, n)
      /\ BytesRead(r, loop) = SubSeq(Content(r), 1, n)
  BY <1>5, <1>6 DEF ReadOutcome
<1> DEFINE w == Writers(r)
           x == TakeWriters(AfterRead(r, loop))
<1>8. Within(w, w) /\ w \in Seq(Tasks)
  BY <1>4, WaitersIn, Zenon DEF Within
<1>9. Effect(x, r, w, grown', t) /\ Drawn(x, r, n)
  BY <1>4, <1>7, <1>8, TookEffect, Zenon
<1>10. grown' = grown /\ st' = st /\ token' = token /\ signals' = signals
       /\ toWake' = [toWake EXCEPT ![t] = w]
  BY <1>1, <1>5, Zenon DEF RingStep, Wake
<1> HIDE DEF x, w, p
<1>11. AllEffect(ring', ring, w, grown', t)
  BY <1>2, <1>3, <1>5, <1>9, OneRing, Zenon DEF x
<1>12. ring'[p] = x /\ Only(p)
  BY <1>2, <1>3, <1>5, Replaced, Zenon DEF x
<1>13. Local(t) /\ at'[t] \notin {"enlist", "rescan"}
  <2>1. CASE Return(t)
    <3>1. at[t] # "done"
      BY <1>2
    <3> QED
      BY <2>1, <3>1, ReturnLocal, Zenon
  <2>2. CASE intr' = [intr EXCEPT ![t] = FALSE] /\ UNCHANGED <<prog, at, aux>>
    <3>1. intr' \in [Tasks -> BOOLEAN]
      BY <1>2, <2>2
    <3>2. prog' = prog /\ at' = at /\ aux' = aux
      BY <2>2, Zenon
    <3>3. at'[t] \notin {"enlist", "rescan"}
      BY <1>2, <3>2
    <3> QED
      BY <3>1, <3>2, <3>3, StaysLocal, Zenon
  <2> QED
    BY <1>1, <2>1, <2>2, Zenon DEF ReturnSome
<1>14. OwnStep(t, w)
  <2>1. grown \subseteq grown'
    BY <1>10, Zenon
  <2> QED
    BY <1>2, <1>8, <1>10, <1>11, <1>13, <2>1, CalmStep, Zenon
<1>15. Takes(p, n)
  BY <1>5, <1>7, <1>9, <1>12, Zenon DEF Takes
<1> QED
  BY <1>3, <1>7, <1>14, <1>15, Zenon DEF c

\* A call that ends and wakes the tasks of w.
LEMMA ReturnStep ==
  ASSUME Inv, NEW t \in Tasks, st[t] = "run", toWake[t] = <<>>, at[t] # "done", NEW w \in Seq(Tasks),
         AllEffect(ring', ring, w, grown', t), Return(t),
         st' = st, token' = token, signals' = signals, toWake' = [toWake EXCEPT ![t] = w],
         grown \subseteq grown'
  PROVE  OwnStep(t, w)
BY ReturnLocal, CalmStep, Zenon

\* A call that ends and changes no ring.
LEMMA PlainReturn ==
  ASSUME Inv, NEW t \in Tasks, NEW a, Runs(t, a), a # "done", Return(t), ring' = ring,
         st' = st, token' = token, signals' = signals, toWake' = toWake, grown' = grown
  PROVE  OwnStep(t, <<>>)
<1>1. /\ st[t] = "run" /\ toWake[t] = <<>> /\ at[t] = a
      /\ IsRings(ring) /\ toWake = [toWake EXCEPT ![t] = <<>>]
  BY AtCall
<1>2. AllEffect(ring', ring, <<>>, grown', t)
  BY <1>1, NoRings, Zenon
<1>3. grown \subseteq grown' /\ toWake' = [toWake EXCEPT ![t] = <<>>] /\ at[t] # "done"
  BY <1>1, Zenon
<1> QED
  BY <1>1, <1>2, <1>3, EmptyQueue, ReturnStep, Zenon

\* Labels where a task reads or waits to read.
LEMMA ReadingLabel ==
  ASSUME Inv, NEW t \in Tasks, at[t] \in Reading, Runs(t, at[t])
  PROVE  /\ at[t] # "done" /\ at[t] \notin Writing /\ at[t] \notin Polling /\ at[t] \in Sleeping
         /\ Call(t).pipe \in Pipes /\ RingOK(ring[Call(t).pipe])
<1>1. /\ at[t] # "done" /\ at[t] \notin Writing /\ at[t] \notin Polling /\ at[t] \in Sleeping
  BY DEF Reading, Writing, Polling, Sleeping
<1>2. IsRings(ring) /\ CallFields(Call(t)) /\ CallOK(Call(t), at[t], aux[t])
  BY <1>1, AtCall, Zenon
<1> DEFINE c == Call(t)
<1> HIDE DEF c
<1>3. c.op \in {"read", "splice", "drain"}
  <2>1. CallOK(c, at[t], aux[t])
    BY <1>2, Zenon DEF c
  <2>2. at[t] = "read" \/ at[t] = "waitin"
    BY DEF Reading
  <2> QED
    BY <2>1, <2>2, LabelCall
<1>4. c.pipe \in Pipes
  <2>1. CallFields(c)
    BY <1>2, Zenon DEF c
  <2> QED
    BY <1>3, <2>1 DEF CallFields
<1> QED
  BY <1>1, <1>2, <1>4, Zenon DEF c, IsRings

\* End of file.
LEMMA ReadEofStep ==
  ASSUME Inv, NEW t \in Tasks, ReadEof(t)
  PROVE  (\E w : OwnStep(t, w)) /\ Unseen
<1> DEFINE p == Call(t).pipe
           w == ring[p].poll_waiters
<1>1. /\ at[t] \in Reading /\ Runs(t, at[t]) /\ Return(t) /\ RingStep /\ taken' = taken
      /\ ring' = [ring EXCEPT ![p].poll_waiters = <<>>]
      /\ Wake(t, w)
  BY Zenon DEF ReadEof
<1>2. at[t] # "done" /\ p \in Pipes /\ RingOK(ring[p])
  BY <1>1, ReadingLabel, Zenon
<1>3. st[t] = "run" /\ toWake[t] = <<>> /\ IsRings(ring)
  BY <1>1, <1>2, AtCall, Zenon
<1>4. ring' = [ring EXCEPT ![p] = WithPollQueue(ring[p], <<>>)]
  BY <1>1, Zenon DEF WithPollQueue
<1>5. w \in Seq(Tasks) /\ Within(w, w)
  BY <1>2, Zenon DEF RingOK, QueuesOK, WaiterQueue, Within
<1> HIDE DEF p
<1>6. Quiet(WithPollQueue(ring[p], <<>>), ring[p], w, grown', t)
  BY <1>2, <1>5, PollersWoken, Zenon
<1>7. AllEffect(ring', ring, w, grown', t) /\ Unseen
  BY <1>1, <1>2, <1>3, <1>4, <1>6, QuietRing, Zenon
<1>8. /\ st' = st /\ token' = token /\ signals' = signals /\ toWake' = [toWake EXCEPT ![t] = w]
      /\ grown \subseteq grown'
  BY <1>1, Zenon DEF RingStep, Wake
<1> HIDE DEF w
<1>9. OwnStep(t, w)
  BY <1>1, <1>2, <1>3, <1>5, <1>7, <1>8, ReturnStep, Zenon
<1> QED
  BY <1>7, <1>9, Zenon

\* A read that would block and may not.
LEMMA ReadAgainStep ==
  ASSUME Inv, NEW t \in Tasks, ReadAgain(t)
  PROVE  (\E w : OwnStep(t, w)) /\ Unseen
<1>1. /\ at[t] \in Reading /\ Runs(t, at[t]) /\ Return(t) /\ RingStep /\ ring' = ring
      /\ toWake' = toWake /\ taken' = taken
  BY Zenon DEF ReadAgain
<1>2. at[t] # "done"
  BY <1>1, ReadingLabel, Zenon
<1>3. OwnStep(t, <<>>)
  BY <1>1, <1>2, PlainReturn, Zenon DEF RingStep
<1> QED
  BY <1>1, <1>3, SameRings, Zenon

\* A task that blocks.
LEMMA BlocksTypes ==
  ASSUME Inv, NEW t \in Tasks, st' = [st EXCEPT ![t] = "block"], toWake[t] = <<>>, toWake' = toWake
  PROVE  /\ st' \in [Tasks -> {"run", "block", "asleep", "awake"}] /\ st'[t] = "block"
         /\ \A u \in Tasks \ {t} : st'[u] = st[u] /\ toWake'[u] = toWake[u]
         /\ toWake' \in [Tasks -> Seq(Tasks)] /\ toWake'[t] = <<>>
         /\ "block" \in {"run", "block"}
BY Zenon DEF Inv, Types

\* A reader queues and blocks.
LEMMA RegisterReaderStep ==
  ASSUME Inv, NEW t \in Tasks, RegisterReader(t)
  PROVE  (\E w : OwnStep(t, w)) /\ Unseen
<1> DEFINE p == Call(t).pipe
           r == ring[p]
           q == WithReadQueue(r, Registered(r.read_waiters, t))
<1>1. /\ at[t] \in Reading /\ Runs(t, at[t]) /\ Stay(t)
      /\ AvailableRead(r) = 0 /\ r.write_end_open
      /\ ring' = [ring EXCEPT ![p].read_waiters = Registered(@, t)]
      /\ st' = [st EXCEPT ![t] = "block"]
      /\ token' = token /\ toWake' = toWake /\ signals' = signals /\ taken' = taken /\ grown' = grown
  BY Zenon DEF RegisterReader
<1>2. /\ at[t] # "done" /\ at[t] \notin Writing /\ at[t] \notin Polling /\ at[t] \in Sleeping
      /\ p \in Pipes /\ RingOK(r)
  BY <1>1, ReadingLabel, Zenon
<1>3. st[t] = "run" /\ toWake[t] = <<>> /\ IsRings(ring) /\ intr \in [Tasks -> BOOLEAN]
  BY <1>1, <1>2, AtCall, Zenon
<1>4. ring' = [ring EXCEPT ![p] = q]
  BY <1>1, Zenon DEF WithReadQueue
<1>5. Quiet(q, r, <<>>, grown', t) /\ Contains(q.read_waiters, t)
  BY <1>2, ReaderQueued, Zenon
<1> HIDE DEF q
<1>6. AllEffect(ring', ring, <<>>, grown', t) /\ Unseen /\ ring'[p] = q
  BY <1>1, <1>2, <1>3, <1>4, <1>5, QuietRing, Zenon
<1>7. prog' = prog /\ at' = at /\ aux' = aux /\ intr' \in [Tasks -> BOOLEAN]
  BY <1>1, <1>3, Zenon DEF Stay
<1>8. Local(t)
  BY <1>7, StaysLocal, Zenon
<1>9. Idle(q, t)
  <2>1. SameEnds(q, r) /\ AvailableRead(q) = AvailableRead(r)
    BY <1>5, Zenon DEF Quiet, SameBytes, SameNumbers, AvailableRead
  <2> QED
    BY <1>1, <1>5, <2>1, Zenon DEF Idle, SameEnds
<1>10. ReaderIdle(ring', prog'[t], at'[t], st'[t], t)
  BY <1>6, <1>7, <1>9, Zenon DEF ReaderIdle, Call
<1>11. WriterIdle(ring', prog'[t], at'[t], aux'[t], st'[t], t)
  BY <1>2, <1>7, Zenon DEF WriterIdle
<1>12. PollIdle(ring', prog'[t], at'[t], aux'[t], st'[t], t)
  <2>1. at[t] # "enlist" /\ at[t] # "rescan" /\ at[t] # "delist"
    BY <1>2 DEF Polling
  <2> QED
    BY <1>7, <2>1, Zenon DEF PollIdle
<1>13. /\ st' \in [Tasks -> {"run", "block", "asleep", "awake"}] /\ st'[t] = "block"
       /\ \A u \in Tasks \ {t} : st'[u] = st[u] /\ toWake'[u] = toWake[u]
       /\ toWake' \in [Tasks -> Seq(Tasks)] /\ toWake'[t] = <<>>
       /\ "block" \in {"run", "block"}
  BY <1>1, <1>3, BlocksTypes, Zenon
<1>14. OwnStep(t, <<>>)
  BY <1>1, <1>2, <1>3, <1>6, <1>7, <1>8, <1>10, <1>11, <1>12, <1>13, Zenon DEF OwnStep
<1> QED
  BY <1>6, <1>14, Zenon

\* Labels where a task writes or waits to write.
LEMMA WritingLabel ==
  ASSUME Inv, NEW t \in Tasks, at[t] \in Writing, Runs(t, at[t])
  PROVE  /\ at[t] # "done" /\ at[t] \notin Reading /\ at[t] \notin Polling /\ at[t] \in Sleeping
         /\ OutPipe(t) \in Pipes /\ RingOK(ring[OutPipe(t)])
         /\ OutPipe(t) = OutOf(Head(prog[t])) /\ Want(t) = WantOf(Head(prog[t]), aux[t])
         /\ Want(t) \in Nat \ {0}
<1>1. /\ at[t] # "done" /\ at[t] \notin Reading /\ at[t] \notin Polling /\ at[t] \in Sleeping
  BY DEF Reading, Writing, Polling, Sleeping
<1>2. IsRings(ring) /\ TaskOK(prog[t], at[t], aux[t])
  BY <1>1, AtCall, Zenon
<1>3. OutPipe(t) = OutOf(Head(prog[t])) /\ Want(t) = WantOf(Head(prog[t]), aux[t])
  BY Zenon DEF OutPipe, OutOf, Want, WantOf, Call
<1>4. OutOf(Head(prog[t])) \in Pipes /\ WantOf(Head(prog[t]), aux[t]) \in Nat \ {0}
  BY <1>2, WriterCall, Zenon
<1> QED
  BY <1>1, <1>2, <1>3, <1>4, Zenon DEF IsRings

\* Nobody is left to read.
LEMMA WritePipeStep ==
  ASSUME Inv, NEW t \in Tasks, WritePipe(t)
  PROVE  (\E w : OwnStep(t, w)) /\ Unseen
<1>1. /\ at[t] \in Writing /\ Runs(t, at[t]) /\ Return(t) /\ RingStep /\ ring' = ring
      /\ toWake' = toWake /\ taken' = taken
  BY Zenon DEF WritePipe
<1>2. at[t] # "done"
  BY <1>1, WritingLabel, Zenon
<1>3. OwnStep(t, <<>>)
  BY <1>1, <1>2, PlainReturn, Zenon DEF RingStep
<1> QED
  BY <1>1, <1>3, SameRings, Zenon

\* A write that would block and may not.
LEMMA WriteAgainStep ==
  ASSUME Inv, NEW t \in Tasks, WriteAgain(t)
  PROVE  (\E w : OwnStep(t, w)) /\ Unseen
<1>1. /\ at[t] \in Writing /\ Runs(t, at[t]) /\ Return(t) /\ RingStep /\ ring' = ring
      /\ toWake' = toWake /\ taken' = taken
  BY Zenon DEF WriteAgain
<1>2. at[t] # "done"
  BY <1>1, WritingLabel, Zenon
<1>3. OwnStep(t, <<>>)
  BY <1>1, <1>2, PlainReturn, Zenon DEF RingStep
<1> QED
  BY <1>1, <1>3, SameRings, Zenon

\* A writer queues and blocks.
LEMMA RegisterWriterStep ==
  ASSUME Inv, NEW t \in Tasks, RegisterWriter(t)
  PROVE  (\E w : OwnStep(t, w)) /\ Unseen
<1> DEFINE p == OutPipe(t)
           r == ring[p]
           q == WithWriteQueue(r, Registered(r.write_waiters, t))
<1>1. /\ at[t] \in Writing /\ Runs(t, at[t]) /\ Stay(t)
      /\ r.read_end_open /\ MustWait(r, at[t], Want(t))
      /\ ring' = [ring EXCEPT ![p].write_waiters = Registered(@, t)]
      /\ st' = [st EXCEPT ![t] = "block"]
      /\ token' = token /\ toWake' = toWake /\ signals' = signals /\ taken' = taken /\ grown' = grown
  BY Zenon DEF RegisterWriter
<1>2. /\ at[t] # "done" /\ at[t] \notin Reading /\ at[t] \notin Polling /\ at[t] \in Sleeping
      /\ p \in Pipes /\ RingOK(r)
      /\ p = OutOf(Head(prog[t])) /\ Want(t) = WantOf(Head(prog[t]), aux[t]) /\ Want(t) \in Nat \ {0}
  BY <1>1, WritingLabel, Zenon
<1>3. st[t] = "run" /\ toWake[t] = <<>> /\ IsRings(ring) /\ intr \in [Tasks -> BOOLEAN]
  BY <1>1, <1>2, AtCall, Zenon
<1>4. ring' = [ring EXCEPT ![p] = q]
  BY <1>1, Zenon DEF WithWriteQueue
<1>5. Quiet(q, r, <<>>, grown', t) /\ Contains(q.write_waiters, t)
  BY <1>2, WriterQueued, Zenon
<1> HIDE DEF q, p
<1>6. AllEffect(ring', ring, <<>>, grown', t) /\ Unseen /\ ring'[p] = q
  BY <1>1, <1>2, <1>3, <1>4, <1>5, QuietRing, Zenon
<1>7. prog' = prog /\ at' = at /\ aux' = aux /\ intr' \in [Tasks -> BOOLEAN]
  BY <1>1, <1>3, Zenon DEF Stay
<1>8. Local(t)
  BY <1>7, StaysLocal, Zenon
<1>9. Stuck(q, t, at[t], Want(t))
  <2>1. SameEnds(q, r) /\ AvailableWrite(q) = AvailableWrite(r)
    BY <1>5, Zenon DEF Quiet, SameBytes, SameNumbers, AvailableRead, AvailableWrite
  <2> QED
    BY <1>1, <1>5, <2>1, Zenon DEF Stuck, SameEnds, MustWait
<1>10. WriterIdle(ring', prog'[t], at'[t], aux'[t], st'[t], t)
  BY <1>2, <1>6, <1>7, <1>9, Zenon DEF WriterIdle
<1>11. ReaderIdle(ring', prog'[t], at'[t], st'[t], t)
  BY <1>2, <1>7, Zenon DEF ReaderIdle
<1>12. PollIdle(ring', prog'[t], at'[t], aux'[t], st'[t], t)
  <2>1. at[t] # "enlist" /\ at[t] # "rescan" /\ at[t] # "delist"
    BY <1>2 DEF Polling
  <2> QED
    BY <1>7, <2>1, Zenon DEF PollIdle
<1>13. /\ st' \in [Tasks -> {"run", "block", "asleep", "awake"}] /\ st'[t] = "block"
       /\ \A u \in Tasks \ {t} : st'[u] = st[u] /\ toWake'[u] = toWake[u]
       /\ toWake' \in [Tasks -> Seq(Tasks)] /\ toWake'[t] = <<>>
       /\ "block" \in {"run", "block"}
  BY <1>1, <1>3, BlocksTypes, Zenon
<1>14. OwnStep(t, <<>>)
  BY <1>1, <1>2, <1>3, <1>6, <1>7, <1>8, <1>10, <1>11, <1>12, <1>13, Zenon DEF OwnStep
<1> QED
  BY <1>6, <1>14, Zenon

\* Changes of the locals.
WithDone(x, n)   == [x EXCEPT !.done = n]
WithRoom(x, n)   == [x EXCEPT !.room = n]
WithPeeked(x, s) == [x EXCEPT !.peeked = s]
WithChunk(x, n)  == [x EXCEPT !.done = n, !.peeked = <<>>]
WithFd(x, i, h)  == [x EXCEPT !.i = i, !.hit = h]
WithI(x, i)      == [x EXCEPT !.i = i]

\* They keep their types.
LEMMA AuxSet ==
  ASSUME NEW x, x \in Aux, NEW n \in Nat, NEW s, s \in Seq(Bytes), NEW h \in BOOLEAN
  PROVE  /\ WithDone(x, n) \in Aux /\ WithDone(x, n).done = n /\ WithDone(x, n).room = x.room
         /\ WithRoom(x, n) \in Aux /\ WithRoom(x, n).room = n /\ WithRoom(x, n).done = x.done
         /\ WithPeeked(x, s) \in Aux /\ WithPeeked(x, s).peeked = s
         /\ WithPeeked(x, s).room = x.room /\ WithPeeked(x, s).done = x.done
         /\ WithChunk(x, n) \in Aux /\ WithChunk(x, n).done = n /\ WithChunk(x, n).room = x.room
         /\ WithFd(x, n, h) \in Aux /\ WithFd(x, n, h).i = n
         /\ WithI(x, n) \in Aux /\ WithI(x, n).i = n
<1>1. WithDone(x, n) \in Aux /\ WithDone(x, n).done = n /\ WithDone(x, n).room = x.room
  BY DEF Aux, WithDone
<1>2. WithRoom(x, n) \in Aux /\ WithRoom(x, n).room = n /\ WithRoom(x, n).done = x.done
  BY DEF Aux, WithRoom
<1>3. /\ WithPeeked(x, s) \in Aux /\ WithPeeked(x, s).peeked = s
      /\ WithPeeked(x, s).room = x.room /\ WithPeeked(x, s).done = x.done
  BY DEF Aux, WithPeeked
<1>4. WithChunk(x, n) \in Aux /\ WithChunk(x, n).done = n /\ WithChunk(x, n).room = x.room
  <2>1. <<>> \in Seq(Bytes)
    OBVIOUS
  <2> QED
    BY <2>1 DEF Aux, WithChunk
<1>5. WithFd(x, n, h) \in Aux /\ WithFd(x, n, h).i = n /\ WithI(x, n) \in Aux /\ WithI(x, n).i = n
  BY DEF Aux, WithFd, WithI
<1> QED
  BY <1>1, <1>2, <1>3, <1>4, <1>5, Zenon

\* The call goes on elsewhere.
LEMMA OnwardOK ==
  ASSUME NEW pr, NEW b, NEW x, TaskOK(pr, b, x), b # "done",
         NEW a, a \in Labels, NEW y, y \in Aux, CallOK(Head(pr), a, y)
  PROVE  TaskOK(pr, a, y)
BY CurrentCall, Zenon DEF TaskOK

\* The bytes of d come to pipe p.
Gives(p, d) ==
  /\ ring[p].read_end_open /\ d \in Seq(Bytes) /\ Len(d) <= AvailableWrite(ring[p])
  /\ Only(p) /\ Fed(ring'[p], ring[p], d) /\ taken' = taken

\* write that finds room.
LEMMA WriteDataStep ==
  ASSUME Inv, NEW t \in Tasks, WriteData(t)
  PROVE  /\ \E w : OwnStep(t, w)
         /\ \E p \in Pipes : \E d : Gives(p, d)
<1> DEFINE c == Call(t)
           a == at[t]
           x == aux[t]
           p == c.pipe
           r == ring[p]
           src == SubSeq(c.data, x.done + 1, Len(c.data))
           w == Readers(r)
           Body(loop) ==
             /\ ring' = [ring EXCEPT ![p] = IF w = <<>> THEN AfterWrite(r, loop, src)
                                            ELSE TakeReaders(AfterWrite(r, loop, src))]
             /\ Wake(t, w)
             /\ IF a = "write" \/ Len(loop.offs) = Len(src)
                THEN Return(t)
                ELSE /\ aux' = [aux EXCEPT ![t] = WithDone(x, x.done + Len(loop.offs))]
                     /\ UNCHANGED <<prog, at, intr>>
<1>1. /\ a \in {"write", "writev"} /\ Runs(t, a) /\ RingStep /\ taken' = taken
      /\ r.read_end_open /\ ~MustWait(r, a, Len(src))
      /\ \E loop \in Writes(r, Len(src)) : Body(loop)
  BY Zenon DEF WriteData, WakeAfterWrite, WithDone
<1>2. a # "done" /\ a \in Labels
  BY <1>1 DEF Labels
<1>3. /\ st[t] = "run" /\ toWake[t] = <<>> /\ TaskOK(prog[t], a, x)
      /\ IsRings(ring) /\ intr \in [Tasks -> BOOLEAN]
      /\ CallFields(c) /\ CallOK(c, a, x) /\ x \in Aux
  BY <1>1, <1>2, AtCall
<1>4. PICK loop \in Writes(r, Len(src)) : Body(loop)
  BY <1>1, Zenon
<1> HIDE DEF c, a, x
<1>5. c.op = a /\ x.done < Len(c.data)
  BY <1>1, <1>3, LabelCall
<1>6. p \in Pipes /\ c.data \in Seq(Bytes)
  BY <1>1, <1>3, <1>5 DEF CallFields
<1>7. PICK k \in Nat, l \in Nat : k = x.done /\ l = Len(c.data) /\ k < l
  <2>1. x.done \in Nat
    BY <1>3 DEF Aux
  <2>2. Len(c.data) \in Nat
    BY ONLY <1>6
  <2> QED
    BY <1>5, <2>1, <2>2, Zenon
<1>8. src \in Seq(Bytes) /\ Len(src) = l - k /\ l - k \in Nat \ {0}
  <2>1. k <= l /\ l - k \in Nat \ {0}
    BY <1>7
  <2>2. src = SubSeq(c.data, k + 1, l)
    BY <1>7, Zenon
  <2>3. SubSeq(c.data, k + 1, l) \in Seq(Bytes) /\ Len(SubSeq(c.data, k + 1, l)) = l - k
    BY <1>6, <1>7, <2>1, Suffix
  <2> QED
    BY <2>1, <2>2, <2>3, Zenon
<1>9. RingOK(r)
  BY <1>3, <1>6, Zenon DEF IsRings
<1> HIDE DEF src, p
<1>10. PICK n \in Nat : WriteOutcome(r, Len(src), loop, n)
  BY <1>4, <1>8, <1>9, WritesIs
<1>11. n # 0 /\ n <= l - k /\ n <= AvailableWrite(r) /\ Len(loop.offs) = n
       /\ Gave(AfterWrite(r, loop, src), r, SubSeq(src, 1, n))
  <2>1. n <= Len(src) /\ n <= AvailableWrite(r) /\ (n = Len(src) \/ n = AvailableWrite(r))
        /\ Len(loop.offs) = n
    BY <1>10, Zenon DEF WriteOutcome
  <2>2. AvailableWrite(r) # 0
    BY <1>1, Zenon DEF MustWait
  <2>3. n # 0
    BY <1>8, <2>1, <2>2
  <2> QED
    BY <1>8, <1>10, <2>1, <2>3, Zenon DEF WriteOutcome
<1> DEFINE d == SubSeq(src, 1, n)
<1>12. d \in Seq(Bytes) /\ Len(d) = n
  <2>1. PICK m \in Nat : m = l - k
    BY <1>8
  <2>2. n <= m /\ Len(src) = m
    BY <1>8, <1>11, <2>1
  <2> QED
    BY <1>8, <2>1, <2>2, Prefix
<1>13. Within(w, w) /\ w \in Seq(Tasks)
  BY <1>9, WaitersIn, Zenon DEF Within
<1> DEFINE m == AfterWrite(r, loop, src)
           y == IF w = <<>> THEN m ELSE TakeReaders(m)
<1>14. Effect(y, r, w, grown', t) /\ Fed(y, r, d)
  <2> HIDE DEF m, d
  <2>1. Gave(m, r, d) /\ Len(d) \in Nat
    BY <1>11, <1>12 DEF m, d
  <2>2. /\ Effect(TakeReaders(m), r, w, grown', t) /\ Fed(TakeReaders(m), r, d)
        /\ Readers(r) = <<>> => Effect(m, r, w, grown', t) /\ Fed(m, r, d)
    BY <1>9, <1>13, <2>1, GaveEffect, Zenon
  <2> QED
    BY <2>2, Zenon
<1>15. ring' = [ring EXCEPT ![p] = y] /\ toWake' = [toWake EXCEPT ![t] = w]
  BY <1>4, Zenon DEF Wake
<1>16. st' = st /\ token' = token /\ signals' = signals /\ grown \subseteq grown'
  BY <1>1, Zenon DEF RingStep
<1>17. Local(t) /\ at'[t] \notin {"enlist", "rescan"}
  <2>1. CASE Return(t)
    BY <1>2, <2>1, ReturnLocal, Zenon DEF a
  <2>2. CASE /\ ~(a = "write" \/ Len(loop.offs) = Len(src))
             /\ aux' = [aux EXCEPT ![t] = WithDone(x, x.done + Len(loop.offs))]
             /\ UNCHANGED <<prog, at, intr>>
    <3> DEFINE z == WithDone(x, k + n)
    <3>1. a = "writev" /\ n # l - k
      BY <1>1, <1>8, <1>11, <2>2
    <3>2. k + n \in Nat /\ k + n < l
      <4>1. n <= l - k /\ n # l - k
        BY <1>11, <3>1
      <4> QED
        BY ONLY <4>1
    <3>3. z \in Aux /\ z.done = k + n
      BY <1>3, <3>2, AuxSet, EmptySeq
    <3> HIDE DEF z
    <3>4. CallOK(c, a, z)
      BY ONLY <1>5, <1>7, <3>1, <3>2, <3>3 DEF CallOK
    <3>5. TaskOK(prog[t], a, z)
      BY <1>2, <1>3, <3>3, <3>4, OnwardOK, Zenon DEF c, Call
    <3>6. aux' = [aux EXCEPT ![t] = z]
      BY <1>7, <1>11, <2>2, Zenon DEF z
    <3>7. at' = [at EXCEPT ![t] = a]
      BY <2>2, Zenon DEF Inv, Types, a
    <3>8. prog' = prog /\ intr' \in [Tasks -> BOOLEAN]
      BY <1>3, <2>2, Zenon
    <3>9. Local(t) /\ at'[t] = a
      BY <3>5, <3>6, <3>7, <3>8, GoesOn, Zenon
    <3> QED
      BY <3>1, <3>9
  <2> QED
    BY <1>4, <2>1, <2>2, Zenon
<1> HIDE DEF y, w
<1>18. AllEffect(ring', ring, w, grown', t)
  BY <1>3, <1>6, <1>14, <1>15, OneRing, Zenon
<1>19. ring'[p] = y /\ Only(p)
  BY <1>3, <1>6, <1>15, Replaced, Zenon
<1>20. OwnStep(t, w)
  BY <1>3, <1>13, <1>15, <1>16, <1>17, <1>18, CalmStep, Zenon
<1>21. Gives(p, d)
  BY <1>1, <1>11, <1>12, <1>14, <1>19, Zenon DEF Gives
<1> QED
  BY <1>6, <1>20, <1>21, Zenon

\* A call that goes on and changes no ring.
LEMMA OnStep ==
  ASSUME Inv, NEW t \in Tasks, NEW b, Runs(t, b), b # "done",
         NEW a, a \in Labels \ {"enlist", "rescan"}, NEW y, y \in Aux, CallOK(Call(t), a, y),
         at' = [at EXCEPT ![t] = a], aux' = [aux EXCEPT ![t] = y], prog' = prog, intr' = intr,
         ring' = ring, toWake' = toWake, RingStep
  PROVE  OwnStep(t, <<>>)
<1>1. /\ st[t] = "run" /\ toWake[t] = <<>> /\ at[t] = b /\ TaskOK(prog[t], b, aux[t])
      /\ IsRings(ring) /\ intr \in [Tasks -> BOOLEAN] /\ toWake = [toWake EXCEPT ![t] = <<>>]
  BY AtCall, Zenon
<1>2. TaskOK(prog[t], a, y)
  BY <1>1, OnwardOK, Zenon DEF Call
<1>3. intr' \in [Tasks -> BOOLEAN]
  BY <1>1, Zenon
<1>4. Local(t) /\ at'[t] = a
  BY <1>2, <1>3, GoesOn, Zenon
<1>5. AllEffect(ring', ring, <<>>, grown', t)
  BY <1>1, NoRings, Zenon
<1>6. /\ grown \subseteq grown' /\ toWake' = [toWake EXCEPT ![t] = <<>>] /\ at'[t] \notin {"enlist", "rescan"}
      /\ st' = st /\ token' = token /\ signals' = signals
  BY <1>1, <1>4, Zenon DEF RingStep
<1> QED
  BY <1>1, <1>4, <1>5, <1>6, EmptyQueue, CalmStep, Zenon

\* Splice finds bytes.
LEMMA SpliceReadableStep ==
  ASSUME Inv, NEW t \in Tasks, SpliceReadable(t)
  PROVE  (\E w : OwnStep(t, w)) /\ Unseen
<1> DEFINE c == Call(t)
           x == aux[t]
           n == AvailableRead(ring[c.pipe])
           v == IF c.op = "drain" THEN Min({n, c.n}) ELSE n
           a == IF c.op = "drain" THEN "peek" ELSE "waitout"
<1>1. /\ Runs(t, "waitin") /\ RingStep /\ ring' = ring /\ prog' = prog /\ intr' = intr
      /\ toWake' = toWake /\ taken' = taken
      /\ aux' = [aux EXCEPT ![t] = WithRoom(x, v)] /\ at' = [at EXCEPT ![t] = a]
  BY Zenon DEF SpliceReadable, WithRoom, Goto
<1>2. IsRings(ring) /\ CallFields(c) /\ CallOK(c, "waitin", x) /\ x \in Aux
  BY <1>1, AtCall
<1> HIDE DEF c, x
<1>3. c.op \in {"splice", "drain"}
  BY <1>2, LabelCall
<1>4. c.pipe \in Pipes /\ c.n \in Nat
  BY <1>2, <1>3 DEF CallFields
<1>5. n \in Nat
  <2>1. RingOK(ring[c.pipe])
    BY <1>2, <1>4, Zenon DEF IsRings
  <2> QED
    BY <2>1, RingLevel
<1> HIDE DEF n
<1>6. v \in Nat
  <2>1. Least2(n, c.n) \in Nat
    BY <1>4, <1>5, LeastOfTwo
  <2> QED
    BY <1>5, <2>1, Zenon DEF Least2
<1> DEFINE y == WithRoom(x, v)
<1> HIDE DEF v
<1>7. y \in Aux /\ y.room = v /\ y.done = x.done
  BY <1>2, <1>6, AuxSet, EmptySeq
<1> HIDE DEF y
<1>8. CallOK(c, a, y)
  <2>1. CASE c.op = "drain"
    <3>1. x.done = 0
      BY <1>2, <2>1 DEF CallOK, Polling
    <3> QED
      BY <1>6, <1>7, <2>1, <3>1 DEF CallOK
  <2>2. CASE c.op = "splice"
    <3>1. x.done < c.n
      BY <1>2, <2>2 DEF CallOK, Polling
    <3> QED
      BY <1>7, <2>2, <3>1 DEF CallOK
  <2> QED
    BY <1>3, <2>1, <2>2
<1>9. a \in Labels \ {"enlist", "rescan"}
  BY DEF Labels
<1> HIDE DEF a
<1>10. OwnStep(t, <<>>)
  <2>1. "waitin" # "done" /\ CallOK(Call(t), a, y) /\ aux' = [aux EXCEPT ![t] = y]
    BY <1>1, <1>8 DEF c, y
  <2> QED
    BY <1>1, <1>7, <1>9, <2>1, OnStep, Zenon
<1> QED
  BY <1>1, <1>10, SameRings, Zenon

\* The least of four numbers.
LEMMA LeastOfFour ==
  ASSUME NEW a \in Nat, NEW b \in Nat, NEW c \in Nat, NEW d \in Nat
  PROVE  Min({a, b, c, d}) \in Nat
<1>1. \E m \in {a, b, c, d} : m <= a /\ m <= b /\ m <= c /\ m <= d
  OBVIOUS
<1>2. Min({a, b, c, d}) \in {a, b, c, d}
  BY <1>1 DEF Min
<1> QED
  BY <1>2

\* Splice finds room.
LEMMA SpliceWritableStep ==
  ASSUME Inv, NEW t \in Tasks, SpliceWritable(t)
  PROVE  (\E w : OwnStep(t, w)) /\ Unseen
<1> DEFINE c == Call(t)
           x == aux[t]
           n == AvailableWrite(ring[c.out])
           v == IF c.op = "fill" THEN Min({n, Len(c.data) - x.done, PAGE_SIZE})
                ELSE Min({n, x.room, c.n - x.done, PAGE_SIZE})
           a == IF c.op = "fill" THEN "store" ELSE "transfer"
<1>1. /\ Runs(t, "waitout") /\ RingStep /\ ring' = ring /\ prog' = prog /\ intr' = intr
      /\ toWake' = toWake /\ taken' = taken
      /\ aux' = [aux EXCEPT ![t] = WithRoom(x, v)] /\ at' = [at EXCEPT ![t] = a]
  BY Zenon DEF SpliceWritable, WithRoom, Goto, SPLICE_CHUNK_SIZE
<1>2. IsRings(ring) /\ CallFields(c) /\ CallOK(c, "waitout", x) /\ x \in Aux
  BY <1>1, AtCall
<1> HIDE DEF c, x
<1>3. c.op \in {"splice", "fill"}
  BY <1>2, LabelCall
<1>4. c.out \in Pipes
  BY <1>2, <1>3 DEF CallFields
<1>5. n \in Nat
  <2>1. RingOK(ring[c.out])
    BY <1>2, <1>4, Zenon DEF IsRings
  <2> QED
    BY <2>1, RingLevel
<1> HIDE DEF n
<1>6. PICK k \in Nat, m \in Nat : x.done = k /\ x.room = m
  BY <1>2 DEF Aux
<1>7. PAGE_SIZE \in Nat
  BY PipeAssumption
<1> DEFINE y == WithRoom(x, v)
<1>8. ASSUME v \in Nat
      PROVE  y \in Aux /\ y.room = v /\ y.done = k
  <2> HIDE DEF v
  <2> QED
    BY <1>2, <1>6, <1>8, AuxSet, EmptySeq
<1>9. CASE c.op = "fill"
  <2>1. PICK l \in Nat : Len(c.data) = l /\ k < l
    <3>1. x.done < Len(c.data) /\ c.data \in Seq(Bytes)
      BY <1>2, <1>9 DEF CallOK, Polling, CallFields
    <3> QED
      BY <1>6, <3>1, LenProperties
  <2>2. l - k \in Nat
    BY <2>1
  <2>3. Least3(n, l - k, PAGE_SIZE) \in Nat /\ Least3(n, l - k, PAGE_SIZE) <= l - k
    BY <1>5, <1>7, <2>2, LeastOfThree
  <2>4. v = Least3(n, l - k, PAGE_SIZE) /\ a = "store"
    BY <1>6, <1>9, <2>1, Zenon DEF Least3
  <2> HIDE DEF v
  <2>5. PICK e \in Nat : e = v /\ e <= l - k
    BY <2>3, <2>4
  <2>6. k + e <= l
    BY <2>5
  <2>7. y \in Aux /\ y.room = e /\ y.done = k
    BY <1>8, <2>5
  <2> HIDE DEF y
  <2>8. CallOK(c, a, y)
    BY <1>9, <2>1, <2>4, <2>6, <2>7 DEF CallOK
  <2>9. a \in Labels \ {"enlist", "rescan"}
    BY DEF Labels
  <2> HIDE DEF a
  <2>10. "waitout" # "done" /\ CallOK(Call(t), a, y) /\ aux' = [aux EXCEPT ![t] = y]
    BY <1>1, <2>8 DEF c, y
  <2>11. OwnStep(t, <<>>)
    BY <1>1, <2>7, <2>9, <2>10, OnStep, Zenon
  <2> QED
    BY <1>1, <2>11, SameRings, Zenon
<1>10. CASE c.op = "splice"
  <2>1. PICK l \in Nat : c.n = l /\ k < l
    BY <1>2, <1>6, <1>10 DEF CallOK, Polling, CallFields
  <2>2. l - k \in Nat
    BY <2>1
  <2>3. Min({n, m, l - k, PAGE_SIZE}) \in Nat
    BY <1>5, <1>7, <2>2, LeastOfFour
  <2>4. v = Min({n, m, l - k, PAGE_SIZE}) /\ a = "transfer"
    BY <1>6, <1>10, <2>1
  <2>5. y \in Aux /\ y.done = k
    BY <1>8, <2>3, <2>4, Zenon
  <2> HIDE DEF v, y
  <2>8. CallOK(c, a, y)
    BY <1>10, <2>1, <2>4, <2>5 DEF CallOK
  <2>9. a \in Labels \ {"enlist", "rescan"}
    BY DEF Labels
  <2> HIDE DEF a
  <2>10. "waitout" # "done" /\ CallOK(Call(t), a, y) /\ aux' = [aux EXCEPT ![t] = y]
    BY <1>1, <2>8 DEF c, y
  <2>11. OwnStep(t, <<>>)
    BY <1>1, <2>5, <2>9, <2>10, OnStep, Zenon
  <2> QED
    BY <1>1, <2>11, SameRings, Zenon
<1> QED
  BY <1>3, <1>9, <1>10

\* All of a sequence.
LEMMA WholeSeq ==
  ASSUME NEW S, NEW s, s \in Seq(S)
  PROVE  SubSeq(s, 1, Len(s)) = s
<1>1. PICK n \in Nat : n = Len(s)
  BY LenProperties
<1>2. /\ SubSeq(s, 1, n) \in Seq(S) /\ Len(SubSeq(s, 1, n)) = n
      /\ \A i \in 1..n : SubSeq(s, 1, n)[i] = s[i]
  BY <1>1, Prefix
<1> QED
  BY <1>1, <1>2, SeqEqual

\* The count of what is done.
LEMMA DoneSet ==
  ASSUME NEW x, x \in Aux, NEW n, n \in Nat
  PROVE  WithDone(x, n) \in Aux /\ WithDone(x, n).done = n /\ WithDone(x, n).room = x.room
BY DEF Aux, WithDone

\* n bytes go from pipe p to pipe q.
Moves(p, q, n) ==
  /\ n <= AvailableRead(ring[p]) /\ n <= AvailableWrite(ring[q]) /\ ring[q].read_end_open
  /\ \A o \in Pipes : o # p /\ o # q => ring'[o] = ring[o]
  /\ Drawn(ring'[p], ring[p], n) /\ Fed(ring'[q], ring[q], SubSeq(Content(ring[p]), 1, n))
  /\ taken' = [taken EXCEPT ![p] = @ \o SubSeq(Content(ring[p]), 1, n)]

\* What transfer_to does to the two rings.
Transfers(t, c, x, b) ==
  \E loop \in Writes(ring[c.out], Len(b)) :
    /\ b # <<>>
    /\ ring' = [ring EXCEPT ![c.pipe] = TakeWriters(DiscardSlice(ring[c.pipe], Len(b))),
                            ![c.out] = TakeReaders(AfterWrite(ring[c.out], loop, b))]
    /\ taken' = [taken EXCEPT ![c.pipe] = @ \o b]
    /\ toWake' = [toWake EXCEPT ![t] = Writers(ring[c.pipe]) \o Readers(ring[c.out])]
    /\ IF Len(b) < x.room \/ x.done + Len(b) >= c.n
       THEN Return(t)
       ELSE /\ aux' = [aux EXCEPT ![t] = WithDone(x, x.done + Len(b))]
            /\ at' = [at EXCEPT ![t] = "waitin"]
            /\ UNCHANGED <<prog, intr>>

\* transfer_to that moves bytes.
LEMMA TransferMoves ==
  ASSUME Inv, NEW t \in Tasks, Runs(t, "transfer"), RingStep, ring[Call(t).out].read_end_open,
         NEW m \in Nat, m <= AvailableRead(ring[Call(t).pipe]), m <= AvailableWrite(ring[Call(t).out]),
         Transfers(t, Call(t), aux[t], SubSeq(Content(ring[Call(t).pipe]), 1, m))
  PROVE  /\ \E w : OwnStep(t, w)
         /\ \E p \in Pipes : /\ Consumes(Call(t), p)
                          /\ \E q \in Pipes \ {p} : \E n \in Nat \ {0} : Moves(p, q, n)
<1> DEFINE c == Call(t)
           x == aux[t]
           p == c.pipe
           q == c.out
           rp == ring[p]
           rq == ring[q]
           b == SubSeq(Content(rp), 1, m)
<1>1. /\ st[t] = "run" /\ toWake[t] = <<>> /\ at[t] = "transfer" /\ TaskOK(prog[t], "transfer", x)
      /\ IsRings(ring) /\ intr \in [Tasks -> BOOLEAN]
      /\ CallFields(c) /\ CallOK(c, "transfer", x) /\ x \in Aux
  BY AtCall
<1>2. Transfers(t, c, x, b) /\ rq.read_end_open /\ m <= AvailableRead(rp) /\ m <= AvailableWrite(rq)
  BY Zenon
<1> HIDE DEF c, x
<1>3. c.op = "splice" /\ x.done < c.n
  BY <1>1, LabelCall
<1>4. p \in Pipes /\ q \in Pipes /\ p # q /\ c.n \in Nat
  BY <1>1, <1>3 DEF CallFields
<1>5. RingOK(rp) /\ RingOK(rq)
  BY <1>1, <1>4, Zenon DEF IsRings
<1>6. b \in Seq(Bytes) /\ Len(b) = m
  <2>1. PICK l \in Nat : Len(Content(rp)) = l /\ m <= l /\ Content(rp) \in Seq(Bytes)
    BY <1>2, <1>5, RingLevel
  <2> QED
    BY <2>1, Prefix
<1> DEFINE w == Writers(rp) \o Readers(rq)
<1>7. PICK loop \in Writes(rq, Len(b)) :
    /\ b # <<>>
    /\ ring' = [ring EXCEPT ![p] = TakeWriters(DiscardSlice(rp, Len(b))),
                            ![q] = TakeReaders(AfterWrite(rq, loop, b))]
    /\ taken' = [taken EXCEPT ![p] = @ \o b]
    /\ toWake' = [toWake EXCEPT ![t] = w]
    /\ IF Len(b) < x.room \/ x.done + Len(b) >= c.n
       THEN Return(t)
       ELSE /\ aux' = [aux EXCEPT ![t] = WithDone(x, x.done + Len(b))]
            /\ at' = [at EXCEPT ![t] = "waitin"]
            /\ UNCHANGED <<prog, intr>>
  BY <1>2, Zenon DEF Transfers
<1> HIDE DEF b
<1>8. m \in Nat \ {0}
  BY <1>6, <1>7, EmptySeq
<1>9. Gave(AfterWrite(rq, loop, b), rq, b)
  <2>1. loop \in Writes(rq, m)
    BY <1>6, <1>7, Zenon
  <2>2. PICK k \in Nat : WriteOutcome(rq, m, loop, k)
    BY <1>5, <2>1, WritesIs, Zenon
  <2>3. k = m
    <3>1. k <= m /\ (k = m \/ k = AvailableWrite(rq))
      BY <2>2, Zenon DEF WriteOutcome
    <3>2. PICK a \in Nat : a = AvailableWrite(rq) /\ m <= a
      <4> HIDE DEF rq
      <4>1. RingOK(rq) /\ m <= AvailableWrite(rq)
        BY <1>2, <1>5, Zenon
      <4>2. AvailableWrite(rq) \in Nat
        BY ONLY <4>1, RingLevel
      <4> QED
        BY <4>1, <4>2, Zenon
    <3> QED
      BY ONLY <3>1, <3>2
  <2>4. m # 0 /\ m <= Len(b)
    BY <1>6, <1>8
  <2>5. Gave(AfterWrite(rq, loop, b), rq, SubSeq(b, 1, m))
    BY <1>6, <2>2, <2>3, <2>4, Zenon DEF WriteOutcome
  <2> QED
    BY <1>6, <2>5, WholeSeq, Zenon
<1>10. Took(DiscardSlice(rp, m), rp, m)
  BY <1>2, <1>5, <1>8, DiscardIs, Zenon
<1>11. w \in Seq(Tasks) /\ Within(Writers(rp), w) /\ Within(Readers(rq), w)
  BY <1>5, WaitersIn, JoinQueues, Zenon
<1> DEFINE y == TakeWriters(DiscardSlice(rp, m))
           z == TakeReaders(AfterWrite(rq, loop, b))
<1> HIDE DEF w, p, q
<1>12. Effect(y, rp, w, grown', t) /\ Drawn(y, rp, m)
  BY <1>2, <1>5, <1>8, <1>10, <1>11, TookEffect, Zenon
<1>13. Effect(z, rq, w, grown', t) /\ Fed(z, rq, b)
  BY <1>5, <1>6, <1>9, <1>11, GaveEffect, Zenon
<1>14. ring' = [ring EXCEPT ![p] = y, ![q] = z]
  BY <1>6, <1>7, Zenon
<1> HIDE DEF y, z
<1>15. AllEffect(ring', ring, w, grown', t)
  BY <1>1, <1>4, <1>12, <1>13, <1>14, TwoRings, Zenon
<1>16. ring'[p] = y /\ ring'[q] = z /\ \A o \in Pipes : o # p /\ o # q => ring'[o] = ring[o]
  <2> HIDE DEF rp, rq
  <2> QED
    BY <1>1, <1>4, <1>14, Zenon DEF IsRings
<1>17. Local(t) /\ at'[t] \notin {"enlist", "rescan"}
  <2>1. CASE Return(t)
    <3>1. at[t] # "done"
      BY <1>1
    <3> QED
      BY <2>1, <3>1, ReturnLocal, Zenon
  <2>2. CASE /\ ~(Len(b) < x.room \/ x.done + Len(b) >= c.n)
             /\ aux' = [aux EXCEPT ![t] = WithDone(x, x.done + Len(b))]
             /\ at' = [at EXCEPT ![t] = "waitin"]
             /\ UNCHANGED <<prog, intr>>
    <3>1. PICK k \in Nat, l \in Nat : x.done = k /\ c.n = l
      BY <1>1, <1>4 DEF Aux
    <3> DEFINE u == WithDone(x, k + m)
    <3>2. ~(k + m >= l)
      BY <1>6, <2>2, <3>1, Zenon
    <3>3. k + m \in Nat /\ k + m < l
      BY ONLY <3>2
    <3>4. u \in Aux /\ u.done = k + m
      BY <1>1, <3>3, DoneSet, Zenon
    <3> HIDE DEF u
    <3>5. CallOK(c, "waitin", u) /\ "waitin" \in Labels /\ "transfer" # "done"
      BY ONLY <1>3, <3>1, <3>3, <3>4 DEF CallOK, Labels
    <3>6. TaskOK(prog[t], "waitin", u)
      BY <1>1, <3>4, <3>5, OnwardOK, Zenon DEF c, Call
    <3>7. aux' = [aux EXCEPT ![t] = u] /\ prog' = prog /\ intr' \in [Tasks -> BOOLEAN]
      BY <1>1, <1>6, <2>2, <3>1, Zenon DEF u
    <3>8. Local(t) /\ at'[t] = "waitin"
      BY <2>2, <3>6, <3>7, GoesOn, Zenon
    <3> QED
      BY <3>8
  <2> QED
    BY <1>7, <2>1, <2>2, Zenon
<1>18. OwnStep(t, w)
  <2>1. st' = st /\ token' = token /\ signals' = signals /\ grown \subseteq grown'
        /\ toWake' = [toWake EXCEPT ![t] = w]
    BY <1>7, Zenon DEF RingStep
  <2> QED
    BY <1>1, <1>11, <1>15, <1>17, <2>1, CalmStep, Zenon
<1>19. Moves(p, q, m)
  BY <1>2, <1>7, <1>12, <1>13, <1>16, Zenon DEF Moves, b
<1>20. q \in Pipes \ {p}
  BY <1>4, Zenon
<1>21. Consumes(c, p)
  BY <1>3 DEF Consumes, p
<1> QED
  BY <1>4, <1>8, <1>18, <1>19, <1>20, <1>21, Zenon DEF c

\* transfer_to.
LEMMA TransferStep ==
  ASSUME Inv, NEW t \in Tasks, Transfer(t)
  PROVE  /\ \E w : OwnStep(t, w)
         /\ \/ Unseen
            \/ \E p \in Pipes : /\ Consumes(Call(t), p)
                              /\ \E q \in Pipes \ {p} : \E n \in Nat \ {0} : Moves(p, q, n)
<1> DEFINE c == Call(t)
           x == aux[t]
           rp == ring[c.pipe]
           rq == ring[c.out]
<1>1. /\ Runs(t, "transfer") /\ RingStep
      /\ \/ Return(t) /\ ring' = ring /\ toWake' = toWake /\ taken' = taken
         \/ /\ at' = [at EXCEPT ![t] = "waitin"] /\ ring' = ring /\ prog' = prog /\ aux' = aux
            /\ intr' = intr /\ toWake' = toWake /\ taken' = taken
         \/ /\ rq.read_end_open
            /\ \E peek \in Reads(rp, Min({x.room, AvailableWrite(rq)})) :
               \E bytes \in {BytesRead(rp, peek)} : Transfers(t, c, x, bytes)
  BY Zenon DEF Transfer, Transfers, Goto, Wake, WithDone
<1>2. /\ at[t] = "transfer" /\ "transfer" # "done"
      /\ IsRings(ring) /\ CallFields(c) /\ CallOK(c, "transfer", x) /\ x \in Aux
  BY <1>1, AtCall
<1>3. CASE Return(t) /\ ring' = ring /\ toWake' = toWake /\ taken' = taken
  <2>1. OwnStep(t, <<>>)
    BY <1>1, <1>2, <1>3, PlainReturn, Zenon DEF RingStep
  <2> QED
    BY <1>3, <2>1, SameRings, Zenon
<1>4. CASE /\ at' = [at EXCEPT ![t] = "waitin"] /\ ring' = ring /\ prog' = prog /\ aux' = aux
           /\ intr' = intr /\ toWake' = toWake /\ taken' = taken
  <2>1. aux' = [aux EXCEPT ![t] = x]
    BY <1>4, Zenon DEF Inv, Types
  <2>2. CallOK(c, "waitin", x) /\ "waitin" \in Labels \ {"enlist", "rescan"}
    <3> HIDE DEF c, x
    <3>1. c.op = "splice" /\ x.done < c.n
      BY <1>2, LabelCall
    <3> QED
      BY <3>1 DEF CallOK, Labels
  <2>3. OwnStep(t, <<>>)
    BY <1>1, <1>2, <1>4, <2>1, <2>2, OnStep, Zenon
  <2> QED
    BY <1>4, <2>3, SameRings, Zenon
<1>5. CASE /\ rq.read_end_open
           /\ \E peek \in Reads(rp, Min({x.room, AvailableWrite(rq)})) :
              \E bytes \in {BytesRead(rp, peek)} : Transfers(t, c, x, bytes)
  <2>1. PICK peek \in Reads(rp, Min({x.room, AvailableWrite(rq)})) : Transfers(t, c, x, BytesRead(rp, peek))
    BY <1>5, Zenon
  <2>2. RingOK(rp) /\ RingOK(rq) /\ x.room \in Nat
    <3> HIDE DEF c, x
    <3>1. c.op = "splice"
      BY <1>2, LabelCall
    <3>2. c.pipe \in Pipes /\ c.out \in Pipes
      BY <1>2, <3>1 DEF CallFields
    <3> QED
      BY <1>2, <3>2 DEF IsRings, Aux
  <2>3. PICK a \in Nat : a = AvailableWrite(rq)
    BY <2>2, RingLevel
  <2>4. PICK n \in Nat : n = Min({x.room, AvailableWrite(rq)}) /\ n <= a
    <3>1. Least2(x.room, a) \in Nat /\ Least2(x.room, a) <= a
      BY <2>2, <2>3, LeastOfTwo
    <3> QED
      BY <2>3, <3>1, Zenon DEF Least2
  <2>5. PICK m \in Nat : ReadOutcome(rp, n, peek, m)
    BY <2>1, <2>2, <2>4, ReadsIs, Zenon
  <2>6. m <= n /\ m <= AvailableRead(rp) /\ BytesRead(rp, peek) = SubSeq(Content(rp), 1, m)
    BY <2>5, Zenon DEF ReadOutcome
  <2>7. m <= AvailableWrite(rq)
    <3>1. m <= a
      BY ONLY <2>4, <2>6
    <3> QED
      BY <2>3, <3>1, Zenon
  <2>8. Transfers(t, c, x, SubSeq(Content(rp), 1, m))
    BY <2>1, <2>6, Zenon
  <2> QED
    BY <1>1, <1>5, <2>6, <2>7, <2>8, TransferMoves, Zenon
<1> QED
  BY <1>1, <1>3, <1>4, <1>5, Zenon

\* m elements of a sequence after the first k.
LEMMA Middle ==
  ASSUME NEW S, NEW c, c \in Seq(S), NEW k \in Nat, NEW m \in Nat, k + m <= Len(c)
  PROVE  SubSeq(c, k + 1, k + m) \in Seq(S) /\ Len(SubSeq(c, k + 1, k + m)) = m
<1>1. PICK l \in Nat : l = Len(c) /\ k + m <= l
  BY LenProperties
<1>2. k + 1 \in 1..(Len(c) + 1) /\ k + m \in 0..Len(c) /\ k + 1 \in 1..(l + 1)
  BY <1>1
<1>3. /\ SubSeq(c, k + 1, k + m) \in Seq(S)
      /\ Len(SubSeq(c, k + 1, k + m)) = IF k + 1 <= k + m THEN (k + m) - (k + 1) + 1 ELSE 0
  BY <1>1, <1>2, SubSeqProperties
<1>4. (IF k + 1 <= k + m THEN (k + m) - (k + 1) + 1 ELSE 0) = m
  BY ONLY TRUE
<1> QED
  BY <1>3, <1>4

\* A call that goes on, at label a with locals y, and wakes the tasks of w.
LEMMA OnWake ==
  ASSUME Inv, NEW t \in Tasks, NEW b, Runs(t, b), b # "done",
         NEW a, a \in Labels \ {"enlist", "rescan"}, NEW y, y \in Aux, CallOK(Call(t), a, y),
         at' = [at EXCEPT ![t] = a], aux' = [aux EXCEPT ![t] = y], prog' = prog, intr' = intr
  PROVE  Local(t) /\ at'[t] \notin {"enlist", "rescan"}
<1>1. TaskOK(prog[t], b, aux[t]) /\ intr \in [Tasks -> BOOLEAN]
  BY AtCall, Zenon
<1>2. TaskOK(prog[t], a, y) /\ intr' \in [Tasks -> BOOLEAN]
  BY <1>1, OnwardOK, Zenon DEF Call
<1> QED
  BY <1>2, GoesOn, Zenon

\* A file to a pipe.
LEMMA SpliceStoreStep ==
  ASSUME Inv, NEW t \in Tasks, SpliceStore(t)
  PROVE  /\ \E w : OwnStep(t, w)
         /\ Unseen \/ \E p \in Pipes : \E d : Gives(p, d)
<1> DEFINE c == Call(t)
           x == aux[t]
           q == c.out
           r == ring[q]
           src == SubSeq(c.data, x.done + 1, x.done + x.room)
           Body(loop) ==
             /\ ring' = [ring EXCEPT ![q] = IF Len(loop.offs) > 0 THEN TakeReaders(AfterWrite(r, loop, src)) ELSE r]
             /\ toWake' = [toWake EXCEPT ![t] = IF Len(loop.offs) > 0 THEN Readers(r) ELSE <<>>]
             /\ IF Len(loop.offs) < Len(src) \/ x.done + Len(loop.offs) = Len(c.data)
                THEN Return(t)
                ELSE /\ aux' = [aux EXCEPT ![t] = WithDone(x, x.done + Len(loop.offs))]
                     /\ at' = [at EXCEPT ![t] = "waitout"]
                     /\ prog' = prog /\ intr' = intr
<1>1. /\ Runs(t, "store") /\ RingStep /\ taken' = taken
      /\ \/ Return(t) /\ ring' = ring /\ toWake' = toWake
         \/ r.read_end_open /\ \E loop \in Writes(r, Len(src)) : Body(loop)
  BY Zenon DEF SpliceStore, Wake, Goto, WithDone
<1>2. /\ at[t] = "store" /\ "store" # "done" /\ st[t] = "run" /\ toWake[t] = <<>>
      /\ IsRings(ring) /\ CallFields(c) /\ CallOK(c, "store", x) /\ x \in Aux
  BY <1>1, AtCall
<1>3. CASE Return(t) /\ ring' = ring /\ toWake' = toWake
  <2>1. OwnStep(t, <<>>)
    BY <1>1, <1>2, <1>3, PlainReturn, Zenon DEF RingStep
  <2> QED
    BY <1>1, <1>3, <2>1, SameRings, Zenon
<1>4. CASE r.read_end_open /\ \E loop \in Writes(r, Len(src)) : Body(loop)
  <2>1. PICK loop \in Writes(r, Len(src)) : Body(loop)
    BY <1>4, Zenon
  <2> HIDE DEF c, x
  <2>2. c.op = "fill" /\ x.done + x.room <= Len(c.data)
    BY <1>2, LabelCall
  <2>3. q \in Pipes /\ c.data \in Seq(Bytes)
    BY <1>2, <2>2 DEF CallFields
  <2>4. PICK k \in Nat, m \in Nat, l \in Nat : x.done = k /\ x.room = m /\ Len(c.data) = l /\ k + m <= l
    BY <1>2, <2>2, <2>3 DEF Aux
  <2>5. src \in Seq(Bytes) /\ Len(src) = m
    <3>1. src = SubSeq(c.data, k + 1, k + m)
      BY <2>4, Zenon
    <3>2. k + m <= Len(c.data)
      BY <2>4, Zenon
    <3>3. SubSeq(c.data, k + 1, k + m) \in Seq(Bytes) /\ Len(SubSeq(c.data, k + 1, k + m)) = m
      <4> DEFINE d == c.data
      <4>1. d \in Seq(Bytes) /\ k + m <= Len(d)
        BY <2>3, <3>2, Zenon
      <4> HIDE DEF d
      <4>2. SubSeq(d, k + 1, k + m) \in Seq(Bytes) /\ Len(SubSeq(d, k + 1, k + m)) = m
        BY ONLY <4>1, Middle
      <4> QED
        BY <4>2, Zenon DEF d
    <3> QED
      BY <3>1, <3>3, Zenon
  <2>6. RingOK(r)
    BY <1>2, <2>3, Zenon DEF IsRings
  <2> HIDE DEF src, q
  <2>7. PICK n \in Nat : WriteOutcome(r, m, loop, n)
    BY <2>1, <2>5, <2>6, WritesIs, Zenon
  <2>8. n <= m /\ n <= AvailableWrite(r) /\ Len(loop.offs) = n
    BY <2>7, Zenon DEF WriteOutcome
  <2>9. Local(t) /\ at'[t] \notin {"enlist", "rescan"}
    <3>1. CASE Return(t)
      <4>1. at[t] # "done"
        BY <1>2
      <4> QED
        BY <3>1, <4>1, ReturnLocal, Zenon
    <3>2. CASE /\ ~(Len(loop.offs) < Len(src) \/ x.done + Len(loop.offs) = Len(c.data))
               /\ aux' = [aux EXCEPT ![t] = WithDone(x, x.done + Len(loop.offs))]
               /\ at' = [at EXCEPT ![t] = "waitout"]
               /\ prog' = prog /\ intr' = intr
      <4> DEFINE y == WithDone(x, k + n)
      <4>1. k + n # l
        BY <2>4, <2>8, <3>2, Zenon
      <4>2. k + n \in Nat /\ k + n < l
        <5>1. k + m <= l /\ n <= m
          BY <2>4, <2>8, Zenon
        <5> QED
          BY ONLY <4>1, <5>1
      <4>3. y \in Aux /\ y.done = k + n
        BY <1>2, <4>2, DoneSet, Zenon
      <4> HIDE DEF y
      <4>4. CallOK(c, "waitout", y) /\ "waitout" \in Labels \ {"enlist", "rescan"}
        BY ONLY <2>2, <2>4, <4>2, <4>3 DEF CallOK, Labels
      <4>5. aux' = [aux EXCEPT ![t] = y] /\ CallOK(Call(t), "waitout", y)
        BY <2>4, <2>8, <3>2, <4>4, Zenon DEF y, c
      <4> QED
        BY <1>1, <1>2, <3>2, <4>3, <4>4, <4>5, OnWake, Zenon
    <3> QED
      BY <2>1, <3>1, <3>2, Zenon
  <2>10. st' = st /\ token' = token /\ signals' = signals /\ grown \subseteq grown'
    BY <1>1, Zenon DEF RingStep
  <2>11. CASE n = 0
    <3>1. ~(Len(loop.offs) > 0)
      BY <2>8, <2>11
    <3>2. ring' = [ring EXCEPT ![q] = r] /\ toWake' = [toWake EXCEPT ![t] = <<>>]
      BY <2>1, <3>1, Zenon
    <3>3. ring' = ring
      BY <1>2, <3>2, Zenon DEF IsRings
    <3>4. AllEffect(ring', ring, <<>>, grown', t)
      BY <1>2, <3>3, NoRings, Zenon
    <3>5. OwnStep(t, <<>>)
      BY <1>2, <2>9, <2>10, <3>2, <3>4, EmptyQueue, CalmStep, Zenon
    <3> QED
      BY <1>1, <3>3, <3>5, SameRings, Zenon
  <2>12. CASE n # 0
    <3> DEFINE d == SubSeq(src, 1, n)
               w == Readers(r)
               y == TakeReaders(AfterWrite(r, loop, src))
    <3>1. Len(loop.offs) > 0
      BY <2>8, <2>12
    <3>2. ring' = [ring EXCEPT ![q] = y] /\ toWake' = [toWake EXCEPT ![t] = w]
      BY <2>1, <3>1, Zenon
    <3>3. Gave(AfterWrite(r, loop, src), r, d)
      BY <2>5, <2>7, <2>8, <2>12, Zenon DEF WriteOutcome
    <3>4. d \in Seq(Bytes) /\ Len(d) = n
      BY <2>5, <2>8, Prefix
    <3>5. Within(w, w) /\ w \in Seq(Tasks)
      BY <2>6, WaitersIn, Zenon DEF Within
    <3> HIDE DEF d
    <3>6. Effect(y, r, w, grown', t) /\ Fed(y, r, d)
      BY <2>6, <3>3, <3>4, <3>5, GaveEffect, Zenon
    <3> HIDE DEF w, y
    <3>7. AllEffect(ring', ring, w, grown', t)
      BY <1>2, <2>3, <3>2, <3>6, OneRing, Zenon
    <3>8. ring'[q] = y /\ Only(q)
      BY <1>2, <2>3, <3>2, Replaced, Zenon
    <3>9. OwnStep(t, w)
      BY <1>2, <2>9, <2>10, <3>2, <3>5, <3>7, CalmStep, Zenon
    <3>10. Gives(q, d)
      BY <1>1, <1>4, <2>8, <3>4, <3>6, <3>8, Zenon DEF Gives
    <3> QED
      BY <2>3, <3>9, <3>10, Zenon
  <2> QED
    BY <2>11, <2>12, Zenon
<1> QED
  BY <1>1, <1>3, <1>4, Zenon

\* What a peek finds, and where it leads.
Peeks(t, m) ==
  \/ Return(t)
  \/ /\ m # 0 /\ m <= AvailableRead(ring[Call(t).pipe])
     /\ aux' = [aux EXCEPT ![t] = WithPeeked(aux[t], SubSeq(Content(ring[Call(t).pipe]), 1, m))]
     /\ at' = [at EXCEPT ![t] = "discard"] /\ prog' = prog /\ intr' = intr

\* A pipe to a file: the bytes are seen.
LEMMA SplicePeekStep ==
  ASSUME Inv, NEW t \in Tasks, SplicePeek(t)
  PROVE  (\E w : OwnStep(t, w)) /\ Unseen /\ ring' = ring /\ \E m \in Nat : Peeks(t, m)
<1> DEFINE c == Call(t)
           x == aux[t]
           r == ring[c.pipe]
           v == Min({x.room - x.done, PAGE_SIZE})
<1>1. /\ Runs(t, "peek") /\ RingStep /\ ring' = ring /\ toWake' = toWake /\ taken' = taken
      /\ \E loop \in Reads(r, v) :
          IF loop.offs = <<>>
          THEN Return(t)
          ELSE /\ aux' = [aux EXCEPT ![t] = WithPeeked(x, BytesRead(r, loop))]
               /\ at' = [at EXCEPT ![t] = "discard"]
               /\ prog' = prog /\ intr' = intr
  BY Zenon DEF SplicePeek, Goto, WithPeeked, SPLICE_CHUNK_SIZE
<1>2. /\ at[t] = "peek" /\ "peek" # "done"
      /\ IsRings(ring) /\ CallFields(c) /\ CallOK(c, "peek", x) /\ x \in Aux
  BY <1>1, AtCall
<1>3. PICK loop \in Reads(r, v) :
          IF loop.offs = <<>>
          THEN Return(t)
          ELSE /\ aux' = [aux EXCEPT ![t] = WithPeeked(x, BytesRead(r, loop))]
               /\ at' = [at EXCEPT ![t] = "discard"]
               /\ prog' = prog /\ intr' = intr
  BY <1>1, Zenon
<1> HIDE DEF c, x
<1>4. c.op = "drain" /\ x.done <= x.room
  BY <1>2, LabelCall
<1>5. c.pipe \in Pipes
  BY <1>2, <1>4 DEF CallFields
<1>6. RingOK(r)
  BY <1>2, <1>5, Zenon DEF IsRings
<1>7. PICK k \in Nat, e \in Nat : x.done = k /\ x.room = e /\ k <= e
  BY <1>2, <1>4 DEF Aux
<1>8. PICK u \in Nat : u = v /\ u <= e - k
  <2>1. e - k \in Nat /\ PAGE_SIZE \in Nat
    BY <1>7, PipeAssumption
  <2>2. Least2(e - k, PAGE_SIZE) \in Nat /\ Least2(e - k, PAGE_SIZE) <= e - k
    BY <2>1, LeastOfTwo
  <2>3. v = Least2(e - k, PAGE_SIZE)
    BY <1>7, Zenon DEF Least2
  <2> QED
    BY <2>2, <2>3, Zenon
<1> HIDE DEF v
<1>9. PICK m \in Nat : ReadOutcome(r, u, loop, m)
  BY <1>3, <1>6, <1>8, ReadsIs, Zenon
<1>10. /\ m <= u /\ m <= AvailableRead(r) /\ BytesRead(r, loop) = SubSeq(Content(r), 1, m)
       /\ (loop.offs = <<>> <=> m = 0)
  BY <1>9, Zenon DEF ReadOutcome
<1>11. Peeks(t, m)
  BY <1>3, <1>10, Zenon DEF Peeks, c, x
<1>12. OwnStep(t, <<>>)
  <2>1. CASE Return(t)
    BY <1>1, <1>2, <2>1, PlainReturn, Zenon DEF RingStep
  <2>2. CASE /\ aux' = [aux EXCEPT ![t] = WithPeeked(x, BytesRead(r, loop))]
             /\ at' = [at EXCEPT ![t] = "discard"]
             /\ prog' = prog /\ intr' = intr
    <3> DEFINE s == SubSeq(Content(r), 1, m)
               y == WithPeeked(x, s)
    <3>1. s \in Seq(Bytes) /\ Len(s) = m
      <4>1. PICK l \in Nat : Len(Content(r)) = l /\ m <= l /\ Content(r) \in Seq(Bytes)
        BY <1>6, <1>10, RingLevel
      <4> QED
        BY <4>1, Prefix
    <3> HIDE DEF s
    <3>2. y \in Aux /\ y.peeked = s /\ y.room = x.room /\ y.done = x.done
      BY <1>2, <3>1 DEF Aux, WithPeeked
    <3> HIDE DEF y
    <3>3. k + m <= e
      BY ONLY <1>8, <1>10
    <3>4. y.done + Len(y.peeked) <= y.room
      BY <1>7, <3>1, <3>2, <3>3, Zenon
    <3>5. CallOK(c, "discard", y) /\ "discard" \in Labels \ {"enlist", "rescan"}
      BY <1>4, <3>4 DEF CallOK, Labels
    <3>6. aux' = [aux EXCEPT ![t] = y] /\ CallOK(Call(t), "discard", y)
      BY <1>10, <2>2, <3>5, Zenon DEF y, s, c
    <3> QED
      BY <1>1, <1>2, <2>2, <3>2, <3>5, <3>6, OnStep, Zenon
  <2> QED
    BY <1>3, <2>1, <2>2, Zenon
<1> QED
  BY <1>1, <1>11, <1>12, SameRings, Zenon

\* The bytes that were seen are still the first ones.
PeekedFirst(t) ==
  LET r == ring[Call(t).pipe]
      k == Len(aux[t].peeked)
  IN k # 0 /\ k <= AvailableRead(r) /\ aux[t].peeked = SubSeq(Content(r), 1, k)

\* Two locals change at once.
LEMMA ChunkLocals ==
  ASSUME Inv, NEW t \in Tasks, NEW n
  PROVE  [aux EXCEPT ![t].done = n, ![t].peeked = <<>>] = [aux EXCEPT ![t] = WithChunk(aux[t], n)]
<1>1. aux = [u \in Tasks |-> aux[u]]
  BY Zenon DEF Inv, Types
<1> QED
  BY <1>1, Zenon DEF WithChunk

\* A pipe to a file: the bytes are taken.
LEMMA SpliceDiscardStep ==
  ASSUME Inv, NEW t \in Tasks, SpliceDiscard(t)
  PROVE  /\ \E w : OwnStep(t, w)
         /\ PeekedFirst(t) => \E n \in Nat \ {0} : Takes(Call(t).pipe, n)
<1> DEFINE c == Call(t)
           x == aux[t]
           p == c.pipe
           r == ring[p]
           n == Min({Len(x.peeked), AvailableRead(r)})
<1>1. /\ Runs(t, "discard") /\ RingStep
      /\ ring' = [ring EXCEPT ![p] = IF n > 0 THEN TakeWriters(DiscardSlice(r, n)) ELSE r]
      /\ taken' = [taken EXCEPT ![p] = @ \o x.peeked]
      /\ toWake' = [toWake EXCEPT ![t] = IF n > 0 THEN Writers(r) ELSE <<>>]
      /\ IF n < Len(x.peeked) \/ x.done + n >= x.room
         THEN Return(t)
         ELSE /\ aux' = [aux EXCEPT ![t].done = x.done + n, ![t].peeked = <<>>]
              /\ at' = [at EXCEPT ![t] = "peek"]
              /\ prog' = prog /\ intr' = intr
  BY Zenon DEF SpliceDiscard, Wake, Goto
<1>2. /\ at[t] = "discard" /\ "discard" # "done" /\ st[t] = "run" /\ toWake[t] = <<>>
      /\ IsRings(ring) /\ CallFields(c) /\ CallOK(c, "discard", x) /\ x \in Aux
  BY <1>1, AtCall
<1>3. [aux EXCEPT ![t].done = x.done + n, ![t].peeked = <<>>] = [aux EXCEPT ![t] = WithChunk(x, x.done + n)]
  BY ChunkLocals, Zenon
<1> HIDE DEF c, x
<1>4. c.op = "drain"
  BY <1>2, LabelCall
<1>5. p \in Pipes
  BY <1>2, <1>4 DEF CallFields
<1>6. RingOK(r)
  BY <1>2, <1>5, Zenon DEF IsRings
<1>7. PICK e \in Nat, k \in Nat, l \in Nat, a \in Nat :
        x.room = e /\ x.done = k /\ Len(x.peeked) = l /\ AvailableRead(r) = a
  BY <1>2, <1>6, RingLevel DEF Aux
<1>8. PICK m \in Nat : m = n /\ m <= l /\ m <= a /\ (m = l \/ m = a)
  <2>1. Least2(l, a) \in Nat /\ Least2(l, a) <= l /\ Least2(l, a) <= a /\ (Least2(l, a) = l \/ Least2(l, a) = a)
    BY LeastOfTwo
  <2>2. n = Least2(l, a)
    BY <1>7, Zenon DEF Least2
  <2> QED
    BY <2>1, <2>2, Zenon
<1> HIDE DEF n, p
<1>9. Local(t) /\ at'[t] \notin {"enlist", "rescan"}
  <2>1. CASE Return(t)
    <3>1. at[t] # "done"
      BY <1>2
    <3> QED
      BY <2>1, <3>1, ReturnLocal, Zenon
  <2>2. CASE /\ ~(n < Len(x.peeked) \/ x.done + n >= x.room)
             /\ aux' = [aux EXCEPT ![t].done = x.done + n, ![t].peeked = <<>>]
             /\ at' = [at EXCEPT ![t] = "peek"]
             /\ prog' = prog /\ intr' = intr
    <3> DEFINE y == WithChunk(x, k + m)
    <3>1. ~(k + m >= e)
      BY <1>7, <1>8, <2>2, Zenon
    <3>2. k + m \in Nat /\ k + m <= e
      BY ONLY <3>1
    <3>3. y \in Aux /\ y.done = k + m /\ y.room = x.room
      <4>1. <<>> \in Seq(Bytes)
        OBVIOUS
      <4> QED
        BY <1>2, <3>2, <4>1 DEF Aux, WithChunk
    <3> HIDE DEF y
    <3>4. CallOK(c, "peek", y) /\ "peek" \in Labels \ {"enlist", "rescan"}
      BY ONLY <1>4, <1>7, <3>2, <3>3 DEF CallOK, Labels
    <3>5. aux' = [aux EXCEPT ![t] = y] /\ CallOK(Call(t), "peek", y)
      BY <1>3, <1>7, <1>8, <2>2, <3>4, Zenon DEF y, c
    <3> QED
      BY <1>1, <1>2, <2>2, <3>3, <3>4, <3>5, OnWake, Zenon
  <2> QED
    BY <1>1, <2>1, <2>2, Zenon
<1>10. st' = st /\ token' = token /\ signals' = signals /\ grown \subseteq grown'
  BY <1>1, Zenon DEF RingStep
<1>11. CASE m = 0
  <2>1. ~(n > 0)
    BY <1>8, <1>11
  <2>2. ring' = [ring EXCEPT ![p] = r] /\ toWake' = [toWake EXCEPT ![t] = <<>>]
    BY <1>1, <2>1, Zenon
  <2>3. ring' = ring
    BY <1>2, <2>2, Zenon DEF IsRings
  <2>4. AllEffect(ring', ring, <<>>, grown', t)
    BY <1>2, <2>3, NoRings, Zenon
  <2>5. OwnStep(t, <<>>)
    BY <1>2, <1>9, <1>10, <2>2, <2>4, EmptyQueue, CalmStep, Zenon
  <2>6. ~PeekedFirst(t)
    <3>1. l = 0 \/ ~(l <= a)
      BY ONLY <1>8, <1>11
    <3> QED
      BY <1>7, <3>1, Zenon DEF PeekedFirst, p, c, x
  <2> QED
    BY <2>5, <2>6, Zenon
<1>12. CASE m # 0
  <2> DEFINE w == Writers(r)
             y == TakeWriters(DiscardSlice(r, m))
  <2>1. n > 0
    BY <1>8, <1>12
  <2>2. ring' = [ring EXCEPT ![p] = y] /\ toWake' = [toWake EXCEPT ![t] = w]
    BY <1>1, <1>8, <2>1, Zenon
  <2>3. m \in Nat \ {0} /\ m <= AvailableRead(r)
    BY <1>7, <1>8, <1>12, Zenon
  <2>4. Took(DiscardSlice(r, m), r, m)
    BY <1>6, <2>3, DiscardIs, Zenon
  <2>5. Within(w, w) /\ w \in Seq(Tasks)
    BY <1>6, WaitersIn, Zenon DEF Within
  <2>6. Effect(y, r, w, grown', t) /\ Drawn(y, r, m)
    BY <1>6, <2>3, <2>4, <2>5, TookEffect, Zenon
  <2> HIDE DEF w, y
  <2>7. AllEffect(ring', ring, w, grown', t)
    BY <1>2, <1>5, <2>2, <2>6, OneRing, Zenon
  <2>8. ring'[p] = y /\ Only(p)
    BY <1>2, <1>5, <2>2, Replaced, Zenon
  <2>9. OwnStep(t, w)
    BY <1>2, <1>9, <1>10, <2>2, <2>5, <2>7, CalmStep, Zenon
  <2>10. ASSUME PeekedFirst(t)
         PROVE  Takes(p, m)
    <3>1. l <= a /\ x.peeked = SubSeq(Content(r), 1, l)
      BY <1>7, <2>10, Zenon DEF PeekedFirst, p, c, x
    <3>2. m = l
      BY ONLY <1>8, <3>1
    <3> QED
      BY <1>1, <2>3, <2>6, <2>8, <3>1, <3>2, Zenon DEF Takes
  <2> QED
    BY <2>3, <2>9, <2>10, Zenon DEF p, c
<1> QED
  BY <1>11, <1>12, Zenon

\* A task in a poll: n descriptors, at number i.
PollsAt(t, n, i) ==
  /\ Call(t).op = "poll" /\ Len(Call(t).fds) = n /\ aux[t].i = i /\ i \in 1..n
  /\ Call(t).fds \in Seq(Poll)
  /\ \A j \in 1..n : Call(t).fds[j].pipe \in Pipes /\ Call(t).fds[j].end \in {"r", "w"}

\* Where a poll is.
LEMMA PollLabel ==
  ASSUME Inv, NEW t \in Tasks, at[t] \in Polling
  PROVE  \E n \in Nat \ {0}, i \in Nat : PollsAt(t, n, i)
<1>1. TaskOK(prog[t], at[t], aux[t])
  BY Zenon DEF Inv, Placed
<1>2. \E n \in Nat \ {0}, i \in Nat :
           /\ Head(prog[t]).fds \in Seq(Poll) /\ Len(Head(prog[t]).fds) = n /\ aux[t].i = i /\ i \in 1..n
           /\ \A j \in 1..n : Head(prog[t]).fds[j].pipe \in Pipes /\ Head(prog[t]).fds[j].end \in {"r", "w"}
           /\ Head(prog[t]).op = "poll"
  BY <1>1, PollCall, Zenon
<1> QED
  BY <1>2, Zenon DEF PollsAt, Call

\* A local of a poll that goes on.
PollGoes(t, a, y, i) == y \in Aux /\ y.i = i /\ CallOK(Call(t), a, y)

\* The poll starts again from the first descriptor.
LEMMA PollFirst ==
  ASSUME NEW t, NEW n \in Nat \ {0}, NEW i \in Nat, PollsAt(t, n, i), NEW x, x \in Aux,
         NEW h, h \in BOOLEAN, NEW a, a \in Polling
  PROVE  PollGoes(t, a, WithFd(x, 1, h), 1)
<1> DEFINE c == Call(t)
           y == WithFd(x, 1, h)
<1>1. c.op = "poll" /\ Len(c.fds) = n
  BY Zenon DEF PollsAt
<1>2. 1 \in 1..n
  OBVIOUS
<1>3. y \in Aux /\ y.i = 1
  BY DEF Aux, WithFd
<1> HIDE DEF c, y
<1>4. CallOK(c, a, y)
  BY <1>1, <1>2, <1>3, Zenon DEF CallOK
<1> QED
  BY <1>3, <1>4, Zenon DEF PollGoes, c, y

\* It goes on to the next.
LEMMA PollNext ==
  ASSUME NEW t, NEW n \in Nat \ {0}, NEW i \in Nat, PollsAt(t, n, i), i # n, NEW x, x \in Aux,
         NEW h, h \in BOOLEAN, NEW a, a \in Polling
  PROVE  PollGoes(t, a, WithFd(x, i + 1, h), i + 1) /\ PollGoes(t, a, WithI(x, i + 1), i + 1)
<1> DEFINE c == Call(t)
           y == WithFd(x, i + 1, h)
           z == WithI(x, i + 1)
<1>1. c.op = "poll" /\ Len(c.fds) = n /\ i \in 1..n
  BY Zenon DEF PollsAt
<1>2. i + 1 \in 1..n /\ i + 1 \in Nat
  BY <1>1
<1>3. y \in Aux /\ y.i = i + 1 /\ z \in Aux /\ z.i = i + 1
  BY <1>2 DEF Aux, WithFd, WithI
<1> HIDE DEF c, y, z
<1>4. CallOK(c, a, y) /\ CallOK(c, a, z)
  BY <1>1, <1>2, <1>3, Zenon DEF CallOK
<1> QED
  BY <1>3, <1>4, Zenon DEF PollGoes, c, y, z

\* ppoll looks at a descriptor.
LEMMA PollScanStep ==
  ASSUME Inv, NEW t \in Tasks, PollScan(t)
  PROVE  (\E w : OwnStep(t, w)) /\ Unseen
<1> DEFINE x == aux[t]
           h == x.hit \/ IsReady(Fd(t))
<1>1. /\ Runs(t, "scan") /\ RingStep /\ ring' = ring /\ toWake' = toWake /\ taken' = taken
      /\ \/ Return(t)
         \/ /\ x.i # Len(Call(t).fds)
            /\ aux' = [aux EXCEPT ![t].i = x.i + 1, ![t].hit = h]
            /\ prog' = prog /\ at' = at /\ intr' = intr
         \/ /\ aux' = [aux EXCEPT ![t].i = 1, ![t].hit = FALSE]
            /\ at' = [at EXCEPT ![t] = "enlist"] /\ prog' = prog /\ intr' = intr
  BY Zenon DEF PollScan, LastFd, FirstFd, Goto
<1>2. /\ at[t] = "scan" /\ "scan" # "done" /\ x \in Aux /\ IsRings(ring)
  BY <1>1, AtCall
<1>3. at[t] \in Polling /\ "scan" \in Polling /\ "enlist" \in Polling
      /\ "scan" \in Labels \ {"enlist", "rescan"} /\ "enlist" \in Labels
  BY <1>2 DEF Polling, Labels
<1>4. PICK n \in Nat \ {0}, i \in Nat : PollsAt(t, n, i)
  BY <1>3, PollLabel, Zenon
<1>5. h \in BOOLEAN /\ FALSE \in BOOLEAN
  OBVIOUS
<1>6. CASE Return(t)
  <2>1. OwnStep(t, <<>>)
    BY <1>1, <1>2, <1>6, PlainReturn, Zenon DEF RingStep
  <2> QED
    BY <1>1, <2>1, SameRings, Zenon
<1> HIDE DEF h
<1>7. CASE /\ x.i # Len(Call(t).fds)
           /\ aux' = [aux EXCEPT ![t].i = x.i + 1, ![t].hit = h]
           /\ prog' = prog /\ at' = at /\ intr' = intr
  <2>1. i # n /\ x.i = i
    BY <1>4, <1>7, Zenon DEF PollsAt
  <2>2. WithFd(x, i + 1, h) \in Aux /\ CallOK(Call(t), "scan", WithFd(x, i + 1, h))
    <3>1. PollGoes(t, "scan", WithFd(x, i + 1, h), i + 1)
      BY <1>2, <1>3, <1>4, <1>5, <2>1, PollNext
    <3> QED
      BY <3>1, Zenon DEF PollGoes
  <2>3. aux' = [aux EXCEPT ![t] = WithFd(x, i + 1, h)]
    <3>1. [aux EXCEPT ![t].i = i + 1, ![t].hit = h] = [aux EXCEPT ![t] = WithFd(aux[t], i + 1, h)]
      <4>1. aux = [u \in Tasks |-> aux[u]]
        BY Zenon DEF Inv, Types
      <4> QED
        BY <4>1, Zenon DEF WithFd
    <3> QED
      BY <1>7, <2>1, <3>1, Zenon
  <2>4. at' = [at EXCEPT ![t] = "scan"]
    BY <1>2, <1>7, Zenon DEF Inv, Types
  <2>5. OwnStep(t, <<>>)
    BY <1>1, <1>2, <1>3, <1>7, <2>2, <2>3, <2>4, OnStep, Zenon
  <2> QED
    BY <1>1, <2>5, SameRings, Zenon
<1>8. CASE /\ aux' = [aux EXCEPT ![t].i = 1, ![t].hit = FALSE]
           /\ at' = [at EXCEPT ![t] = "enlist"] /\ prog' = prog /\ intr' = intr
  <2> DEFINE y == WithFd(x, 1, FALSE)
  <2>1. y \in Aux /\ y.i = 1 /\ CallOK(Call(t), "enlist", y)
    <3>1. PollGoes(t, "enlist", y, 1)
      BY <1>2, <1>3, <1>4, <1>5, PollFirst
    <3> QED
      BY <3>1, Zenon DEF PollGoes
  <2>2. aux' = [aux EXCEPT ![t] = y]
    <3>1. [aux EXCEPT ![t].i = 1, ![t].hit = FALSE] = [aux EXCEPT ![t] = WithFd(aux[t], 1, FALSE)]
      <4>1. aux = [u \in Tasks |-> aux[u]]
        BY Zenon DEF Inv, Types
      <4> QED
        BY <4>1, Zenon DEF WithFd
    <3> QED
      BY <1>8, <3>1, Zenon
  <2> HIDE DEF y
  <2>3. /\ st[t] = "run" /\ toWake[t] = <<>> /\ TaskOK(prog[t], "scan", x)
        /\ intr' \in [Tasks -> BOOLEAN] /\ toWake = [toWake EXCEPT ![t] = <<>>]
    BY <1>1, <1>2, <1>8, AtCall, Zenon
  <2>4. TaskOK(prog[t], "enlist", y)
    BY <1>2, <1>3, <2>1, <2>3, OnwardOK, Zenon DEF Call
  <2>5. Local(t) /\ at'[t] = "enlist" /\ aux'[t] = y /\ prog'[t] = prog[t]
    BY <1>8, <2>2, <2>3, <2>4, GoesOn, Zenon
  <2>6. AllEffect(ring', ring, <<>>, grown', t)
    BY <1>1, <1>2, NoRings, Zenon
  <2>7. st'[t] = "run" /\ "run" \notin Blocked
    BY <1>1, <2>3 DEF RingStep, Blocked
  <2>8. PollIdle(ring', prog'[t], at'[t], aux'[t], st'[t], t)
    <3>1. y.i - 1 = 0
      BY <2>1
    <3>2. Listed(ring', Head(prog'[t]).fds, t, 0, 0)
      BY DEF Listed
    <3>3. at'[t] # "rescan" /\ at'[t] # "delist"
      BY <2>5
    <3> QED
      BY <2>5, <3>1, <3>2, <3>3, Zenon DEF PollIdle
  <2>9. /\ ReaderIdle(ring', prog'[t], at'[t], st'[t], t)
        /\ WriterIdle(ring', prog'[t], at'[t], aux'[t], st'[t], t)
    BY <2>7, Zenon DEF ReaderIdle, WriterIdle
  <2>10. /\ st' = st /\ st \in [Tasks -> {"run", "block", "asleep", "awake"}]
         /\ toWake' = toWake /\ toWake \in [Tasks -> Seq(Tasks)]
         /\ token' = token /\ signals' = signals /\ grown \subseteq grown'
    BY <1>1, Zenon DEF RingStep, Inv, Types
  <2>11. OwnStep(t, <<>>)
    <3>1. st'[t] \in {"run", "block"} /\ ~(st'[t] # "run")
      BY <2>7, Zenon
    <3> QED
      BY <2>3, <2>5, <2>6, <2>8, <2>9, <2>10, <3>1, Zenon DEF OwnStep
  <2> QED
    BY <1>1, <2>11, SameRings, Zenon
<1> QED
  BY <1>1, <1>6, <1>7, <1>8, Zenon

\* Back to the first descriptor, and on to the next.
LEMMA FdMoves ==
  ASSUME Inv, NEW t \in Tasks
  PROVE  /\ FirstFd(t) => aux' = [aux EXCEPT ![t] = WithFd(aux[t], 1, FALSE)]
         /\ NextFd(t) => aux' = [aux EXCEPT ![t] = WithI(aux[t], aux[t].i + 1)]
<1>1. aux = [u \in Tasks |-> aux[u]]
  BY Zenon DEF Inv, Types
<1>2. FirstFd(t) => aux' = [aux EXCEPT ![t] = WithFd(aux[t], 1, FALSE)]
  BY <1>1, Zenon DEF FirstFd, WithFd
<1>3. NextFd(t) => aux' = [aux EXCEPT ![t] = WithI(aux[t], aux[t].i + 1)]
  BY <1>1, Zenon DEF NextFd, WithI
<1> QED
  BY <1>2, <1>3, Zenon

\* A step of a poll that keeps the task running or blocks it, and wakes nobody.
LEMMA PollStep ==
  ASSUME Inv, NEW t \in Tasks, NEW b, Runs(t, b), b # "done",
         AllEffect(ring', ring, <<>>, grown', t), Local(t), at'[t] \in Polling,
         NEW s, s \in {"run", "block"}, st' = [st EXCEPT ![t] = s], s # "run" => at'[t] = "delist",
         toWake' = toWake, token' = token, signals' = signals, grown' = grown,
         \/ Comes(t) \/ t \in grown
         \/ PollIdle(ring', prog'[t], at'[t], aux'[t], s, t)
  PROVE  OwnStep(t, <<>>)
<1>1. st[t] = "run" /\ toWake[t] = <<>>
  BY AtCall, Zenon
<1>2. /\ st' \in [Tasks -> {"run", "block", "asleep", "awake"}] /\ st'[t] = s
      /\ \A u \in Tasks \ {t} : st'[u] = st[u] /\ toWake'[u] = toWake[u]
      /\ toWake' \in [Tasks -> Seq(Tasks)] /\ toWake'[t] = <<>>
  <2>1. s \in {"run", "block", "asleep", "awake"}
    OBVIOUS
  <2> QED
    BY <1>1, <2>1, Zenon DEF Inv, Types
<1>3. at'[t] \notin Reading /\ at'[t] \notin Writing /\ (s # "run" => at'[t] \in Sleeping)
  BY DEF Polling, Reading, Writing, Sleeping
<1>4. /\ ReaderIdle(ring', prog'[t], at'[t], st'[t], t)
      /\ WriterIdle(ring', prog'[t], at'[t], aux'[t], st'[t], t)
  BY <1>3, Zenon DEF ReaderIdle, WriterIdle
<1>5. grown \subseteq grown'
  BY Zenon
<1> QED
  BY <1>1, <1>2, <1>3, <1>4, <1>5, Zenon DEF OwnStep

\* What a poll of t has before a step.
LEMMA PollBefore ==
  ASSUME Inv, NEW t \in Tasks
  PROVE  \/ Comes(t) \/ t \in grown
         \/ /\ at[t] = "enlist" => Listed(ring, Call(t).fds, t, aux[t].i - 1, 0)
            /\ at[t] = "rescan" => Listed(ring, Call(t).fds, t, Len(Call(t).fds), aux[t].i - 1)
<1>1. PollOk(t)
  BY Zenon DEF Inv, Watched
<1> QED
  BY <1>1, Zenon DEF PollOk, PollIdle, Call

\* ppoll queues for a descriptor.
LEMMA PollRegisterStep ==
  ASSUME Inv, NEW t \in Tasks, PollRegister(t)
  PROVE  (\E w : OwnStep(t, w)) /\ Unseen
<1> DEFINE x == aux[t]
           f == Call(t).fds
           p == Fd(t).pipe
           r == ring[p]
           q == WithPollQueue(r, Registered(r.poll_waiters, t))
<1>1. /\ Runs(t, "enlist") /\ RingStep /\ prog' = prog /\ intr' = intr /\ toWake' = toWake /\ taken' = taken
      /\ ring' = [ring EXCEPT ![p] = q]
      /\ \/ LastFd(t) /\ FirstFd(t) /\ at' = [at EXCEPT ![t] = "rescan"]
         \/ ~LastFd(t) /\ NextFd(t) /\ at' = at
  BY Zenon DEF PollRegister, Goto, WithPollQueue
<1>2. /\ at[t] = "enlist" /\ "enlist" # "done" /\ x \in Aux /\ IsRings(ring) /\ TaskOK(prog[t], "enlist", x)
      /\ st[t] = "run" /\ toWake[t] = <<>> /\ intr \in [Tasks -> BOOLEAN]
  BY <1>1, AtCall
<1>3. at[t] \in Polling /\ "rescan" \in Polling /\ "enlist" \in Polling
      /\ "rescan" \in Labels /\ "enlist" \in Labels
  BY <1>2 DEF Polling, Labels
<1>4. PICK n \in Nat \ {0}, i \in Nat : PollsAt(t, n, i)
  BY <1>3, PollLabel, Zenon
<1>5. /\ x.i = i /\ i \in 1..n /\ Len(f) = n /\ p = f[i].pipe
      /\ \A j \in 1..n : f[j].pipe \in Pipes /\ f[j].end \in {"r", "w"}
  BY <1>4, Zenon DEF PollsAt, Fd
<1>6. p \in Pipes /\ RingOK(r)
  BY <1>2, <1>5, Zenon DEF IsRings
<1>7. Quiet(q, r, <<>>, grown', t) /\ Contains(q.poll_waiters, t)
  BY <1>6, PollerQueued, Zenon
<1> HIDE DEF q, p, f, x
<1>8. AllEffect(ring', ring, <<>>, grown', t) /\ Unseen /\ ring'[p] = q
  BY <1>1, <1>2, <1>6, <1>7, QuietRing, Zenon
<1>9. \A o \in Pipes \ {p} : ring'[o] = ring[o]
  BY <1>1, <1>2, <1>6, Replaced, Zenon DEF Only
<1>10. ASSUME NEW o \in Pipes, Contains(ring[o].poll_waiters, t)
       PROVE  Contains(ring'[o].poll_waiters, t)
  BY <1>7, <1>8, <1>9, <1>10, Zenon
<1>11. ASSUME Listed(ring, f, t, i - 1, 0)
       PROVE  Listed(ring', f, t, i, 0)
  <2>1. \A j \in 1..(i - 1) : Contains(ring[f[j].pipe].poll_waiters, t)
    BY <1>11, Zenon DEF Listed
  <2>2. \A j \in 1..i : j \in 1..n /\ (j \in 1..(i - 1) \/ j = i)
    BY <1>5
  <2>3. \A j \in 1..0 : FALSE
    OBVIOUS
  <2>4. ASSUME NEW j \in 1..i
        PROVE  Contains(ring'[f[j].pipe].poll_waiters, t)
    <3>1. f[j].pipe \in Pipes
      BY <1>5, <2>2, Zenon
    <3>2. CASE j = i
      BY <1>5, <1>7, <1>8, <3>2, Zenon
    <3>3. CASE j \in 1..(i - 1)
      BY <1>10, <2>1, <3>1, <3>3, Zenon
    <3> QED
      BY <2>2, <3>2, <3>3, Zenon
  <2> QED
    BY <2>3, <2>4, Zenon DEF Listed
<1>12. st' = st /\ token' = token /\ signals' = signals /\ grown' = grown /\ st' = [st EXCEPT ![t] = "run"]
  BY <1>1, <1>2, Zenon DEF RingStep, Inv, Types
<1>13. Comes(t) \/ t \in grown \/ Listed(ring', f, t, i, 0)
  BY <1>2, <1>5, <1>11, PollBefore, Zenon DEF f, x
<1>14. intr' \in [Tasks -> BOOLEAN]
  BY <1>1, <1>2, Zenon
<1>15. CASE LastFd(t) /\ FirstFd(t) /\ at' = [at EXCEPT ![t] = "rescan"]
  <2> DEFINE y == WithFd(x, 1, FALSE)
  <2>1. PollGoes(t, "rescan", y, 1)
    BY <1>2, <1>3, <1>4, PollFirst
  <2>2. aux' = [aux EXCEPT ![t] = y]
    BY <1>15, FdMoves, Zenon DEF x
  <2> HIDE DEF y
  <2>3. TaskOK(prog[t], "rescan", y)
    BY <1>2, <1>3, <2>1, OnwardOK, Zenon DEF Call, PollGoes
  <2>4. Local(t) /\ at'[t] = "rescan" /\ aux'[t] = y /\ prog'[t] = prog[t]
    BY <1>1, <1>14, <1>15, <2>2, <2>3, GoesOn, Zenon
  <2>5. i = n /\ y.i - 1 = 0
    <3>1. i = n
      BY <1>5, <1>15, Zenon DEF LastFd, f, x
    <3>2. y.i = 1
      BY <2>1, Zenon DEF PollGoes
    <3> QED
      BY <3>1, <3>2
  <2>6. Listed(ring', f, t, i, 0) => PollIdle(ring', prog'[t], at'[t], aux'[t], "run", t)
    <3>1. at'[t] # "enlist" /\ at'[t] # "delist"
      BY <2>4
    <3>2. Head(prog'[t]).fds = f
      BY <2>4, Zenon DEF f, Call
    <3> QED
      BY <1>5, <2>4, <2>5, <3>1, <3>2, Zenon DEF PollIdle
  <2>7. at'[t] \in Polling /\ "run" \in {"run", "block"} /\ ~("run" # "run")
    BY <1>3, <2>4
  <2>8. OwnStep(t, <<>>)
    BY <1>1, <1>2, <1>8, <1>12, <1>13, <2>4, <2>6, <2>7, PollStep, Zenon
  <2> QED
    BY <1>8, <2>8, Zenon
<1>16. CASE ~LastFd(t) /\ NextFd(t) /\ at' = at
  <2> DEFINE y == WithI(x, i + 1)
  <2>1. i # n
    BY <1>5, <1>16, Zenon DEF LastFd, f, x
  <2>2. PollGoes(t, "enlist", y, i + 1)
    BY <1>2, <1>3, <1>4, <2>1, PollNext
  <2>3. aux' = [aux EXCEPT ![t] = y]
    BY <1>5, <1>16, FdMoves, Zenon DEF x
  <2> HIDE DEF y
  <2>4. TaskOK(prog[t], "enlist", y)
    BY <1>2, <1>3, <2>2, OnwardOK, Zenon DEF Call, PollGoes
  <2>5. at' = [at EXCEPT ![t] = "enlist"]
    BY <1>2, <1>16, Zenon DEF Inv, Types
  <2>6. Local(t) /\ at'[t] = "enlist" /\ aux'[t] = y /\ prog'[t] = prog[t]
    BY <1>1, <1>14, <2>3, <2>4, <2>5, GoesOn, Zenon
  <2>7. y.i - 1 = i
    <3>1. y.i = i + 1
      BY <2>2, Zenon DEF PollGoes
    <3> QED
      BY <3>1
  <2>8. Listed(ring', f, t, i, 0) => PollIdle(ring', prog'[t], at'[t], aux'[t], "run", t)
    <3>1. at'[t] # "rescan" /\ at'[t] # "delist"
      BY <2>6
    <3>2. Head(prog'[t]).fds = f
      BY <2>6, Zenon DEF f, Call
    <3> QED
      BY <2>6, <2>7, <3>1, <3>2, Zenon DEF PollIdle
  <2>9. at'[t] \in Polling /\ "run" \in {"run", "block"} /\ ~("run" # "run")
    BY <1>3, <2>6
  <2>10. OwnStep(t, <<>>)
    BY <1>1, <1>2, <1>8, <1>12, <1>13, <2>6, <2>8, <2>9, PollStep, Zenon
  <2> QED
    BY <1>8, <2>10, Zenon
<1> QED
  BY <1>1, <1>15, <1>16, Zenon

\* ppoll looks again, after it has queued.
LEMMA PollRescanStep ==
  ASSUME Inv, NEW t \in Tasks, PollRescan(t)
  PROVE  (\E w : OwnStep(t, w)) /\ Unseen
<1> DEFINE x == aux[t]
           f == Call(t).fds
           s == IF intr[t] THEN "run" ELSE "block"
<1>1. /\ Runs(t, "rescan") /\ ring' = ring /\ prog' = prog /\ token' = token /\ intr' = intr
      /\ toWake' = toWake /\ signals' = signals /\ taken' = taken /\ grown' = grown
      /\ \/ FirstFd(t) /\ at' = [at EXCEPT ![t] = "delist ready"] /\ st' = st
         \/ ~IsReady(Fd(t)) /\ ~LastFd(t) /\ NextFd(t) /\ at' = at /\ st' = st
         \/ /\ ~IsReady(Fd(t)) /\ LastFd(t) /\ FirstFd(t) /\ at' = [at EXCEPT ![t] = "delist"]
            /\ st' = [st EXCEPT ![t] = s]
  BY Zenon DEF PollRescan, RescanReady, Goto
<1>2. /\ at[t] = "rescan" /\ "rescan" # "done" /\ x \in Aux /\ IsRings(ring) /\ TaskOK(prog[t], "rescan", x)
      /\ st[t] = "run" /\ toWake[t] = <<>> /\ intr \in [Tasks -> BOOLEAN]
  BY <1>1, AtCall
<1>3. at[t] \in Polling /\ "rescan" \in Polling /\ "delist" \in Polling /\ "delist ready" \in Polling
      /\ "rescan" \in Labels /\ "delist" \in Labels /\ "delist ready" \in Labels
  BY <1>2 DEF Polling, Labels
<1>4. PICK n \in Nat \ {0}, i \in Nat : PollsAt(t, n, i)
  BY <1>3, PollLabel, Zenon
<1>5. /\ x.i = i /\ i \in 1..n /\ Len(f) = n /\ Fd(t) = f[i]
      /\ \A j \in 1..n : f[j].pipe \in Pipes /\ f[j].end \in {"r", "w"}
  BY <1>4, Zenon DEF PollsAt, Fd
<1>6. AllEffect(ring', ring, <<>>, grown', t) /\ Unseen
  BY <1>1, <1>2, NoRings, SameRings, Zenon
<1>7. intr' \in [Tasks -> BOOLEAN]
  BY <1>1, <1>2, Zenon
<1>8. st = [st EXCEPT ![t] = "run"] /\ at = [at EXCEPT ![t] = "rescan"]
  BY <1>2, Zenon DEF Inv, Types
<1> HIDE DEF f, x
<1>9. ASSUME Listed(ring, f, t, n, i - 1), ~IsReady(Fd(t))
      PROVE  Listed(ring', f, t, n, i)
  <2> DEFINE r == ring[f[i].pipe]
             e == f[i].end
  <2>1. Unready(r, e)
    <3>1. /\ e = "r" => ~(AvailableRead(r) > 0) /\ r.write_end_open
          /\ e # "r" => ~(AvailableWrite(r) > 0) /\ r.read_end_open
      BY <1>5, <1>9, Zenon DEF IsReady
    <3>2. RingOK(r)
      BY <1>2, <1>5, Zenon DEF IsRings
    <3>3. PICK a \in Nat, b \in Nat : a = AvailableRead(r) /\ b = AvailableWrite(r)
      BY <3>2, RingLevel
    <3>4. (~(a > 0) => a = 0) /\ (~(b > 0) => b = 0)
      BY ONLY TRUE
    <3> QED
      BY <3>1, <3>3, <3>4, Zenon DEF Unready
  <2>2. \A j \in 1..i : j \in 1..(i - 1) \/ j = i
    BY <1>5
  <2> QED
    BY <1>1, <1>9, <2>1, <2>2, Zenon DEF Listed
<1>10. Comes(t) \/ t \in grown \/ Listed(ring, f, t, n, i - 1)
  BY <1>2, <1>5, PollBefore, Zenon DEF f, x
<1>11. CASE FirstFd(t) /\ at' = [at EXCEPT ![t] = "delist ready"] /\ st' = st
  <2> DEFINE y == WithFd(x, 1, FALSE)
  <2>1. PollGoes(t, "delist ready", y, 1)
    BY <1>2, <1>3, <1>4, PollFirst
  <2>2. aux' = [aux EXCEPT ![t] = y]
    BY <1>11, FdMoves, Zenon DEF x
  <2> HIDE DEF y
  <2>3. TaskOK(prog[t], "delist ready", y)
    BY <1>2, <1>3, <2>1, OnwardOK, Zenon DEF Call, PollGoes
  <2>4. Local(t) /\ at'[t] = "delist ready" /\ aux'[t] = y /\ prog'[t] = prog[t]
    BY <1>1, <1>7, <1>11, <2>2, <2>3, GoesOn, Zenon
  <2>5. PollIdle(ring', prog'[t], at'[t], aux'[t], "run", t)
    <3>1. at'[t] # "enlist" /\ at'[t] # "delist" /\ at'[t] # "rescan"
      BY <2>4
    <3> QED
      BY <3>1, Zenon DEF PollIdle
  <2>6. at'[t] \in Polling /\ "run" \in {"run", "block"} /\ ~("run" # "run") /\ st' = [st EXCEPT ![t] = "run"]
    BY <1>3, <1>8, <1>11, <2>4
  <2>7. OwnStep(t, <<>>)
    BY <1>1, <1>2, <1>6, <2>4, <2>5, <2>6, PollStep, Zenon
  <2> QED
    BY <1>6, <2>7, Zenon
<1>12. CASE ~IsReady(Fd(t)) /\ ~LastFd(t) /\ NextFd(t) /\ at' = at /\ st' = st
  <2> DEFINE y == WithI(x, i + 1)
  <2>1. i # n
    BY <1>5, <1>12, Zenon DEF LastFd, f, x
  <2>2. PollGoes(t, "rescan", y, i + 1)
    BY <1>2, <1>3, <1>4, <2>1, PollNext
  <2>3. aux' = [aux EXCEPT ![t] = y]
    BY <1>5, <1>12, FdMoves, Zenon DEF x
  <2> HIDE DEF y
  <2>4. TaskOK(prog[t], "rescan", y)
    BY <1>2, <1>3, <2>2, OnwardOK, Zenon DEF Call, PollGoes
  <2>5. at' = [at EXCEPT ![t] = "rescan"] /\ st' = [st EXCEPT ![t] = "run"]
    BY <1>8, <1>12, Zenon
  <2>6. Local(t) /\ at'[t] = "rescan" /\ aux'[t] = y /\ prog'[t] = prog[t]
    BY <1>1, <1>7, <2>3, <2>4, <2>5, GoesOn, Zenon
  <2>7. y.i - 1 = i
    <3>1. y.i = i + 1
      BY <2>2, Zenon DEF PollGoes
    <3> QED
      BY <3>1
  <2>8. Listed(ring', f, t, n, i) => PollIdle(ring', prog'[t], at'[t], aux'[t], "run", t)
    <3>1. at'[t] # "enlist" /\ at'[t] # "delist"
      BY <2>6
    <3>2. Head(prog'[t]).fds = f
      BY <2>6, Zenon DEF f, Call
    <3> QED
      BY <1>5, <2>6, <2>7, <3>1, <3>2, Zenon DEF PollIdle
  <2>9. at'[t] \in Polling /\ "run" \in {"run", "block"} /\ ~("run" # "run")
    BY <1>3, <2>6
  <2>10. Comes(t) \/ t \in grown \/ PollIdle(ring', prog'[t], at'[t], aux'[t], "run", t)
    BY <1>9, <1>10, <1>12, <2>8, Zenon
  <2>11. OwnStep(t, <<>>)
    BY <1>1, <1>2, <1>6, <2>5, <2>6, <2>9, <2>10, PollStep, Zenon
  <2> QED
    BY <1>6, <2>11, Zenon
<1>13. CASE /\ ~IsReady(Fd(t)) /\ LastFd(t) /\ FirstFd(t) /\ at' = [at EXCEPT ![t] = "delist"]
            /\ st' = [st EXCEPT ![t] = s]
  <2> DEFINE y == WithFd(x, 1, FALSE)
  <2>1. PollGoes(t, "delist", y, 1)
    BY <1>2, <1>3, <1>4, PollFirst
  <2>2. aux' = [aux EXCEPT ![t] = y]
    BY <1>13, FdMoves, Zenon DEF x
  <2> HIDE DEF y
  <2>3. TaskOK(prog[t], "delist", y)
    BY <1>2, <1>3, <2>1, OnwardOK, Zenon DEF Call, PollGoes
  <2>4. Local(t) /\ at'[t] = "delist" /\ aux'[t] = y /\ prog'[t] = prog[t]
    BY <1>1, <1>7, <1>13, <2>2, <2>3, GoesOn, Zenon
  <2>5. i = n
    BY <1>5, <1>13, Zenon DEF LastFd, f, x
  <2>6. Listed(ring', f, t, n, i) => PollIdle(ring', prog'[t], at'[t], aux'[t], s, t)
    <3>1. at'[t] # "enlist" /\ at'[t] # "rescan"
      BY <2>4
    <3>2. Head(prog'[t]).fds = f
      BY <2>4, Zenon DEF f, Call
    <3> QED
      BY <1>5, <2>4, <2>5, <3>1, <3>2, Zenon DEF PollIdle
  <2>7. at'[t] \in Polling /\ s \in {"run", "block"}
    BY <1>3, <2>4
  <2>8. Comes(t) \/ t \in grown \/ PollIdle(ring', prog'[t], at'[t], aux'[t], s, t)
    BY <1>9, <1>10, <1>13, <2>6, Zenon
  <2> HIDE DEF s
  <2>9. OwnStep(t, <<>>)
    BY <1>1, <1>2, <1>6, <1>13, <2>4, <2>7, <2>8, PollStep, Zenon
  <2> QED
    BY <1>6, <2>9, Zenon
<1> QED
  BY <1>1, <1>11, <1>12, <1>13, Zenon

\* ppoll leaves the queue of a descriptor.
LEMMA PollClearStep ==
  ASSUME Inv, NEW t \in Tasks, PollClear(t)
  PROVE  (\E w : OwnStep(t, w)) /\ Unseen
<1> DEFINE x == aux[t]
           a == at[t]
           p == Fd(t).pipe
           r == ring[p]
           q == WithPollQueue(r, Cleared(r.poll_waiters, t))
<1>1. /\ a \in {"delist", "delist ready"} /\ Runs(t, a) /\ RingStep /\ toWake' = toWake /\ taken' = taken
      /\ ring' = [ring EXCEPT ![p] = q]
      /\ \/ Return(t)
         \/ ~LastFd(t) /\ NextFd(t) /\ prog' = prog /\ at' = at /\ intr' = intr
         \/ FirstFd(t) /\ at' = [at EXCEPT ![t] = "scan"] /\ prog' = prog /\ intr' = intr
  BY Zenon DEF PollClear, Goto, WithPollQueue
<1>2. /\ a # "done" /\ a \in Polling /\ a \in Labels \ {"enlist", "rescan"}
      /\ "scan" \in Polling /\ "scan" \in Labels \ {"enlist", "rescan"}
  BY <1>1 DEF Polling, Labels
<1>3. /\ x \in Aux /\ IsRings(ring) /\ st[t] = "run" /\ toWake[t] = <<>>
      /\ toWake = [toWake EXCEPT ![t] = <<>>]
  BY <1>1, <1>2, AtCall, Zenon
<1>4. PICK n \in Nat \ {0}, i \in Nat : PollsAt(t, n, i)
  BY <1>2, PollLabel, Zenon
<1>5. p \in Pipes /\ RingOK(r) /\ x.i = i /\ (i = n <=> LastFd(t))
  BY <1>3, <1>4, Zenon DEF PollsAt, Fd, LastFd, IsRings
<1>6. Quiet(q, r, <<>>, grown', t)
  BY <1>5, PollerCleared, Zenon
<1> HIDE DEF q, p
<1>7. AllEffect(ring', ring, <<>>, grown', t) /\ Unseen
  BY <1>1, <1>3, <1>5, <1>6, QuietRing, Zenon
<1>8. at = [at EXCEPT ![t] = a]
  BY Zenon DEF Inv, Types
<1> HIDE DEF x, a
<1>9. Local(t) /\ at'[t] \notin {"enlist", "rescan"}
  <2>1. CASE Return(t)
    BY <1>2, <2>1, ReturnLocal, Zenon DEF a
  <2>2. CASE ~LastFd(t) /\ NextFd(t) /\ prog' = prog /\ at' = at /\ intr' = intr
    <3> DEFINE y == WithI(x, i + 1)
    <3>1. i # n
      BY <1>5, <2>2, Zenon
    <3>2. PollGoes(t, a, y, i + 1)
      BY <1>2, <1>3, <1>4, <3>1, PollNext
    <3>3. aux' = [aux EXCEPT ![t] = y]
      BY <1>5, <2>2, FdMoves, Zenon DEF x
    <3> HIDE DEF y
    <3>4. y \in Aux /\ CallOK(Call(t), a, y)
      BY <3>2, Zenon DEF PollGoes
    <3>5. at' = [at EXCEPT ![t] = a]
      BY <1>8, <2>2, Zenon
    <3> QED
      BY <1>1, <1>2, <2>2, <3>3, <3>4, <3>5, OnWake, Zenon
  <2>3. CASE FirstFd(t) /\ at' = [at EXCEPT ![t] = "scan"] /\ prog' = prog /\ intr' = intr
    <3> DEFINE y == WithFd(x, 1, FALSE)
    <3>1. PollGoes(t, "scan", y, 1)
      BY <1>2, <1>3, <1>4, PollFirst
    <3>2. aux' = [aux EXCEPT ![t] = y]
      BY <2>3, FdMoves, Zenon DEF x
    <3> HIDE DEF y
    <3>3. y \in Aux /\ CallOK(Call(t), "scan", y)
      BY <3>1, Zenon DEF PollGoes
    <3> QED
      BY <1>1, <1>2, <2>3, <3>2, <3>3, OnWake, Zenon
  <2> QED
    BY <1>1, <2>1, <2>2, <2>3, Zenon
<1>10. /\ st' = st /\ token' = token /\ signals' = signals /\ grown \subseteq grown'
       /\ toWake' = [toWake EXCEPT ![t] = <<>>]
  BY <1>1, <1>3, Zenon DEF RingStep
<1>11. OwnStep(t, <<>>)
  BY <1>3, <1>7, <1>9, <1>10, EmptyQueue, CalmStep, Zenon
<1> QED
  BY <1>7, <1>11, Zenon

\* Nobody is left to read pipe p, or to write to it; or it gets another capacity.
ShutsRead(p) ==
  /\ Only(p) /\ ring'[p].read_end_open = FALSE /\ ring'[p].write_end_open = ring[p].write_end_open
  /\ ring'[p].capacity = ring[p].capacity /\ Content(ring'[p]) = <<>> /\ taken' = taken

ShutsWrite(p) ==
  /\ Only(p) /\ ring'[p].write_end_open = FALSE /\ ring'[p].read_end_open = ring[p].read_end_open
  /\ ring'[p].capacity = ring[p].capacity /\ Content(ring'[p]) = Content(ring[p]) /\ taken' = taken

Sizes(p, n) ==
  /\ Only(p) /\ SameEnds(ring'[p], ring[p]) /\ ring'[p].capacity = n /\ n >= AvailableRead(ring[p])
  /\ Content(ring'[p]) = Content(ring[p]) /\ taken' = taken

\* close.
LEMMA CloseStep ==
  ASSUME Inv, NEW t \in Tasks, Close(t)
  PROVE  /\ \E w : OwnStep(t, w)
         /\ \/ Unseen
            \/ /\ holders["r"][Call(t).pipe] = {t} /\ Call(t).end = "r"
               /\ Call(t).pipe \in Pipes /\ ShutsRead(Call(t).pipe)
            \/ \E p \in Pipes : ShutsWrite(p)
<1> DEFINE c == Call(t)
           p == c.pipe
           e == c.end
           r == ring[p]
           last == holders[e][p] = {t}
           y == IF ~last THEN r ELSE IF e = "r" THEN TakeWriters(CloseReadEnd(r))
                ELSE TakeReaders([r EXCEPT !.write_end_open = FALSE])
           w == IF ~last THEN <<>> ELSE IF e = "r" THEN Writers(r) ELSE Readers(r)
<1>1. /\ Runs(t, "close") /\ Return(t) /\ ring' = [ring EXCEPT ![p] = y]
      /\ toWake' = [toWake EXCEPT ![t] = w]
      /\ st' = st /\ token' = token /\ signals' = signals /\ taken' = taken /\ grown' = grown
  BY Zenon DEF Close, Wake
<1>2. /\ at[t] = "close" /\ st[t] = "run" /\ toWake[t] = <<>>
      /\ IsRings(ring) /\ CallFields(c) /\ CallOK(c, "close", aux[t])
  BY <1>1, AtCall
<1> HIDE DEF c
<1>3. c.op = "close"
  BY <1>2, LabelCall
<1>4. p \in Pipes /\ e \in {"r", "w"}
  BY <1>2, <1>3 DEF CallFields
<1>5. RingOK(r)
  BY <1>2, <1>4, Zenon DEF IsRings
<1>6. at[t] # "done" /\ grown \subseteq grown'
  BY <1>1, <1>2
<1>7. ASSUME Effect(y, r, w, grown', t), w \in Seq(Tasks)
      PROVE  OwnStep(t, w)
  <2> HIDE DEF y, w, p
  <2>1. AllEffect(ring', ring, w, grown', t)
    BY <1>1, <1>2, <1>4, <1>7, OneRing, Zenon
  <2> QED
    BY <1>1, <1>2, <1>6, <1>7, <2>1, ReturnStep, Zenon
<1>8. ring'[p] = y /\ Only(p)
  <2> HIDE DEF y, p
  <2> QED
    BY <1>1, <1>2, <1>4, Replaced, Zenon
<1>9. CASE ~last
  <2>1. y = r /\ w = <<>>
    BY <1>9, Zenon
  <2>2. ring' = ring
    BY <1>1, <1>2, <2>1, Zenon DEF IsRings
  <2>3. Effect(y, r, w, grown', t) /\ w \in Seq(Tasks)
    <3>1. Effect(r, r, <<>>, grown', t)
      BY <1>5, NoEffect, Zenon
    <3> QED
      BY <2>1, <3>1, EmptyQueue, Zenon
  <2> QED
    BY <1>1, <1>7, <2>2, <2>3, SameRings, Zenon
<1>10. CASE last /\ e = "r"
  <2>1. y = TakeWriters(CloseReadEnd(r)) /\ w = Writers(r)
    BY <1>10, Zenon
  <2>2. Dropped(CloseReadEnd(r), r)
    BY <1>5, CloseReadIs, Zenon
  <2>3. Within(Writers(r), Writers(r)) /\ Writers(r) \in Seq(Tasks)
    BY <1>5, WaitersIn, Zenon DEF Within
  <2>4. /\ Effect(TakeWriters(CloseReadEnd(r)), r, Writers(r), grown', t)
        /\ TakeWriters(CloseReadEnd(r)).read_end_open = FALSE
        /\ TakeWriters(CloseReadEnd(r)).write_end_open = r.write_end_open
        /\ TakeWriters(CloseReadEnd(r)).capacity = r.capacity /\ Content(TakeWriters(CloseReadEnd(r))) = <<>>
    BY <1>5, <2>2, <2>3, CloseReadEffect, Zenon
  <2> HIDE DEF y, w
  <2>5. OwnStep(t, w)
    BY <1>7, <2>1, <2>3, <2>4, Zenon
  <2>6. ShutsRead(p)
    BY <1>1, <1>8, <2>1, <2>4, Zenon DEF ShutsRead
  <2> QED
    BY <1>4, <1>10, <2>5, <2>6, Zenon DEF c
<1>11. CASE last /\ e # "r"
  <2> DEFINE z == TakeReaders([r EXCEPT !.write_end_open = FALSE])
  <2>1. y = z /\ w = Readers(r)
    BY <1>11, Zenon
  <2>2. Within(Readers(r), Readers(r)) /\ Readers(r) \in Seq(Tasks)
    BY <1>5, WaitersIn, Zenon DEF Within
  <2>3. /\ Effect(z, r, Readers(r), grown', t)
        /\ z.read_end_open = r.read_end_open /\ z.write_end_open = FALSE
        /\ z.capacity = r.capacity /\ Content(z) = Content(r)
    BY <1>5, <2>2, CloseWriteEffect, Zenon
  <2> HIDE DEF y, w, z
  <2>4. OwnStep(t, w)
    BY <1>7, <2>1, <2>2, <2>3, Zenon
  <2>5. ShutsWrite(p)
    BY <1>1, <1>8, <2>1, <2>3, Zenon DEF ShutsWrite
  <2> QED
    BY <1>4, <2>4, <2>5, Zenon
<1> QED
  BY <1>9, <1>10, <1>11, Zenon

\* F_SETPIPE_SZ.
LEMMA ResizeStep ==
  ASSUME Inv, NEW t \in Tasks, Resize(t)
  PROVE  /\ \E w : OwnStep(t, w)
         /\ Unseen \/ \E p \in Pipes : \E n \in Nat \ {0} : Sizes(p, n)
<1> DEFINE c == Call(t)
           p == c.pipe
           r == ring[p]
           new == Max({c.n, PIPE_BUF})
<1>1. /\ Runs(t, "resize") /\ Return(t)
      /\ st' = st /\ token' = token /\ signals' = signals /\ taken' = taken /\ toWake' = toWake
      /\ \/ ring' = ring /\ grown' = grown
         \/ /\ ~(new < AvailableRead(r)) /\ ring' = [ring EXCEPT ![p] = ResizeTo(r, new)]
            /\ grown' = IF new > r.capacity THEN grown \cup ToSet(Writers(r)) ELSE grown
  BY Zenon DEF Resize
<1>2. /\ at[t] = "resize" /\ "resize" # "done" /\ st[t] = "run" /\ toWake[t] = <<>>
      /\ IsRings(ring) /\ CallFields(c) /\ CallOK(c, "resize", aux[t])
      /\ toWake = [toWake EXCEPT ![t] = <<>>]
  BY <1>1, AtCall
<1>3. CASE ring' = ring /\ grown' = grown
  <2>1. OwnStep(t, <<>>)
    BY <1>1, <1>2, <1>3, PlainReturn, Zenon
  <2> QED
    BY <1>1, <1>3, <2>1, SameRings, Zenon
<1>4. CASE /\ ~(new < AvailableRead(r)) /\ ring' = [ring EXCEPT ![p] = ResizeTo(r, new)]
           /\ grown' = IF new > r.capacity THEN grown \cup ToSet(Writers(r)) ELSE grown
  <2> HIDE DEF c
  <2>1. c.op = "resize"
    BY <1>2, LabelCall
  <2>2. p \in Pipes /\ c.n \in Nat
    BY <1>2, <2>1 DEF CallFields
  <2>3. RingOK(r)
    BY <1>2, <2>2, Zenon DEF IsRings
  <2>4. PICK n \in Nat \ {0} : n = new /\ n >= PIPE_BUF
    <3>1. PIPE_BUF \in Nat \ {0}
      BY PipeAssumption
    <3>2. Most2(c.n, PIPE_BUF) \in Nat \ {0} /\ Most2(c.n, PIPE_BUF) >= PIPE_BUF
      BY <2>2, <3>1, LeastOfTwo
    <3> QED
      BY <3>2, Zenon DEF Most2
  <2> HIDE DEF new
  <2>5. n >= AvailableRead(r)
    <3>1. PICK a \in Nat : a = AvailableRead(r)
      BY <2>3, RingLevel
    <3>2. ~(n < a)
      BY <1>4, <2>4, <3>1, Zenon
    <3>3. n >= a
      BY ONLY <3>2
    <3> QED
      BY <3>1, <3>3, Zenon
  <2> DEFINE y == ResizeTo(r, n)
  <2>6. Resized(y, r, n)
    BY <2>3, <2>4, <2>5, ResizeIs, Zenon
  <2> HIDE DEF y, p
  <2>7. (n > r.capacity => ToSet(Writers(r)) \subseteq grown') /\ grown \subseteq grown'
    BY <1>4, <2>4, Zenon
  <2>8. Effect(y, r, <<>>, grown', t)
    BY <2>3, <2>6, <2>7, ResizeEffect, Zenon
  <2>9. ring' = [ring EXCEPT ![p] = y]
    BY <1>4, <2>4, Zenon DEF y
  <2>10. AllEffect(ring', ring, <<>>, grown', t)
    BY <1>2, <2>2, <2>8, <2>9, OneRing, Zenon
  <2>11. ring'[p] = y /\ Only(p)
    BY <1>2, <2>2, <2>9, Replaced, Zenon
  <2>12. OwnStep(t, <<>>)
    <3>1. at[t] # "done" /\ toWake' = [toWake EXCEPT ![t] = <<>>]
      BY <1>1, <1>2
    <3> QED
      BY <1>1, <1>2, <2>7, <2>10, <3>1, EmptyQueue, ReturnStep, Zenon
  <2>13. Sizes(p, n)
    BY <1>1, <2>5, <2>6, <2>11, Zenon DEF Sizes, Resized
  <2> QED
    BY <2>2, <2>12, <2>13, Zenon
<1> QED
  BY <1>1, <1>3, <1>4, Zenon

-----------------------------------------------------------------------------
(* Sleep and wakeup *)

\* A task that does not wait.
Clear(u) == at'[u] = "done" \/ (st'[u] \notin Blocked /\ at'[u] \notin {"enlist", "rescan"})

\* Nothing is asked of it.
LEMMA ClearOk ==
  ASSUME NEW u \in Tasks, Clear(u)
  PROVE  ReaderOk(u)' /\ WriterOk(u)' /\ PollOk(u)'
<1>1. /\ st'[u] \in Blocked => at'[u] \notin Reading /\ at'[u] \notin Writing /\ at'[u] # "delist"
      /\ at'[u] # "enlist" /\ at'[u] # "rescan"
  BY DEF Clear, Reading, Writing
<1>2. ReaderIdle(ring', prog'[u], at'[u], st'[u], u)
  BY <1>1, Zenon DEF ReaderIdle
<1>3. WriterIdle(ring', prog'[u], at'[u], aux'[u], st'[u], u)
  BY <1>1, Zenon DEF WriterIdle
<1>4. PollIdle(ring', prog'[u], at'[u], aux'[u], st'[u], u)
  BY <1>1, Zenon DEF PollIdle
<1> QED
  BY <1>2, <1>3, <1>4, Zenon DEF ReaderOk, WriterOk, PollOk

\* A task that waits as before.
LEMMA KeptOk ==
  ASSUME Inv, NEW u \in Tasks, ring' = ring, prog'[u] = prog[u], at'[u] = at[u], aux'[u] = aux[u],
         st'[u] \in Blocked => st[u] \in Blocked, Comes(u) => Comes(u)', u \in grown => u \in grown'
  PROVE  ReaderOk(u)' /\ WriterOk(u)' /\ PollOk(u)'
<1>1. ReaderOk(u) /\ WriterOk(u) /\ PollOk(u)
  BY Zenon DEF Inv, Watched
<1>2. ReaderIdle(ring, prog[u], at[u], st[u], u) => ReaderIdle(ring', prog'[u], at'[u], st'[u], u)
  BY Zenon DEF ReaderIdle
<1>3. WriterIdle(ring, prog[u], at[u], aux[u], st[u], u)
        => WriterIdle(ring', prog'[u], at'[u], aux'[u], st'[u], u)
  BY Zenon DEF WriterIdle
<1>4. PollIdle(ring, prog[u], at[u], aux[u], st[u], u)
        => PollIdle(ring', prog'[u], at'[u], aux'[u], st'[u], u)
  BY Zenon DEF PollIdle
<1> QED
  BY <1>1, <1>2, <1>3, <1>4, Zenon DEF ReaderOk, WriterOk, PollOk

\* Where tasks sleep.
LEMMA SleepLabels == \A a \in Sleeping : a \notin {"enlist", "rescan"} /\ a # "done"
BY DEF Sleeping, Reading, Writing

\* block_current_and_run_next.
LEMMA BlockStep ==
  ASSUME Inv, NEW t \in Tasks, Block(t)
  PROVE  Inv' /\ Unseen
<1> DEFINE s == IF token[t] THEN "awake" ELSE "asleep"
<1>1. /\ st[t] = "block" /\ st' = [st EXCEPT ![t] = s] /\ token' = [token EXCEPT ![t] = FALSE]
      /\ ring' = ring /\ prog' = prog /\ at' = at /\ aux' = aux /\ intr' = intr /\ toWake' = toWake
      /\ signals' = signals /\ taken' = taken /\ grown' = grown
  BY Zenon DEF Block
<1>2. IsRings(ring) /\ Types /\ Placed /\ Watched
  BY Zenon DEF Inv
<1>3. s \in {"run", "block", "asleep", "awake"} /\ s # "run"
  OBVIOUS
<1>4. /\ st' \in [Tasks -> {"run", "block", "asleep", "awake"}] /\ st'[t] = s
      /\ \A u \in Tasks \ {t} : st'[u] = st[u]
  <2> HIDE DEF s
  <2> QED
    BY <1>1, <1>2, <1>3, Zenon DEF Types
<1>5. /\ token' \in [Tasks -> BOOLEAN] /\ \A u \in Tasks \ {t} : token'[u] = token[u]
  BY <1>1, <1>2, Zenon DEF Types
<1>6. Types'
  BY <1>1, <1>2, <1>4, <1>5, Zenon DEF Types
<1>7. at[t] \in Sleeping
  <2>1. st[t] # "run"
    BY <1>1
  <2> QED
    BY <1>2, <2>1, Zenon DEF Placed
<1>8. Placed'
  BY <1>1, <1>2, <1>4, <1>7, Zenon DEF Placed
<1>9. \A u : WakeComing(u)' <=> WakeComing(u)
  BY <1>1, Zenon DEF WakeComing
<1>10. ASSUME NEW u \in Tasks
       PROVE  ReaderOk(u)' /\ WriterOk(u)' /\ PollOk(u)'
  <2>1. CASE u # t
    <3>1. st'[u] = st[u] /\ token'[u] = token[u]
      BY <1>4, <1>5, <2>1, Zenon
    <3>2. Comes(u) => Comes(u)'
      BY <1>9, <3>1, Zenon DEF Comes
    <3> QED
      BY <1>1, <3>1, <3>2, KeptOk, Zenon
  <2>2. CASE u = t /\ token[t]
    <3>1. st'[u] = "awake"
      BY <1>4, <2>2
    <3>2. Clear(u)
      BY <1>1, <1>7, <2>2, <3>1, SleepLabels DEF Clear, Blocked
    <3> QED
      BY <3>2, ClearOk, Zenon
  <2>3. CASE u = t /\ ~token[t]
    <3>1. st[u] \in Blocked
      BY <1>1, <2>3 DEF Blocked
    <3>2. Comes(u) => Comes(u)'
      BY <1>9, <2>3, Zenon DEF Comes
    <3> QED
      BY <1>1, <3>1, <3>2, KeptOk, Zenon
  <2> QED
    BY <2>1, <2>2, <2>3, Zenon
<1>11. Watched'
  BY <1>10, Zenon DEF Watched
<1>12. IsRings(ring)'
  BY <1>1, <1>2, Zenon
<1>13. Inv'
  BY <1>6, <1>8, <1>11, <1>12, Zenon DEF Inv
<1> QED
  BY <1>1, <1>13, SameRings, Zenon

\* The return from the sleep.
LEMMA AwakeStep ==
  ASSUME Inv, NEW t \in Tasks, Awake(t)
  PROVE  Inv' /\ Unseen
<1>1. /\ st[t] = "awake" /\ st' = [st EXCEPT ![t] = "run"] /\ grown' = grown \ {t}
      /\ Return(t) \/ Stay(t)
      /\ ring' = ring /\ token' = token /\ toWake' = toWake /\ signals' = signals /\ taken' = taken
  BY Zenon DEF Awake
<1>2. IsRings(ring) /\ Types /\ Placed /\ Watched
  BY Zenon DEF Inv
<1>3. /\ st' \in [Tasks -> {"run", "block", "asleep", "awake"}] /\ st'[t] = "run"
      /\ \A u \in Tasks \ {t} : st'[u] = st[u]
  <2>1. "run" \in {"run", "block", "asleep", "awake"}
    OBVIOUS
  <2> QED
    BY <1>1, <1>2, <2>1, Zenon DEF Types
<1>4. at[t] \in Sleeping
  <2>1. st[t] # "run"
    BY <1>1
  <2> QED
    BY <1>2, <2>1, Zenon DEF Placed
<1>5. Local(t) /\ at'[t] \notin {"enlist", "rescan"}
  <2>1. at[t] \notin {"enlist", "rescan"} /\ at[t] # "done"
    BY <1>4, SleepLabels, Zenon
  <2>2. CASE Return(t)
    BY <2>1, <2>2, ReturnLocal, Zenon
  <2>3. CASE Stay(t)
    <3>1. prog' = prog /\ at' = at /\ aux' = aux /\ intr' \in [Tasks -> BOOLEAN]
      BY <1>2, <2>3, Zenon DEF Stay, Types
    <3> QED
      BY <2>1, <3>1, StaysLocal, Zenon
  <2> QED
    BY <1>1, <2>2, <2>3, Zenon
<1>6. Types'
  BY <1>1, <1>2, <1>3, <1>5, Zenon DEF Types, Local
<1>7. Placed'
  <2>1. ASSUME NEW u \in Tasks
        PROVE  TaskOK(prog[u], at[u], aux[u])' /\ (st[u] # "run" => at[u] \in Sleeping)'
    <3>1. CASE u = t
      BY <1>3, <1>5, <3>1, Zenon DEF Local
    <3>2. CASE u # t
      <4>1. prog'[u] = prog[u] /\ at'[u] = at[u] /\ aux'[u] = aux[u] /\ st'[u] = st[u]
        BY <1>3, <1>5, <3>2, Zenon DEF Local
      <4> QED
        BY <1>2, <4>1, Zenon DEF Placed
    <3> QED
      BY <3>1, <3>2, Zenon
  <2> QED
    BY <2>1, Zenon DEF Placed
<1>8. ASSUME NEW u \in Tasks
      PROVE  ReaderOk(u)' /\ WriterOk(u)' /\ PollOk(u)'
  <2>1. CASE u = t
    <3>1. "run" \notin Blocked
      BY DEF Blocked
    <3>2. Clear(u)
      BY <1>3, <1>5, <2>1, <3>1, Zenon DEF Clear
    <3> QED
      BY <3>2, ClearOk, Zenon
  <2>2. CASE u # t
    <3>1. prog'[u] = prog[u] /\ at'[u] = at[u] /\ aux'[u] = aux[u] /\ st'[u] = st[u]
      BY <1>3, <1>5, <2>2, Zenon DEF Local
    <3>2. Comes(u) => Comes(u)'
      BY <1>1, <3>1, Zenon DEF Comes, WakeComing
    <3>3. u \in grown => u \in grown'
      BY <1>1, <2>2, Zenon
    <3> QED
      BY <1>1, <3>1, <3>2, <3>3, KeptOk, Zenon
  <2> QED
    BY <2>1, <2>2, Zenon
<1>9. Watched'
  BY <1>8, Zenon DEF Watched
<1>10. IsRings(ring)'
  BY <1>1, <1>2, Zenon
<1>11. Inv'
  BY <1>6, <1>7, <1>9, <1>10, Zenon DEF Inv
<1> QED
  BY <1>1, <1>11, SameRings, Zenon

\* wakeup_task: who sleeps is awake, who does not will find the token.
LEMMA WakeupIs ==
  ASSUME Inv, NEW h \in Tasks, Wakeup(h), at' = at
  PROVE  /\ st' \in [Tasks -> {"run", "block", "asleep", "awake"}] /\ token' \in [Tasks -> BOOLEAN]
         /\ \A u \in Tasks \ {h} : st'[u] = st[u] /\ token'[u] = token[u]
         /\ st'[h] # "run" => at'[h] \in Sleeping
         /\ st[h] # "asleep" => st'[h] = st[h] /\ (token[h] => token'[h])
         /\ Clear(h) \/ (st'[h] # "asleep" /\ token'[h])
<1> DEFINE s == IF st[h] = "asleep" THEN "awake" ELSE st[h]
           k == token[h] \/ (st[h] # "asleep" /\ at[h] # "done")
<1>1. st' = [st EXCEPT ![h] = s] /\ token' = [token EXCEPT ![h] = k]
  BY Zenon DEF Wakeup
<1>2. Types /\ Placed
  BY Zenon DEF Inv
<1>3. st[h] \in {"run", "block", "asleep", "awake"} /\ k \in BOOLEAN
  BY <1>2, Zenon DEF Types
<1>4. s \in {"run", "block", "asleep", "awake"}
  BY <1>3
<1>5. /\ st' \in [Tasks -> {"run", "block", "asleep", "awake"}] /\ st'[h] = s
      /\ \A u \in Tasks \ {h} : st'[u] = st[u]
  <2> HIDE DEF s
  <2> QED
    BY <1>1, <1>2, <1>4, Zenon DEF Types
<1>6. token' \in [Tasks -> BOOLEAN] /\ (token'[h] <=> k) /\ \A u \in Tasks \ {h} : token'[u] = token[u]
  <2>1. token' \in [Tasks -> BOOLEAN] /\ token'[h] = k /\ \A u \in Tasks \ {h} : token'[u] = token[u]
    <3> HIDE DEF k
    <3> QED
      BY <1>1, <1>2, <1>3, Zenon DEF Types
  <2> QED
    BY <2>1, Zenon
<1>7. st[h] # "run" => at[h] \in Sleeping
  BY <1>2, Zenon DEF Placed
<1>8. CASE st[h] = "asleep"
  <2>1. s = "awake" /\ at[h] \in Sleeping
    BY <1>7, <1>8
  <2>2. Clear(h)
    BY <1>5, <2>1, SleepLabels DEF Clear, Blocked
  <2> QED
    BY <1>5, <1>6, <1>8, <2>1, <2>2, Zenon
<1>9. CASE st[h] # "asleep"
  <2>1. s = st[h]
    BY <1>9, Zenon
  <2>2. Clear(h) \/ (st'[h] # "asleep" /\ token'[h])
    <3>1. CASE at[h] = "done"
      BY <3>1, Zenon DEF Clear
    <3>2. CASE at[h] # "done"
      BY <1>5, <1>6, <1>9, <2>1, <3>2, Zenon
    <3> QED
      BY <3>1, <3>2, Zenon
  <2> QED
    BY <1>5, <1>6, <1>7, <2>1, <2>2, Zenon
<1> QED
  BY <1>8, <1>9, Zenon

\* A wakeup keeps the invariant, if the task woken is the only one that a queue loses.
LEMMA WakeupInv ==
  ASSUME Inv, NEW h \in Tasks, Wakeup(h), at' = at, ring' = ring, prog' = prog, aux' = aux, grown' = grown,
         intr' \in [Tasks -> BOOLEAN], toWake' \in [Tasks -> Seq(Tasks)], signals' \in 0..MaxSignals,
         \A u \in Tasks \ {h} : WakeComing(u) => WakeComing(u)'
  PROVE  Inv'
<1>1. /\ st' \in [Tasks -> {"run", "block", "asleep", "awake"}] /\ token' \in [Tasks -> BOOLEAN]
      /\ \A u \in Tasks \ {h} : st'[u] = st[u] /\ token'[u] = token[u]
      /\ st'[h] # "run" => at'[h] \in Sleeping
      /\ Clear(h) \/ (st'[h] # "asleep" /\ token'[h])
      /\ st[h] # "asleep" => st'[h] = st[h]
  BY WakeupIs, Zenon
<1>2. IsRings(ring) /\ Types /\ Placed
  BY Zenon DEF Inv
<1>3. Types'
  BY <1>1, <1>2, Zenon DEF Types
<1>4. Placed'
  BY <1>1, <1>2, Zenon DEF Placed
<1>5. ASSUME NEW u \in Tasks
      PROVE  ReaderOk(u)' /\ WriterOk(u)' /\ PollOk(u)'
  <2>1. CASE u # h
    <3>1. st'[u] = st[u] /\ token'[u] = token[u]
      BY <1>1, <2>1, Zenon
    <3>2. Comes(u) => Comes(u)'
      BY <2>1, <3>1, Zenon DEF Comes
    <3> QED
      BY <3>1, <3>2, KeptOk, Zenon
  <2>2. CASE u = h /\ Clear(h)
    BY <2>2, ClearOk, Zenon
  <2>3. CASE u = h /\ st'[h] # "asleep" /\ token'[h]
    <3>1. Comes(u)'
      BY <2>3, Zenon DEF Comes
    <3> QED
      BY <3>1, Zenon DEF ReaderOk, WriterOk, PollOk
  <2> QED
    BY <1>1, <2>1, <2>2, <2>3, Zenon
<1>6. Watched'
  BY <1>5, Zenon DEF Watched
<1>7. IsRings(ring)'
  BY <1>2, Zenon
<1> QED
  BY <1>3, <1>4, <1>6, <1>7, Zenon DEF Inv

\* wake_waiter_queue.
LEMMA WakeNextStep ==
  ASSUME Inv, NEW t \in Tasks, WakeNext(t)
  PROVE  Inv' /\ Unseen
<1> DEFINE s == toWake[t]
           h == Head(s)
<1>1. /\ s # <<>> /\ Wakeup(h) /\ toWake' = [toWake EXCEPT ![t] = Tail(s)]
      /\ ring' = ring /\ prog' = prog /\ at' = at /\ aux' = aux /\ intr' = intr
      /\ signals' = signals /\ taken' = taken /\ grown' = grown
  BY Zenon DEF WakeNext
<1>2. Types
  BY Zenon DEF Inv
<1>3. s \in Seq(Tasks) /\ intr' \in [Tasks -> BOOLEAN] /\ signals' \in 0..MaxSignals
  BY <1>1, <1>2, Zenon DEF Types
<1>4. h \in Tasks /\ Tail(s) \in Seq(Tasks) /\ \A u : Contains(s, u) => u = h \/ Contains(Tail(s), u)
  BY <1>1, <1>3, SplitQueue, Zenon
<1>5. /\ toWake' \in [Tasks -> Seq(Tasks)] /\ toWake'[t] = Tail(s)
      /\ \A v \in Tasks \ {t} : toWake'[v] = toWake[v]
  BY <1>1, <1>2, <1>4, Zenon DEF Types
<1>6. ASSUME NEW u \in Tasks \ {h}, WakeComing(u)
      PROVE  WakeComing(u)'
  <2>1. PICK v \in Tasks : Contains(toWake[v], u)
    BY <1>6, Zenon DEF WakeComing
  <2>2. CASE v = t
    <3>1. Contains(toWake'[t], u)
      BY <1>4, <1>5, <2>1, <2>2, Zenon
    <3> QED
      BY <3>1, Zenon DEF WakeComing
  <2>3. CASE v # t
    <3>1. Contains(toWake'[v], u)
      BY <1>5, <2>1, <2>3, Zenon
    <3> QED
      BY <3>1, Zenon DEF WakeComing
  <2> QED
    BY <2>2, <2>3, Zenon
<1> HIDE DEF h
<1>7. Inv'
  BY <1>1, <1>3, <1>4, <1>5, <1>6, WakeupInv, Zenon
<1> QED
  BY <1>1, <1>7, SameRings, Zenon

\* A signal.
LEMMA SignalStep ==
  ASSUME Inv, NEW t \in Tasks, Signal(t)
  PROVE  Inv' /\ Unseen
<1>1. /\ signals < MaxSignals /\ signals' = signals + 1 /\ intr' = [intr EXCEPT ![t] = TRUE] /\ Wakeup(t)
      /\ ring' = ring /\ prog' = prog /\ at' = at /\ aux' = aux
      /\ toWake' = toWake /\ taken' = taken /\ grown' = grown
  BY Zenon DEF Signal
<1>2. Types
  BY Zenon DEF Inv
<1>3. intr' \in [Tasks -> BOOLEAN] /\ toWake' \in [Tasks -> Seq(Tasks)]
  BY <1>1, <1>2, Zenon DEF Types
<1>4. signals' \in 0..MaxSignals
  <2>1. signals \in 0..MaxSignals /\ MaxSignals \in Nat
    BY <1>2, PipeAssumption, Zenon DEF Types
  <2> QED
    BY <1>1, <2>1
<1>5. \A u \in Tasks \ {t} : WakeComing(u) => WakeComing(u)'
  BY <1>1, Zenon DEF WakeComing
<1>6. Inv'
  BY <1>1, <1>3, <1>4, <1>5, WakeupInv, Zenon
<1> QED
  BY <1>1, <1>6, SameRings, Zenon

-----------------------------------------------------------------------------
(* The invariant holds *)

\* A new ring is empty.
LEMMA NewRingOK == RingOK(NewRing) /\ Content(NewRing) = <<>>
<1> DEFINE d == DEFAULT_PIPE_CAPACITY
           r == NewRing
<1>1. d \in Nat \ {0} /\ d >= PIPE_BUF
  BY PipeAssumption
<1>2. /\ Fields(r) /\ r.capacity = d /\ r.head = 0 /\ r.tail = 0 /\ r.status = "Empty" /\ r.pages = <<>>
      /\ r.read_end_open = TRUE /\ r.write_end_open = TRUE
      /\ r.read_waiters = <<>> /\ r.write_waiters = <<>> /\ r.poll_waiters = <<>>
  BY DEF NewRing, Fields
<1> HIDE DEF r, d
<1>3. Shape(r.capacity, r.head, r.tail, r.status) /\ r.capacity >= PIPE_BUF
  BY <1>1, <1>2 DEF Shape, Statuses
<1>4. PagesOK(r.pages, r.capacity)
  <2>1. DOMAIN <<>> = {}
    OBVIOUS
  <2> QED
    BY <1>2, <2>1, Zenon DEF PagesOK
<1>5. EndsOK(r) /\ QueuesOK(r)
  BY <1>2, EmptyQueue, Zenon DEF EndsOK, QueuesOK
<1>6. RingOK(r)
  BY <1>2, <1>3, <1>4, <1>5, Zenon DEF RingOK
<1>7. AvailableRead(r) = 0
  BY <1>2, Zenon DEF AvailableRead
<1>8. Content(r) = <<>>
  <2>1. Len(Content(r)) = 0 /\ Content(r) \in Seq(Bytes)
    BY <1>6, <1>7, RingLevel, Zenon
  <2> QED
    BY <2>1, EmptySeq
<1> QED
  BY <1>6, <1>8, Zenon DEF r

\* It holds at the beginning.
LEMMA InitInv == Init => Inv
<1> SUFFICES ASSUME Init PROVE Inv
  OBVIOUS
<1>1. /\ ring = [p \in Pipes |-> NewRing]
      /\ prog \in Programs
      /\ at = [t \in Tasks |-> Entry(prog[t])]
      /\ st = [t \in Tasks |-> "run"]
      /\ aux = [t \in Tasks |-> NoAux]
      /\ token = [t \in Tasks |-> FALSE]
      /\ intr = [t \in Tasks |-> FALSE]
      /\ toWake = [t \in Tasks |-> <<>>]
      /\ signals = 0
  BY Zenon DEF Init
<1>2. \A p \in Pipes : ring[p] = NewRing
  BY <1>1, Zenon
<1>3. IsRings(ring)
  BY <1>1, <1>2, NewRingOK, Zenon DEF IsRings
<1>4. prog \in [Tasks -> Seq(Calls)]
  BY <1>1, PipeAssumption, Zenon
<1>5. \A t \in Tasks : /\ at[t] = Entry(prog[t]) /\ st[t] = "run" /\ aux[t] = NoAux
                       /\ prog[t] \in Seq(Calls)
  BY <1>1, <1>4, Zenon
<1>6. Types
  <2>1. /\ prog = [t \in Tasks |-> prog[t]] /\ at = [t \in Tasks |-> at[t]] /\ aux = [t \in Tasks |-> aux[t]]
    BY <1>1, <1>4, <1>5, Zenon
  <2>2. st \in [Tasks -> {"run", "block", "asleep", "awake"}]
    BY <1>1
  <2>3. token \in [Tasks -> BOOLEAN] /\ intr \in [Tasks -> BOOLEAN] /\ toWake \in [Tasks -> Seq(Tasks)]
    BY <1>1, EmptyQueue, Zenon
  <2>4. signals \in 0..MaxSignals
    BY <1>1, PipeAssumption
  <2> QED
    BY <2>1, <2>2, <2>3, <2>4, Zenon DEF Types
<1>7. Placed
  BY <1>5, EntryIs, Zenon DEF Placed
<1>8. "run" \notin Blocked
  BY DEF Blocked
<1>9. ASSUME NEW u \in Tasks
      PROVE  ReaderOk(u) /\ WriterOk(u) /\ PollOk(u)
  <2>1. st[u] = "run" /\ at[u] \notin {"enlist", "rescan"}
    BY <1>5, EntryIs, Zenon
  <2>2. ReaderIdle(ring, prog[u], at[u], st[u], u)
    BY <1>8, <2>1, Zenon DEF ReaderIdle
  <2>3. WriterIdle(ring, prog[u], at[u], aux[u], st[u], u)
    BY <1>8, <2>1, Zenon DEF WriterIdle
  <2>4. PollIdle(ring, prog[u], at[u], aux[u], st[u], u)
    BY <1>8, <2>1, Zenon DEF PollIdle
  <2> QED
    BY <2>2, <2>3, <2>4, Zenon DEF ReaderOk, WriterOk, PollOk
<1>10. Watched
  BY <1>9, Zenon DEF Watched
<1> QED
  BY <1>3, <1>6, <1>7, <1>10, Zenon DEF Inv

\* Every step keeps it.
LEMMA NextInv ==
  ASSUME Inv, Next
  PROVE  Inv'
<1>1. PICK t \in Tasks : Step(t) \/ Signal(t)
  BY Zenon DEF Next
<1>2. CASE Signal(t)
  BY <1>2, SignalStep, Zenon
<1>3. ASSUME \E w : OwnStep(t, w)
      PROVE  Inv'
  BY <1>3, OwnStepInv, Zenon
<1>4. CASE ReadData(t) \/ ReadEof(t) \/ ReadAgain(t) \/ RegisterReader(t)
  <2>1. \E w : OwnStep(t, w)
    BY <1>4, ReadDataStep, ReadEofStep, ReadAgainStep, RegisterReaderStep, Zenon
  <2> QED
    BY <1>3, <2>1, Zenon
<1>5. CASE WritePipe(t) \/ WriteAgain(t) \/ RegisterWriter(t) \/ WriteData(t)
  <2>1. \E w : OwnStep(t, w)
    BY <1>5, WritePipeStep, WriteAgainStep, RegisterWriterStep, WriteDataStep, Zenon
  <2> QED
    BY <1>3, <2>1, Zenon
<1>6. CASE SpliceReadable(t) \/ SpliceWritable(t) \/ Transfer(t) \/ SpliceStore(t)
  <2>1. \E w : OwnStep(t, w)
    BY <1>6, SpliceReadableStep, SpliceWritableStep, TransferStep, SpliceStoreStep, Zenon
  <2> QED
    BY <1>3, <2>1, Zenon
<1>7. CASE SplicePeek(t) \/ SpliceDiscard(t) \/ PollScan(t) \/ PollRegister(t)
  <2>1. \E w : OwnStep(t, w)
    BY <1>7, SplicePeekStep, SpliceDiscardStep, PollScanStep, PollRegisterStep, Zenon
  <2> QED
    BY <1>3, <2>1, Zenon
<1>8. CASE PollRescan(t) \/ PollClear(t) \/ Close(t) \/ Resize(t)
  <2>1. \E w : OwnStep(t, w)
    BY <1>8, PollRescanStep, PollClearStep, CloseStep, ResizeStep, Zenon
  <2> QED
    BY <1>3, <2>1, Zenon
<1>9. CASE Block(t) \/ Awake(t) \/ WakeNext(t)
  BY <1>9, BlockStep, AwakeStep, WakeNextStep, Zenon
<1> QED
  BY <1>1, <1>2, <1>4, <1>5, <1>6, <1>7, <1>8, <1>9, Zenon DEF Step

\* So does a step that changes nothing.
LEMMA StutterInv ==
  ASSUME Inv, UNCHANGED vars
  PROVE  Inv'
<1>1. /\ ring' = ring /\ prog' = prog /\ at' = at /\ aux' = aux /\ st' = st /\ token' = token /\ intr' = intr
      /\ toWake' = toWake /\ signals' = signals /\ grown' = grown
  BY Zenon DEF vars, taskVars
<1>2. IsRings(ring) /\ Types /\ Placed
  BY Zenon DEF Inv
<1>3. IsRings(ring)' /\ Types' /\ Placed'
  BY <1>1, <1>2, Zenon DEF Types, Placed
<1>4. ASSUME NEW u \in Tasks
      PROVE  ReaderOk(u)' /\ WriterOk(u)' /\ PollOk(u)'
  <2>1. Comes(u) => Comes(u)'
    BY <1>1, Zenon DEF Comes, WakeComing
  <2> QED
    BY <1>1, <2>1, KeptOk, Zenon
<1>5. Watched'
  BY <1>4, Zenon DEF Watched
<1> QED
  BY <1>3, <1>5, Zenon DEF Inv

\* The invariant holds in every reachable state.
THEOREM Invariance == Spec => []Inv
<1>1. Inv /\ [Next]_vars => Inv'
  BY NextInv, StutterInv, Zenon
<1> QED
  BY InitInv, <1>1, PTL DEF Spec

\* What it says of the types.
LEMMA InvTypes == Inv => TypeOK
<1> SUFFICES ASSUME Inv PROVE TypeOK
  OBVIOUS
<1>1. IsRings(ring) /\ Types
  BY Zenon DEF Inv
<1>2. \A p \in Pipes : IsRing(ring[p])
  BY <1>1, RingOKIsRing, Zenon DEF IsRings
<1> QED
  BY <1>1, <1>2, Zenon DEF TypeOK, Types

\* What it says of readers.
LEMMA InvReaders == Inv => NoSleepOverData
<1> SUFFICES ASSUME Inv, NEW t \in Tasks, st[t] = "asleep", at[t] \in Reading
             PROVE  \/ AvailableRead(ring[Call(t).pipe]) = 0 /\ ring[Call(t).pipe].write_end_open
                    \/ WakeComing(t)
  BY Zenon DEF NoSleepOverData
<1>1. ReaderOk(t)
  BY Zenon DEF Inv, Watched
<1>2. st[t] \in Blocked
  BY DEF Blocked
<1> QED
  BY <1>1, <1>2, Zenon DEF ReaderOk, Comes, ReaderIdle, Idle, Call

\* What it says of writers.
LEMMA InvWriters == Inv => NoSleepOverRoom
<1> SUFFICES ASSUME Inv, NEW t \in Tasks, st[t] = "asleep", at[t] \in Writing
             PROVE  \/ /\ ring[OutPipe(t)].read_end_open
                       /\ MustWait(ring[OutPipe(t)], at[t], Want(t))
                    \/ WakeComing(t) \/ t \in grown
  BY Zenon DEF NoSleepOverRoom
<1>1. WriterOk(t)
  BY Zenon DEF Inv, Watched
<1>2. st[t] \in Blocked
  BY DEF Blocked
<1>3. OutPipe(t) = OutOf(Head(prog[t])) /\ Want(t) = WantOf(Head(prog[t]), aux[t])
  BY Zenon DEF OutPipe, OutOf, Want, WantOf, Call
<1> QED
  BY <1>1, <1>2, <1>3, Zenon DEF WriterOk, Comes, WriterIdle, Stuck

\* What it says of ppoll.
LEMMA InvPollers == Inv => NoPollOverEvent
<1> SUFFICES ASSUME Inv, NEW t \in Tasks, st[t] = "asleep", at[t] = "delist",
                    ~WakeComing(t), t \notin grown, NEW i \in DOMAIN Call(t).fds
             PROVE  ~IsReady(Call(t).fds[i])
  BY Zenon DEF NoPollOverEvent
<1> DEFINE f == Call(t).fds
<1>1. PollOk(t)
  BY Zenon DEF Inv, Watched
<1>2. st[t] \in Blocked /\ at[t] \in Polling
  BY DEF Blocked, Polling
<1>3. Listed(ring, f, t, Len(f), Len(f))
  BY <1>1, <1>2, Zenon DEF PollOk, Comes, PollIdle, Call
<1>4. PICK n \in Nat \ {0}, k \in Nat : PollsAt(t, n, k)
  BY <1>2, PollLabel, Zenon
<1>5. f \in Seq(Poll) /\ Len(f) = n
  BY <1>4, Zenon DEF PollsAt
<1>6. i \in 1..Len(f)
  <2>1. DOMAIN f = 1..Len(f)
    BY <1>5, LenProperties
  <2> QED
    BY <2>1, Zenon
<1> DEFINE r == ring[f[i].pipe]
           e == f[i].end
<1>7. Unready(r, e)
  BY <1>3, <1>6, Zenon DEF Listed
<1>8. ~(0 > 0)
  OBVIOUS
<1> QED
  BY <1>7, <1>8, Zenon DEF IsReady, Unready

\* Types, and the shape of every ring: head and tail stay inside the capacity,
\* and meet only when the ring is full or empty.
THEOREM TypeCorrect == Spec => []TypeOK
BY Invariance, InvTypes, PTL

\* A reader never sleeps over bytes or over a pipe without writers, unless it is
\* about to be woken.
THEOREM NoLostReader == Spec => []NoSleepOverData
BY Invariance, InvReaders, PTL

\* A writer never sleeps over room or over a pipe without readers, unless it is
\* about to be woken or a larger capacity made the room.
THEOREM NoLostWriter == Spec => []NoSleepOverRoom
BY Invariance, InvWriters, PTL

\* ppoll never sleeps over a descriptor that is ready, with the same exceptions.
THEOREM NoLostPoller == Spec => []NoPollOverEvent
BY Invariance, InvPollers, PTL

-----------------------------------------------------------------------------
(* Splice to a file, alone with its pipe *)

\* What is left of the programs of t and of the others, and the read end t holds.
Alone(pr, hold, t, p) ==
  /\ t \in hold[p]
  /\ \A u \in Tasks \ {t} : \A j \in DOMAIN pr[u] : ~Consumes(pr[u][j], p)

Kept(s, i, p) == \A j \in 1..i : s[j] # ReadClose(p)

DrainOk(pr, hold, t) ==
  \A i \in DOMAIN pr[t] :
    pr[t][i].op = "drain" => Alone(pr, hold, t, pr[t][i].pipe) /\ Kept(pr[t], i, pr[t][i].pipe)

\* The bytes of b are first in ring r.
Leads(r, b) == Len(b) # 0 /\ Len(b) <= AvailableRead(r) /\ b = SubSeq(Content(r), 1, Len(b))

\* While splice writes to the file, what it has peeked stays first in the pipe.
DrainInv ==
  /\ holders \in [{"r", "w"} -> [Pipes -> SUBSET Tasks]]
  /\ \A t \in Tasks : DrainOk(prog, holders["r"], t)
  /\ \A t \in Tasks : at[t] = "discard" => Leads(ring[Head(prog[t]).pipe], aux[t].peeked)

\* A call that goes on or returns, and is not between peek and discard then.
Onward(t) ==
  /\ holders' = holders
  /\ \/ prog' = prog /\ at' = at /\ at[t] # "discard"
     \/ \E a : prog' = prog /\ at' = [at EXCEPT ![t] = a] /\ a # "discard"
     \/ Return(t)

Advances(t) == prog' = prog \/ prog' = [prog EXCEPT ![t] = Tail(prog[t])]

\* No call begins with the discard.
LEMMA EntryNotDiscard ==
  ASSUME NEW s, s \in Seq(Calls)
  PROVE  Entry(s) # "discard"
<1>1. CASE s = <<>>
  BY <1>1 DEF Entry
<1>2. CASE s # <<>>
  <2>1. TaskOK(s, Entry(s), NoAux)
    BY EntryIs, Zenon
  <2>2. Head(s) \in Calls
    BY <1>2, HeadTailProperties
  <2> DEFINE o == Head(s).op
  <2>3. o \in {"read", "write", "writev", "splice", "drain", "fill", "poll", "close", "resize"}
    BY <2>2 DEF Calls
  <2> HIDE DEF o
  <2>4. Entry(s) = IF o \in {"splice", "drain"} THEN "waitin" ELSE IF o = "fill" THEN "waitout"
                   ELSE IF o = "poll" THEN "scan" ELSE o
    BY <1>2, Zenon DEF Entry, o
  <2> QED
    BY <2>3, <2>4
<1> QED
  BY <1>1, <1>2

\* So it is at another label, with the same calls or one less.
LEMMA OnwardAt ==
  ASSUME Inv, NEW t \in Tasks, at[t] # "done", Onward(t)
  PROVE  Advances(t) /\ at'[t] # "discard" /\ holders' = holders
<1>1. Types /\ TaskOK(prog[t], at[t], aux[t])
  BY Zenon DEF Inv, Placed
<1>2. at = [u \in Tasks |-> at[u]]
  BY <1>1, Zenon DEF Types
<1>3. CASE prog' = prog /\ at' = at /\ at[t] # "discard"
  BY <1>3, Zenon DEF Advances, Onward
<1>4. CASE \E a : prog' = prog /\ at' = [at EXCEPT ![t] = a] /\ a # "discard"
  BY <1>2, <1>4, Zenon DEF Advances, Onward
<1>5. CASE Return(t)
  <2>1. prog[t] \in Seq(Calls) /\ prog[t] # <<>>
    BY <1>1, Zenon DEF TaskOK
  <2>2. Tail(prog[t]) \in Seq(Calls)
    BY <2>1, HeadTailProperties
  <2>3. at'[t] = Entry(Tail(prog[t])) /\ prog' = [prog EXCEPT ![t] = Tail(prog[t])]
    BY <1>2, <1>5, Zenon DEF Return, Goto
  <2> QED
    BY <2>2, <2>3, EntryNotDiscard, Zenon DEF Advances, Onward
<1> QED
  BY <1>3, <1>4, <1>5, Zenon DEF Onward

\* Every step of a call is one, unless it closes, peeks or sleeps.  First read.
LEMMA OnwardRead ==
  ASSUME NEW t \in Tasks, ReadData(t) \/ ReadEof(t) \/ ReadAgain(t) \/ RegisterReader(t)
  PROVE  Onward(t) /\ at[t] # "done"
<1>1. at[t] \in Reading /\ holders' = holders
  BY DEF ReadData, ReadEof, ReadAgain, RegisterReader, Runs, Reading, RingStep
<1>2. at[t] # "discard" /\ at[t] # "done"
  BY <1>1 DEF Reading
<1>3. Return(t) \/ (prog' = prog /\ at' = at)
  BY Zenon DEF ReadData, ReadEof, ReadAgain, RegisterReader, ReturnSome, Stay
<1> QED
  BY <1>1, <1>2, <1>3, Zenon DEF Onward

\* The same of write.
LEMMA OnwardWrite ==
  ASSUME NEW t \in Tasks, WritePipe(t) \/ WriteAgain(t) \/ RegisterWriter(t) \/ WriteData(t)
  PROVE  Onward(t) /\ at[t] # "done"
<1>1. at[t] \in Writing /\ holders' = holders
  BY DEF WritePipe, WriteAgain, RegisterWriter, WriteData, Writing, RingStep
<1>2. at[t] # "discard" /\ at[t] # "done"
  BY <1>1 DEF Writing
<1>3. Return(t) \/ (prog' = prog /\ at' = at)
  BY Zenon DEF WritePipe, WriteAgain, RegisterWriter, WriteData, Stay
<1> QED
  BY <1>1, <1>2, <1>3, Zenon DEF Onward

\* Of splice.
LEMMA OnwardSplice ==
  ASSUME NEW t \in Tasks,
         SpliceReadable(t) \/ SpliceWritable(t) \/ Transfer(t) \/ SpliceStore(t) \/ SpliceDiscard(t)
  PROVE  Onward(t) /\ at[t] # "done"
<1>1. at[t] \in {"waitin", "waitout", "transfer", "store", "discard"} /\ holders' = holders
  BY DEF SpliceReadable, SpliceWritable, Transfer, SpliceStore, SpliceDiscard, Runs, RingStep
<1>2. at[t] # "done"
  BY <1>1
<1>3. Return(t) \/ (prog' = prog /\ \E a \in {"waitin", "waitout", "transfer", "store", "peek"} : Goto(t, a))
  <2>1. SpliceReadable(t) => prog' = prog /\ (Goto(t, "peek") \/ Goto(t, "waitout"))
    BY Zenon DEF SpliceReadable
  <2>2. SpliceWritable(t) => prog' = prog /\ (Goto(t, "store") \/ Goto(t, "transfer"))
    BY Zenon DEF SpliceWritable
  <2>3. Transfer(t) => Return(t) \/ (prog' = prog /\ Goto(t, "waitin"))
    BY Zenon DEF Transfer
  <2>4. SpliceStore(t) => Return(t) \/ (prog' = prog /\ Goto(t, "waitout"))
    BY Zenon DEF SpliceStore
  <2>5. SpliceDiscard(t) => Return(t) \/ (prog' = prog /\ Goto(t, "peek"))
    BY Zenon DEF SpliceDiscard
  <2> QED
    BY <2>1, <2>2, <2>3, <2>4, <2>5, Zenon
<1>4. \A a \in {"waitin", "waitout", "transfer", "store", "peek"} : a # "discard"
  OBVIOUS
<1> QED
  BY <1>1, <1>2, <1>3, <1>4, Zenon DEF Onward, Goto

\* Of ppoll and F_SETPIPE_SZ.
LEMMA OnwardPoll ==
  ASSUME NEW t \in Tasks,
         PollScan(t) \/ PollRegister(t) \/ PollRescan(t) \/ PollClear(t) \/ Resize(t)
  PROVE  Onward(t) /\ at[t] # "done"
<1>1. at[t] \in {"scan", "enlist", "rescan", "delist", "delist ready", "resize"} /\ holders' = holders
  BY DEF PollScan, PollRegister, PollRescan, PollClear, Resize, Runs, RingStep
<1>2. at[t] # "discard" /\ at[t] # "done"
  BY <1>1
<1>3. \/ Return(t) \/ (prog' = prog /\ at' = at)
      \/ prog' = prog /\ \E a \in {"scan", "enlist", "rescan", "delist", "delist ready"} : Goto(t, a)
  <2>1. PollScan(t) => Return(t) \/ (prog' = prog /\ (at' = at \/ Goto(t, "enlist")))
    BY Zenon DEF PollScan
  <2>2. PollRegister(t) => prog' = prog /\ (at' = at \/ Goto(t, "rescan"))
    BY Zenon DEF PollRegister
  <2>3. PollRescan(t) => prog' = prog /\ (at' = at \/ Goto(t, "delist") \/ Goto(t, "delist ready"))
    BY Zenon DEF PollRescan
  <2>4. PollClear(t) => Return(t) \/ (prog' = prog /\ (at' = at \/ Goto(t, "scan")))
    BY Zenon DEF PollClear
  <2>5. Resize(t) => Return(t)
    BY Zenon DEF Resize
  <2> QED
    BY <2>1, <2>2, <2>3, <2>4, <2>5, Zenon
<1>4. \A a \in {"scan", "enlist", "rescan", "delist", "delist ready"} : a # "discard"
  OBVIOUS
<1> QED
  BY <1>1, <1>2, <1>3, <1>4, Zenon DEF Onward, Goto

\* Call j of the rest is call j + d of the program.
Shifts(q, s, d) == \A j \in DOMAIN q : j + d \in DOMAIN s /\ q[j] = s[j + d]

\* The calls that are left after a step.
LEMMA AdvanceShifts ==
  ASSUME Inv, NEW t \in Tasks, at[t] # "done", prog' = [prog EXCEPT ![t] = Tail(prog[t])], NEW u \in Tasks
  PROVE  /\ u = t => Shifts(prog'[u], prog[u], 1)
         /\ u # t => Shifts(prog'[u], prog[u], 0)
         /\ prog'[u] \in Seq(Calls) /\ prog[u] \in Seq(Calls)
<1>1. prog = [v \in Tasks |-> prog[v]]
  BY Zenon DEF Inv, Types
<1>2. \A v \in Tasks : TaskOK(prog[v], at[v], aux[v])
  BY Zenon DEF Inv, Placed
<1>3. prog[t] # <<>> /\ prog[t] \in Seq(Calls) /\ prog[u] \in Seq(Calls)
  BY <1>2, Zenon DEF TaskOK
<1>4. CASE u = t
  <2>1. prog'[u] = Tail(prog[t])
    BY <1>1, <1>4, Zenon
  <2> DEFINE s == prog[t]
  <2>2. s \in Seq(Calls) /\ s # <<>>
    BY <1>3, Zenon
  <2> HIDE DEF s
  <2>3. Tail(s) \in Seq(Calls)
    BY <2>2, HeadTailProperties
  <2>4. Shifts(Tail(s), s, 1)
    BY <2>2 DEF Shifts
  <2> QED
    BY <1>3, <1>4, <2>1, <2>3, <2>4, Zenon DEF s
<1>5. CASE u # t
  <2>1. prog'[u] = prog[u]
    BY <1>1, <1>5, Zenon
  <2> DEFINE s == prog[u]
  <2>2. s \in Seq(Calls)
    BY <1>3, Zenon
  <2> HIDE DEF s
  <2>3. Shifts(s, s, 0)
    BY <2>2 DEF Shifts
  <2> QED
    BY <1>3, <1>5, <2>1, <2>3, Zenon DEF s
<1> QED
  BY <1>4, <1>5, Zenon

\* Nothing in the rest consumes what nothing in the program did.
LEMMA ShiftConsumes ==
  ASSUME NEW q, NEW s, NEW d \in {0, 1}, Shifts(q, s, d), NEW p,
         \A j \in DOMAIN s : ~Consumes(s[j], p)
  PROVE  \A j \in DOMAIN q : ~Consumes(q[j], p)
BY Zenon DEF Shifts

\* The read end is closed no earlier in the rest.
LEMMA ShiftKept ==
  ASSUME NEW q, q \in Seq(Calls), NEW s, NEW d \in {0, 1}, Shifts(q, s, d), NEW p,
         NEW i \in DOMAIN q, Kept(s, i + d, p)
  PROVE  Kept(q, i, p)
<1> SUFFICES ASSUME NEW j \in 1..i PROVE q[j] # ReadClose(p)
  BY Zenon DEF Kept
<1>1. PICK l \in Nat : DOMAIN q = 1..l
  BY LenProperties
<1>2. j \in DOMAIN q /\ j + d \in 1..(i + d)
  BY <1>1
<1> QED
  BY <1>2, Zenon DEF Kept, Shifts

\* A task that drains is past the read end only when it has closed it.
LEMMA KeptFirst ==
  ASSUME NEW s, NEW i \in Nat \ {0}, NEW p, Kept(s, i, p)
  PROVE  s[1] # ReadClose(p)
<1>1. 1 \in 1..i
  OBVIOUS
<1> QED
  BY <1>1, Zenon DEF Kept

\* What is left of a program can do no more than the program.
LEMMA DrainOkTail ==
  ASSUME Inv, NEW t \in Tasks, at[t] # "done", prog' = [prog EXCEPT ![t] = Tail(prog[t])],
         NEW hold, NEW h, \A u \in Tasks : DrainOk(prog, hold, u),
         \A p \in Pipes : \A u \in Tasks :
           u \in hold[p] /\ (u = t => prog[t][1] # ReadClose(p)) => u \in h[p],
         NEW u \in Tasks
  PROVE  DrainOk(prog', h, u)
<1> SUFFICES ASSUME NEW i \in DOMAIN prog'[u], prog'[u][i].op = "drain"
             PROVE  Alone(prog', h, u, prog'[u][i].pipe) /\ Kept(prog'[u], i, prog'[u][i].pipe)
  BY Zenon DEF DrainOk
<1> DEFINE p == prog'[u][i].pipe
<1>1. PICK d \in {0, 1} : Shifts(prog'[u], prog[u], d) /\ (u = t => d = 1)
  BY AdvanceShifts, Zenon
<1>2. prog'[u] \in Seq(Calls) /\ prog[u] \in Seq(Calls)
  BY AdvanceShifts, Zenon
<1>3. i + d \in DOMAIN prog[u] /\ prog[u][i + d] = prog'[u][i]
  BY <1>1, Zenon DEF Shifts
<1>4. Alone(prog, hold, u, p) /\ Kept(prog[u], i + d, p)
  <2>1. DrainOk(prog, hold, u)
    OBVIOUS
  <2> QED
    BY <1>3, <2>1, Zenon DEF DrainOk
<1>5. i \in Nat \ {0} /\ i + d \in Nat \ {0} /\ prog'[u][i] \in Calls
  <2>1. DOMAIN prog'[u] = 1..Len(prog'[u]) /\ Len(prog'[u]) \in Nat
    BY <1>2, LenProperties
  <2>2. PICK l \in Nat : i \in 1..l
    BY <2>1, Zenon
  <2>3. i \in Nat \ {0} /\ i + d \in Nat \ {0}
    BY ONLY <2>2, d \in {0, 1}
  <2>4. prog'[u][i] \in Calls
    BY <1>2, <2>1, ElementOfSeq
  <2> QED
    BY <2>3, <2>4
<1>6. p \in Pipes
  <2> DEFINE c == prog'[u][i]
  <2>1. c \in Calls /\ c.op = "drain"
    BY <1>5, Zenon
  <2> HIDE DEF c
  <2>2. c.pipe \in Pipes
    BY <2>1 DEF Calls
  <2> QED
    BY <2>2, Zenon DEF c
<1> HIDE DEF p
<1>7. u \in h[p]
  <2>1. u = t => prog[t][1] # ReadClose(p)
    BY <1>4, <1>5, KeptFirst, Zenon
  <2>2. u \in hold[p]
    BY <1>4, Zenon DEF Alone
  <2> QED
    BY <1>6, <2>1, <2>2, Zenon
<1>8. ASSUME NEW v \in Tasks \ {u}
      PROVE  \A j \in DOMAIN prog'[v] : ~Consumes(prog'[v][j], p)
  <2>1. \A j \in DOMAIN prog[v] : ~Consumes(prog[v][j], p)
    BY <1>4, Zenon DEF Alone
  <2>2. PICK e \in {0, 1} : Shifts(prog'[v], prog[v], e)
    BY AdvanceShifts, Zenon
  <2> QED
    BY <2>1, <2>2, ShiftConsumes, Zenon
<1>9. Kept(prog'[u], i, p)
  BY <1>1, <1>2, <1>4, ShiftKept, Zenon
<1> QED
  BY <1>7, <1>8, <1>9, Zenon DEF Alone, p

\* The holders of the read ends change only when one is closed.
LEMMA DrainOkAdvance ==
  ASSUME Inv, DrainInv, NEW t \in Tasks, at[t] # "done", Advances(t), holders' = holders
  PROVE  /\ holders' \in [{"r", "w"} -> [Pipes -> SUBSET Tasks]]
         /\ \A u \in Tasks : DrainOk(prog', holders'["r"], u)
<1>1. /\ holders' \in [{"r", "w"} -> [Pipes -> SUBSET Tasks]]
      /\ \A u \in Tasks : DrainOk(prog, holders'["r"], u)
  BY Zenon DEF DrainInv
<1>2. CASE prog' = prog
  BY <1>1, <1>2, Zenon
<1>3. CASE prog' = [prog EXCEPT ![t] = Tail(prog[t])]
  <2> DEFINE h == holders'["r"]
  <2>1. \A u \in Tasks : DrainOk(prog, h, u)
    BY <1>1, Zenon
  <2> HIDE DEF h
  <2>2. \A u \in Tasks : DrainOk(prog', h, u)
    BY <1>3, <2>1, DrainOkTail, Zenon
  <2> QED
    BY <1>1, <2>2, Zenon DEF h
<1> QED
  BY <1>2, <1>3, Zenon DEF Advances

\* close takes the task itself off, and it drains nothing after that.
LEMMA DrainOkClose ==
  ASSUME Inv, DrainInv, NEW t \in Tasks, Close(t)
  PROVE  /\ holders' \in [{"r", "w"} -> [Pipes -> SUBSET Tasks]]
         /\ \A u \in Tasks : DrainOk(prog', holders'["r"], u)
         /\ at[t] # "done" /\ Advances(t) /\ at'[t] # "discard"
<1> DEFINE c == Call(t)
<1>1. Runs(t, "close") /\ Return(t) /\ holders' = [holders EXCEPT ![c.end][c.pipe] = @ \ {t}]
  BY Zenon DEF Close
<1>2. at[t] = "close" /\ "close" # "done" /\ CallFields(c) /\ CallOK(c, "close", aux[t])
      /\ TaskOK(prog[t], "close", aux[t])
  BY <1>1, AtCall
<1>3. prog[t] \in Seq(Calls) /\ prog[t] # <<>>
  BY <1>2, Zenon DEF TaskOK
<1>4. c = prog[t][1] /\ c \in Calls
  BY <1>3, HeadTailProperties DEF Call
<1> HIDE DEF c
<1>5. c.op = "close"
  BY <1>2, LabelCall
<1>6. c.pipe \in Pipes /\ c.end \in {"r", "w"} /\ c = [op |-> "close", pipe |-> c.pipe, end |-> c.end]
  BY <1>4, <1>5 DEF Calls
<1>7. holders \in [{"r", "w"} -> [Pipes -> SUBSET Tasks]]
  BY Zenon DEF DrainInv
<1>8. holders' \in [{"r", "w"} -> [Pipes -> SUBSET Tasks]]
  BY <1>1, <1>6, <1>7
<1> DEFINE hold == holders["r"]
           h    == holders'["r"]
<1>9. ASSUME NEW p \in Pipes, NEW u \in Tasks, u \in hold[p], u = t => prog[t][1] # ReadClose(p)
      PROVE  u \in h[p]
  <2>1. c # ReadClose(p) \/ u # t
    BY <1>4, <1>9, Zenon
  <2>2. CASE c.end = "r" /\ c.pipe = p
    <3>1. u # t
      BY <1>6, <2>1, <2>2, Zenon DEF ReadClose
    <3>2. h[p] = hold[p] \ {t}
      BY <1>1, <1>7, <2>2
    <3> QED
      BY <1>9, <3>1, <3>2, Zenon
  <2>3. CASE ~(c.end = "r" /\ c.pipe = p)
    <3>1. h[p] = hold[p]
      BY <1>1, <1>6, <1>7, <2>3
    <3> QED
      BY <1>9, <3>1, Zenon
  <2> QED
    BY <2>2, <2>3, Zenon
<1>10. \A u \in Tasks : DrainOk(prog, hold, u)
  BY Zenon DEF DrainInv
<1> HIDE DEF hold, h
<1>11. prog' = [prog EXCEPT ![t] = Tail(prog[t])]
  BY <1>1, Zenon DEF Return
<1>12. \A u \in Tasks : DrainOk(prog', h, u)
  BY <1>2, <1>9, <1>10, <1>11, DrainOkTail, Zenon
<1>13. at'[t] = Entry(Tail(prog[t]))
  BY <1>1, Zenon DEF Inv, Types, Return, Goto
<1>14. Tail(prog[t]) \in Seq(Calls)
  BY <1>3, HeadTailProperties
<1> QED
  BY <1>2, <1>8, <1>11, <1>12, <1>13, <1>14, EntryNotDiscard, Zenon DEF h, Advances

-----------------------------------------------------------------------------
(* What a step does to the pipes *)

Deed(t) ==
  \/ Unseen
  \/ \E p \in Pipes : Consumes(Call(t), p) /\ \E n \in Nat \ {0} : Takes(p, n)
  \/ \E p \in Pipes : \E d : Gives(p, d)
  \/ \E p \in Pipes : Consumes(Call(t), p) /\ \E q \in Pipes \ {p} : \E n \in Nat \ {0} : Moves(p, q, n)
  \/ \E p \in Pipes : holders["r"][p] = {t} /\ ShutsRead(p)
  \/ \E p \in Pipes : ShutsWrite(p)
  \/ \E p \in Pipes : \E n \in Nat \ {0} : Sizes(p, n)

\* Appending leaves what is first.
LEMMA LeadsKept ==
  ASSUME NEW r, RingOK(r), NEW q, RingOK(q), NEW b, b \in Seq(Bytes), Leads(r, b),
         NEW e, e \in Seq(Bytes), Content(q) = Content(r) \o e
  PROVE  Leads(q, b)
<1> DEFINE c == Content(r)
           k == Content(q)
<1>1. /\ c \in Seq(Bytes) /\ Len(c) = AvailableRead(r) /\ k \in Seq(Bytes) /\ Len(k) = AvailableRead(q)
  BY RingLevel, Zenon
<1>2. k = c \o e
  BY Zenon
<1>3. Len(b) # 0 /\ Len(b) <= Len(c) /\ b = SubSeq(c, 1, Len(b))
  BY <1>1, Zenon DEF Leads
<1> HIDE DEF c, k
<1>4. PICK l \in Nat, m \in Nat, n \in Nat : Len(c) = l /\ Len(e) = m /\ Len(b) = n
  BY <1>1
<1>5. n # 0 /\ n <= l /\ n <= l + m /\ l + m \in Nat
  BY <1>3, <1>4
<1>6. Len(k) = l + m /\ \A i \in 1..(l + m) : k[i] = IF i <= l THEN c[i] ELSE e[i - l]
  <2>1. IsConcat(Bytes, c \o e, c, e, l, m)
    BY <1>1, <1>4, ConcatIs
  <2> QED
    BY <1>2, <2>1, Zenon DEF IsConcat
<1>7. \A i \in 1..l : k[i] = c[i]
  BY <1>6
<1>8. /\ SubSeq(k, 1, n) \in Seq(Bytes) /\ Len(SubSeq(k, 1, n)) = n
      /\ \A i \in 1..n : SubSeq(k, 1, n)[i] = k[i]
  BY <1>1, <1>5, <1>6, Prefix
<1>9. /\ SubSeq(c, 1, n) \in Seq(Bytes) /\ Len(SubSeq(c, 1, n)) = n
      /\ \A i \in 1..n : SubSeq(c, 1, n)[i] = c[i]
  BY <1>1, <1>4, <1>5, Prefix
<1>10. \A i \in 1..n : SubSeq(k, 1, n)[i] = SubSeq(c, 1, n)[i]
  BY <1>5, <1>7, <1>8, <1>9
<1>11. SubSeq(k, 1, n) = SubSeq(c, 1, n)
  <2> DEFINE x == SubSeq(k, 1, n)
             y == SubSeq(c, 1, n)
  <2>1. x \in Seq(Bytes) /\ y \in Seq(Bytes) /\ Len(x) = n /\ Len(y) = n /\ \A i \in 1..n : x[i] = y[i]
    BY <1>8, <1>9, <1>10, Zenon
  <2> HIDE DEF x, y
  <2>2. x = y
    BY <2>1, SeqEqual, Zenon
  <2> QED
    BY <2>2, Zenon DEF x, y
<1>12. n <= AvailableRead(q)
  BY <1>1, <1>5, <1>6, Zenon DEF k
<1> QED
  BY <1>3, <1>4, <1>5, <1>11, <1>12, Zenon DEF Leads, k

\* So does a step that leaves the content.
LEMMA LeadsSame ==
  ASSUME NEW r, RingOK(r), NEW q, RingOK(q), NEW b, Leads(r, b), Content(q) = Content(r)
  PROVE  Leads(q, b)
<1>1. AvailableRead(q) = AvailableRead(r)
  BY RingLevel, Zenon
<1> QED
  BY <1>1, Zenon DEF Leads

\* The bytes another task has peeked stay first.
LEMMA DeedLeads ==
  ASSUME Inv, Inv', NEW t \in Tasks, Deed(t), prog[t] # <<>>, NEW u \in Tasks, u # t, NEW p \in Pipes,
         Alone(prog, holders["r"], u, p), NEW b, b \in Seq(Bytes), Leads(ring[p], b)
  PROVE  Leads(ring'[p], b)
<1>1. RingOK(ring[p]) /\ RingOK(ring'[p])
  BY Zenon DEF Inv, IsRings
<1>2. ~Consumes(Call(t), p)
  <2>1. prog[t] \in Seq(Calls)
    BY Zenon DEF Inv, Placed, TaskOK
  <2>2. 1 \in DOMAIN prog[t] /\ Call(t) = prog[t][1]
    <3> DEFINE s == prog[t]
    <3>1. s \in Seq(Calls) /\ s # <<>>
      BY <2>1, Zenon
    <3> HIDE DEF s
    <3>2. 1 \in DOMAIN s /\ Head(s) = s[1]
      BY <3>1, EmptySeq
    <3> QED
      BY <3>2, Zenon DEF s, Call
  <2> QED
    BY <2>2, Zenon DEF Alone
<1>3. ring'[p] = ring[p] => Leads(ring'[p], b)
  BY Zenon
<1>4. CASE Unseen
  BY <1>1, <1>4, LeadsSame, Zenon DEF Unseen
<1>5. CASE \E q \in Pipes : Consumes(Call(t), q) /\ \E n \in Nat \ {0} : Takes(q, n)
  BY <1>2, <1>3, <1>5, Zenon DEF Takes, Only
<1>6. CASE \E q \in Pipes : \E d : Gives(q, d)
  <2>0. PICK q \in Pipes : \E d : Gives(q, d)
    BY <1>6, Zenon
  <2>1. PICK d : Gives(q, d)
    BY <2>0, Zenon
  <2>2. CASE q = p
    BY <1>1, <2>1, <2>2, LeadsKept, Zenon DEF Gives, Fed
  <2> QED
    BY <1>3, <2>1, <2>2, Zenon DEF Gives, Only
<1>7. CASE \E o \in Pipes : Consumes(Call(t), o) /\ \E q \in Pipes \ {o} : \E n \in Nat \ {0} : Moves(o, q, n)
  <2>1. PICK o \in Pipes : Consumes(Call(t), o) /\ \E q \in Pipes \ {o} : \E n \in Nat \ {0} : Moves(o, q, n)
    BY <1>7, Zenon
  <2>2. PICK q \in Pipes \ {o} : \E n \in Nat \ {0} : Moves(o, q, n)
    BY <2>1, Zenon
  <2>3. PICK n \in Nat \ {0} : Moves(o, q, n)
    BY <2>2, Zenon
  <2>4. o # p
    BY <1>2, <2>1, Zenon
  <2>5. CASE q = p
    <3> DEFINE e == SubSeq(Content(ring[o]), 1, n)
    <3>1. e \in Seq(Bytes)
      <4>1. RingOK(ring[o]) /\ n <= AvailableRead(ring[o])
        BY <2>3, Zenon DEF Inv, IsRings, Moves
      <4>2. PICK l \in Nat : Len(Content(ring[o])) = l /\ n <= l /\ Content(ring[o]) \in Seq(Bytes)
        BY <4>1, RingLevel
      <4> QED
        BY <4>2, Prefix
    <3>2. Content(ring'[p]) = Content(ring[p]) \o e
      BY <2>3, <2>5, Zenon DEF Moves, Fed
    <3> QED
      BY <1>1, <3>1, <3>2, LeadsKept, Zenon
  <2> QED
    BY <1>3, <2>3, <2>4, <2>5, Zenon DEF Moves
<1>8. CASE \E q \in Pipes : holders["r"][q] = {t} /\ ShutsRead(q)
  <2>1. PICK q \in Pipes : holders["r"][q] = {t} /\ ShutsRead(q)
    BY <1>8, Zenon
  <2>2. q # p
    BY <2>1, Zenon DEF Alone
  <2> QED
    BY <1>3, <2>1, <2>2, Zenon DEF ShutsRead, Only
<1>9. CASE \E q \in Pipes : ShutsWrite(q)
  <2>1. PICK q \in Pipes : ShutsWrite(q)
    BY <1>9, Zenon
  <2>2. CASE q = p
    BY <1>1, <2>1, <2>2, LeadsSame, Zenon DEF ShutsWrite
  <2> QED
    BY <1>3, <2>1, <2>2, Zenon DEF ShutsWrite, Only
<1>10. CASE \E q \in Pipes : \E n \in Nat \ {0} : Sizes(q, n)
  <2>1. PICK q \in Pipes : \E n \in Nat \ {0} : Sizes(q, n)
    BY <1>10, Zenon
  <2>2. CASE q = p
    BY <1>1, <2>1, <2>2, LeadsSame, Zenon DEF Sizes
  <2> QED
    BY <1>3, <2>1, <2>2, Zenon DEF Sizes, Only
<1> QED
  BY <1>4, <1>5, <1>6, <1>7, <1>8, <1>9, <1>10, Zenon DEF Deed

-----------------------------------------------------------------------------
(* The rings implement the abstract FIFO *)

Contents(rs)  == [p \in Pipes |-> Content(rs[p])]
Caps(rs)      == [p \in Pipes |-> rs[p].capacity]
ReadEnds(rs)  == [p \in Pipes |-> rs[p].read_end_open]
WriteEnds(rs) == [p \in Pipes |-> rs[p].write_end_open]

\* A step that leaves the ends.
LEMMA KeepsEnds ==
  ASSUME \A p \in Pipes : SameEnds(ring'[p], ring[p])
  PROVE  ReadEnds(ring') = ReadEnds(ring) /\ WriteEnds(ring') = WriteEnds(ring)
BY Zenon DEF SameEnds, ReadEnds, WriteEnds

\* And the capacities.
LEMMA KeepsCaps ==
  ASSUME \A p \in Pipes : ring'[p].capacity = ring[p].capacity
  PROVE  Caps(ring') = Caps(ring)
BY Zenon DEF Caps

\* Nothing happens.
LEMMA FifoStutter ==
  ASSUME Unseen
  PROVE  UNCHANGED Fifo!vars
<1>1. Contents(ring') = Contents(ring)
  BY Zenon DEF Unseen, Contents
<1>2. Caps(ring') = Caps(ring) /\ ReadEnds(ring') = ReadEnds(ring) /\ WriteEnds(ring') = WriteEnds(ring)
  BY KeepsEnds, KeepsCaps, Zenon DEF Unseen
<1>3. taken' = taken
  BY Zenon DEF Unseen
<1> QED
  BY <1>1, <1>2, <1>3, Zenon DEF Fifo!vars, Contents, Caps, ReadEnds, WriteEnds

\* The content of one pipe, and the numbers it goes by.
LEMMA PipeLevel ==
  ASSUME Inv, NEW p \in Pipes
  PROVE  /\ Contents(ring)[p] = Content(ring[p]) /\ Content(ring[p]) \in Seq(Bytes)
         /\ Len(Content(ring[p])) = AvailableRead(ring[p]) /\ AvailableRead(ring[p]) \in Nat
         /\ ring[p].capacity \in Nat
         /\ AvailableWrite(ring[p]) = ring[p].capacity - AvailableRead(ring[p])
<1>1. RingOK(ring[p])
  BY Zenon DEF Inv, IsRings
<1>2. Contents(ring)[p] = Content(ring[p])
  BY Zenon DEF Contents
<1> DEFINE r == ring[p]
<1> HIDE DEF r
<1>3. /\ Content(r) \in Seq(Bytes) /\ Len(Content(r)) = AvailableRead(r) /\ AvailableRead(r) \in Nat
      /\ r.capacity \in Nat /\ AvailableWrite(r) = r.capacity - AvailableRead(r)
  BY <1>1, RingLevel DEF r
<1> QED
  BY <1>2, <1>3, Zenon DEF r

\* read, and splice to a file.
LEMMA FifoTake ==
  ASSUME Inv, NEW p \in Pipes, NEW n \in Nat \ {0}, Takes(p, n)
  PROVE  Fifo!Take(p)
<1> DEFINE c == Content(ring[p])
<1>1. /\ n <= AvailableRead(ring[p]) /\ Only(p) /\ SameEnds(ring'[p], ring[p])
      /\ ring'[p].capacity = ring[p].capacity
      /\ Content(ring'[p]) = SubSeq(c, n + 1, AvailableRead(ring[p]))
      /\ taken' = [taken EXCEPT ![p] = @ \o SubSeq(c, 1, n)]
  BY Zenon DEF Takes, Drawn
<1>2. Contents(ring)[p] = c /\ Len(c) = AvailableRead(ring[p])
  BY PipeLevel, Zenon
<1>3. n \in 1..Len(c)
  <2>1. PICK l \in Nat : l = AvailableRead(ring[p])
    BY PipeLevel, Zenon
  <2>2. n \in 1..l
    BY ONLY <1>1, <2>1
  <2> QED
    BY <1>2, <2>1, <2>2, Zenon
<1>4. Contents(ring') = [Contents(ring) EXCEPT ![p] = SubSeq(c, n + 1, Len(c))]
  BY <1>1, <1>2, Zenon DEF Contents, Only
<1>5. \A q \in Pipes : SameEnds(ring'[q], ring[q]) /\ ring'[q].capacity = ring[q].capacity
  BY <1>1, Zenon DEF Only, SameEnds
<1>6. Caps(ring') = Caps(ring) /\ ReadEnds(ring') = ReadEnds(ring) /\ WriteEnds(ring') = WriteEnds(ring)
  BY <1>5, KeepsEnds, KeepsCaps, Zenon
<1> HIDE DEF c
<1> QED
  BY <1>1, <1>2, <1>3, <1>4, <1>6, Zenon
     DEF Fifo!Take, Fifo!Rest, Fifo!First, Contents, Caps, ReadEnds, WriteEnds

\* write, and splice from a file.
LEMMA FifoPut ==
  ASSUME Inv, Inv', NEW p \in Pipes, NEW d, Gives(p, d)
  PROVE  Fifo!Put(p)
<1> DEFINE c == Content(ring[p])
           k == Content(ring'[p])
<1>1. /\ ring[p].read_end_open /\ d \in Seq(Bytes) /\ Len(d) <= AvailableWrite(ring[p])
      /\ Only(p) /\ taken' = taken
      /\ SameEnds(ring'[p], ring[p]) /\ ring'[p].capacity = ring[p].capacity /\ k = c \o d
  BY Zenon DEF Gives, Fed
<1>2. PICK l \in Nat, z \in Nat :
        /\ l = Len(c) /\ z = ring[p].capacity /\ AvailableWrite(ring[p]) = z - l
        /\ Contents(ring)[p] = c /\ c \in Seq(Bytes)
  BY PipeLevel, Zenon
<1>3. Contents(ring')[p] = k
  BY Zenon DEF Contents
<1> HIDE DEF c, k
<1>4. PICK m \in Nat : m = Len(d) /\ m <= z - l
  BY <1>1, <1>2
<1>5. IsConcat(Bytes, k, c, d, l, m)
  BY <1>1, <1>2, <1>4, ConcatIs, Zenon
<1>6. k \in Seq(Bytes) /\ Len(k) = l + m /\ \A i \in 1..(l + m) : k[i] = IF i <= l THEN c[i] ELSE d[i - l]
  BY <1>5, Zenon DEF IsConcat
<1>7. Len(k) \in l..z
  <2>1. l + m \in l..z
    BY ONLY <1>4
  <2> QED
    BY <1>6, <2>1, Zenon
<1>8. SubSeq(k, 1, l) = c
  <2>1. l <= l + m /\ l + m \in Nat
    BY ONLY TRUE
  <2>2. /\ SubSeq(k, 1, l) \in Seq(Bytes) /\ Len(SubSeq(k, 1, l)) = l
        /\ \A i \in 1..l : SubSeq(k, 1, l)[i] = k[i]
    BY <1>6, <2>1, Prefix
  <2>3. \A i \in 1..l : k[i] = c[i]
    BY <1>6
  <2> DEFINE x == SubSeq(k, 1, l)
  <2>4. x \in Seq(Bytes) /\ c \in Seq(Bytes) /\ Len(x) = l /\ Len(c) = l /\ \A i \in 1..l : x[i] = c[i]
    BY <1>2, <2>2, <2>3, Zenon
  <2> HIDE DEF x
  <2>5. x = c
    BY <2>4, SeqEqual, Zenon
  <2> QED
    BY <2>5, Zenon DEF x
<1>9. Contents(ring') = [Contents(ring) EXCEPT ![p] = k]
  BY <1>1, Zenon DEF Contents, Only, k
<1>10. \A q \in Pipes : SameEnds(ring'[q], ring[q]) /\ ring'[q].capacity = ring[q].capacity
  BY <1>1, Zenon DEF Only, SameEnds
<1>11. Caps(ring') = Caps(ring) /\ ReadEnds(ring') = ReadEnds(ring) /\ WriteEnds(ring') = WriteEnds(ring)
  BY <1>10, KeepsEnds, KeepsCaps, Zenon
<1>12. Caps(ring)[p] = z /\ ReadEnds(ring)[p] = ring[p].read_end_open
  BY <1>2, Zenon DEF Caps, ReadEnds
<1> QED
  BY <1>1, <1>2, <1>3, <1>6, <1>7, <1>8, <1>9, <1>11, <1>12, Zenon
     DEF Fifo!Put, Contents, Caps, ReadEnds, WriteEnds

\* splice between pipes.
LEMMA FifoMove ==
  ASSUME Inv, Inv', NEW p \in Pipes, NEW q \in Pipes \ {p}, NEW n \in Nat \ {0}, Moves(p, q, n)
  PROVE  Fifo!Move(p, q)
<1> DEFINE c == Content(ring[p])
           k == Content(ring[q])
           b == SubSeq(c, 1, n)
<1>1. /\ n <= AvailableRead(ring[p]) /\ n <= AvailableWrite(ring[q]) /\ ring[q].read_end_open
      /\ \A o \in Pipes : o # p /\ o # q => ring'[o] = ring[o]
      /\ SameEnds(ring'[p], ring[p]) /\ ring'[p].capacity = ring[p].capacity
      /\ Content(ring'[p]) = SubSeq(c, n + 1, AvailableRead(ring[p]))
      /\ SameEnds(ring'[q], ring[q]) /\ ring'[q].capacity = ring[q].capacity
      /\ Content(ring'[q]) = k \o b
      /\ taken' = [taken EXCEPT ![p] = @ \o b]
  BY Zenon DEF Moves, Drawn, Fed
<1>2. /\ Contents(ring)[p] = c /\ Len(c) = AvailableRead(ring[p])
      /\ Contents(ring)[q] = k /\ Len(k) = AvailableRead(ring[q])
      /\ Caps(ring)[q] = ring[q].capacity /\ ReadEnds(ring)[q] = ring[q].read_end_open
  BY PipeLevel, Zenon DEF Caps, ReadEnds
<1>3. n \in 1..Len(c)
  <2>1. PICK l \in Nat : l = AvailableRead(ring[p])
    BY PipeLevel, Zenon
  <2>2. n \in 1..l
    BY ONLY <1>1, <2>1
  <2> QED
    BY <1>2, <2>1, <2>2, Zenon
<1>4. Len(k) + n <= ring[q].capacity
  <2>1. PICK l \in Nat, z \in Nat : /\ l = AvailableRead(ring[q]) /\ z = ring[q].capacity
                                    /\ AvailableWrite(ring[q]) = z - l
    BY PipeLevel, Zenon
  <2>2. l + n <= z
    BY ONLY <1>1, <2>1
  <2> QED
    BY <1>2, <2>1, <2>2, Zenon
<1> HIDE DEF c, k, b
<1>5. Contents(ring') = [Contents(ring) EXCEPT ![p] = SubSeq(c, n + 1, Len(c)), ![q] = k \o b]
  BY <1>1, <1>2, Zenon DEF Contents
<1>6. \A o \in Pipes : SameEnds(ring'[o], ring[o]) /\ ring'[o].capacity = ring[o].capacity
  BY <1>1, Zenon DEF SameEnds
<1>7. Caps(ring') = Caps(ring) /\ ReadEnds(ring') = ReadEnds(ring) /\ WriteEnds(ring') = WriteEnds(ring)
  BY <1>6, KeepsEnds, KeepsCaps, Zenon
<1>8. [Contents(ring) EXCEPT ![p] = SubSeq(c, n + 1, Len(c)), ![q] = k \o b]
        = [Contents(ring) EXCEPT ![p] = SubSeq(c, n + 1, Len(c)), ![q] = @ \o b]
  BY <1>2, Zenon DEF Contents
<1> QED
  BY <1>1, <1>2, <1>3, <1>4, <1>5, <1>7, <1>8, Zenon
     DEF Fifo!Move, Fifo!Rest, Fifo!First, Contents, Caps, ReadEnds, WriteEnds, b

\* The last close of the read end.
LEMMA FifoCloseRead ==
  ASSUME NEW p \in Pipes, ShutsRead(p)
  PROVE  Fifo!CloseRead(p)
<1>1. ReadEnds(ring') = [ReadEnds(ring) EXCEPT ![p] = FALSE]
  BY Zenon DEF ShutsRead, Only, ReadEnds
<1>2. Contents(ring') = [Contents(ring) EXCEPT ![p] = <<>>]
  BY Zenon DEF ShutsRead, Only, Contents
<1>3. Caps(ring') = Caps(ring) /\ WriteEnds(ring') = WriteEnds(ring) /\ taken' = taken
  BY Zenon DEF ShutsRead, Only, Caps, WriteEnds
<1> QED
  BY <1>1, <1>2, <1>3, Zenon DEF Fifo!CloseRead, Contents, Caps, ReadEnds, WriteEnds

\* The last close of the write end.
LEMMA FifoCloseWrite ==
  ASSUME NEW p \in Pipes, ShutsWrite(p)
  PROVE  Fifo!CloseWrite(p)
<1>1. WriteEnds(ring') = [WriteEnds(ring) EXCEPT ![p] = FALSE]
  BY Zenon DEF ShutsWrite, Only, WriteEnds
<1>2. Contents(ring') = Contents(ring)
  BY Zenon DEF ShutsWrite, Only, Contents
<1>3. Caps(ring') = Caps(ring) /\ ReadEnds(ring') = ReadEnds(ring) /\ taken' = taken
  BY Zenon DEF ShutsWrite, Only, Caps, ReadEnds
<1> QED
  BY <1>1, <1>2, <1>3, Zenon DEF Fifo!CloseWrite, Contents, Caps, ReadEnds, WriteEnds

\* F_SETPIPE_SZ.
LEMMA FifoResize ==
  ASSUME Inv, NEW p \in Pipes, NEW n \in Nat \ {0}, Sizes(p, n)
  PROVE  Fifo!Resize(p)
<1>1. Caps(ring') = [Caps(ring) EXCEPT ![p] = n] /\ Caps(ring')[p] = n
  BY Zenon DEF Sizes, Only, Caps
<1>2. Contents(ring') = Contents(ring)
  BY Zenon DEF Sizes, Only, Contents
<1>3. ReadEnds(ring') = ReadEnds(ring) /\ WriteEnds(ring') = WriteEnds(ring) /\ taken' = taken
  BY Zenon DEF Sizes, Only, SameEnds, ReadEnds, WriteEnds
<1>4. n >= Len(Contents(ring)[p])
  BY PipeLevel, Zenon DEF Sizes
<1> QED
  BY <1>1, <1>2, <1>3, <1>4, Zenon DEF Fifo!Resize, Contents, Caps, ReadEnds, WriteEnds

\* Whatever a step does to the pipes, the FIFO does or does not see.
LEMMA DeedFifo ==
  ASSUME Inv, Inv', NEW t \in Tasks, Deed(t)
  PROVE  Fifo!Next \/ UNCHANGED Fifo!vars
<1>1. CASE Unseen
  BY <1>1, FifoStutter, Zenon
<1>2. CASE \E p \in Pipes : Consumes(Call(t), p) /\ \E n \in Nat \ {0} : Takes(p, n)
  <2>1. \E p \in Pipes : Fifo!Take(p)
    BY <1>2, FifoTake, Zenon
  <2> QED
    BY <2>1, Zenon DEF Fifo!Next
<1>3. CASE \E p \in Pipes : \E d : Gives(p, d)
  <2>1. \E p \in Pipes : Fifo!Put(p)
    BY <1>3, FifoPut, Zenon
  <2> QED
    BY <2>1, Zenon DEF Fifo!Next
<1>4. CASE \E p \in Pipes : Consumes(Call(t), p) /\ \E q \in Pipes \ {p} : \E n \in Nat \ {0} : Moves(p, q, n)
  <2>1. \E p \in Pipes : \E q \in Pipes \ {p} : Fifo!Move(p, q)
    BY <1>4, FifoMove, Zenon
  <2> QED
    BY <2>1, Zenon DEF Fifo!Next
<1>5. CASE \E p \in Pipes : holders["r"][p] = {t} /\ ShutsRead(p)
  <2>1. \E p \in Pipes : Fifo!CloseRead(p)
    BY <1>5, FifoCloseRead, Zenon
  <2> QED
    BY <2>1, Zenon DEF Fifo!Next
<1>6. CASE \E p \in Pipes : ShutsWrite(p)
  <2>1. \E p \in Pipes : Fifo!CloseWrite(p)
    BY <1>6, FifoCloseWrite, Zenon
  <2> QED
    BY <2>1, Zenon DEF Fifo!Next
<1>7. CASE \E p \in Pipes : \E n \in Nat \ {0} : Sizes(p, n)
  <2>1. \E p \in Pipes : Fifo!Resize(p)
    BY <1>7, FifoResize, Zenon
  <2> QED
    BY <2>1, Zenon DEF Fifo!Next
<1> QED
  BY <1>1, <1>2, <1>3, <1>4, <1>5, <1>6, <1>7, Zenon DEF Deed

\* Every pipe begins empty and open.
LEMMA FifoInit ==
  ASSUME Init
  PROVE  Fifo!Init
<1>1. ring = [p \in Pipes |-> NewRing] /\ taken = [p \in Pipes |-> <<>>]
  BY Zenon DEF Init
<1>2. \A p \in Pipes : ring[p] = NewRing
  BY <1>1, Zenon
<1>3. NewRing.capacity \in Nat \ {0} /\ NewRing.read_end_open = TRUE /\ NewRing.write_end_open = TRUE
  BY PipeAssumption DEF NewRing
<1>4. Contents(ring) = [p \in Pipes |-> <<>>]
  BY <1>2, NewRingOK, Zenon DEF Contents
<1>5. Caps(ring) \in [Pipes -> Nat \ {0}]
  BY <1>2, <1>3, Zenon DEF Caps
<1>6. ReadEnds(ring) = [p \in Pipes |-> TRUE] /\ WriteEnds(ring) = [p \in Pipes |-> TRUE]
  BY <1>2, <1>3, Zenon DEF ReadEnds, WriteEnds
<1> QED
  BY <1>1, <1>4, <1>5, <1>6, Zenon DEF Fifo!Init, Contents, Caps, ReadEnds, WriteEnds

\* The other tasks stay where they are.
Others(t) == \A u \in Tasks \ {t} : prog'[u] = prog[u] /\ at'[u] = at[u] /\ aux'[u] = aux[u]

\* A call goes on or returns, and splice to a file is still alone with its pipe.
Moved(t) ==
  /\ at[t] # "done" /\ Others(t)
  /\ holders' \in [{"r", "w"} -> [Pipes -> SUBSET Tasks]]
  /\ \A u \in Tasks : DrainOk(prog', holders'["r"], u)
  /\ at'[t] = "discard" => Leads(ring'[Head(prog'[t]).pipe], aux'[t].peeked)

\* Only sleep and wakeup change.
Calm == prog' = prog /\ at' = at /\ aux' = aux /\ holders' = holders /\ Unseen

\* Steps that go on.
LEMMA OnwardMoves ==
  ASSUME Inv, DrainInv, NEW t \in Tasks, Onward(t), at[t] # "done", \E w : OwnStep(t, w)
  PROVE  Moved(t)
<1>1. Advances(t) /\ at'[t] # "discard" /\ holders' = holders
  BY OnwardAt, Zenon
<1>2. Others(t)
  BY Zenon DEF OwnStep, Local, Others
<1>3. /\ holders' \in [{"r", "w"} -> [Pipes -> SUBSET Tasks]]
      /\ \A u \in Tasks : DrainOk(prog', holders'["r"], u)
  BY <1>1, DrainOkAdvance, Zenon
<1> QED
  BY <1>1, <1>2, <1>3, Zenon DEF Moved

\* The call of a task in a label of splice to a file.
LEMMA DrainCall ==
  ASSUME Inv, NEW t \in Tasks, at[t] \in {"peek", "discard"}
  PROVE  /\ prog[t] # <<>> /\ Call(t).pipe \in Pipes /\ Consumes(Call(t), Call(t).pipe)
         /\ Call(t).op = "drain" /\ at[t] # "done" /\ aux[t].peeked \in Seq(Bytes)
<1> DEFINE c == Call(t)
           x == aux[t]
           a == at[t]
<1>1. TaskOK(prog[t], a, x)
  BY Zenon DEF Inv, Placed
<1>2. a # "done" /\ a \in {"peek", "discard"}
  OBVIOUS
<1> HIDE DEF a
<1>3. prog[t] # <<>> /\ CallOK(c, a, x) /\ x \in Aux /\ prog[t] \in Seq(Calls)
  BY <1>1, <1>2, Zenon DEF TaskOK, Call
<1>4. c \in Calls
  BY <1>3, HeadTailProperties DEF Call
<1> HIDE DEF c, x
<1>5. c.op = "drain"
  BY <1>2, <1>3 DEF CallOK, Polling
<1>6. c.pipe \in Pipes /\ Consumes(c, c.pipe)
  BY <1>4, <1>5 DEF Calls, Consumes
<1>7. x.peeked \in Seq(Bytes)
  BY <1>3 DEF Aux
<1> QED
  BY <1>2, <1>3, <1>5, <1>6, <1>7, Zenon DEF c, x, a

\* What is peeked is what is first.
LEMMA PeekMoves ==
  ASSUME Inv, DrainInv, NEW t \in Tasks, SplicePeek(t)
  PROVE  Moved(t)
<1>1. (\E w : OwnStep(t, w)) /\ ring' = ring
  BY SplicePeekStep, Zenon
<1>2. PICK m \in Nat : Peeks(t, m)
  BY SplicePeekStep, Zenon
<1>3. holders' = holders /\ at[t] = "peek"
  BY Zenon DEF SplicePeek, RingStep, Runs
<1>4. CASE Return(t)
  <2>1. Onward(t) /\ at[t] # "done"
    BY <1>3, <1>4 DEF Onward
  <2> QED
    BY <1>1, <2>1, OnwardMoves, Zenon
<1>5. CASE /\ m # 0 /\ m <= AvailableRead(ring[Call(t).pipe])
           /\ aux' = [aux EXCEPT ![t] = WithPeeked(aux[t], SubSeq(Content(ring[Call(t).pipe]), 1, m))]
           /\ at' = [at EXCEPT ![t] = "discard"] /\ prog' = prog /\ intr' = intr
  <2> DEFINE r == ring[Call(t).pipe]
             b == SubSeq(Content(r), 1, m)
  <2>1. at[t] \in {"peek", "discard"}
    BY <1>3
  <2>2. Call(t).pipe \in Pipes /\ at[t] # "done"
    BY <2>1, DrainCall, Zenon
  <2>3. RingOK(r) /\ aux[t] \in Aux
    BY <2>2, Zenon DEF Inv, IsRings, Placed, TaskOK
  <2>4. Len(b) = m
    <3>1. PICK l \in Nat : Len(Content(r)) = l /\ m <= l /\ Content(r) \in Seq(Bytes)
      BY <1>5, <2>3, RingLevel
    <3> QED
      BY <3>1, Prefix
  <2>5. Leads(r, b)
    BY <1>5, <2>4, Zenon DEF Leads
  <2>6. aux'[t] = WithPeeked(aux[t], b)
    BY <1>5, Zenon DEF Inv, Types
  <2>7. aux'[t].peeked = b
    <3> DEFINE x == aux[t]
    <3>1. x \in Aux
      BY <2>3
    <3> HIDE DEF x, b
    <3>2. WithPeeked(x, b).peeked = b
      BY <3>1 DEF WithPeeked, Aux
    <3> QED
      BY <2>6, <3>2, Zenon DEF x
  <2>8. Leads(ring'[Head(prog'[t]).pipe], aux'[t].peeked)
    BY <1>1, <1>5, <2>5, <2>7, Zenon DEF Call
  <2>9. Advances(t)
    BY <1>5, Zenon DEF Advances
  <2>10. /\ holders' \in [{"r", "w"} -> [Pipes -> SUBSET Tasks]]
         /\ \A u \in Tasks : DrainOk(prog', holders'["r"], u)
    BY <1>3, <2>2, <2>9, DrainOkAdvance, Zenon
  <2>11. Others(t)
    BY <1>1, Zenon DEF OwnStep, Local, Others
  <2> QED
    BY <2>2, <2>8, <2>10, <2>11, Zenon DEF Moved
<1> QED
  BY <1>2, <1>4, <1>5, Zenon DEF Peeks

\* close.
LEMMA CloseMoves ==
  ASSUME Inv, DrainInv, NEW t \in Tasks, Close(t)
  PROVE  Moved(t)
<1>1. Others(t)
  BY CloseStep, Zenon DEF OwnStep, Local, Others
<1> QED
  BY <1>1, DrainOkClose, Zenon DEF Moved

\* Sleeping and waking.
LEMMA SleepMoves ==
  ASSUME Inv, DrainInv, NEW t \in Tasks, Block(t) \/ Awake(t) \/ WakeNext(t) \/ Signal(t)
  PROVE  Unseen /\ (Calm \/ Moved(t))
<1>1. Unseen
  BY BlockStep, AwakeStep, WakeNextStep, SignalStep, Zenon
<1>2. CASE Block(t) \/ WakeNext(t) \/ Signal(t)
  BY <1>1, <1>2, Zenon DEF Block, WakeNext, Signal, Calm
<1>3. CASE Awake(t)
  <2>1. holders' = holders /\ (Return(t) \/ Stay(t)) /\ st[t] = "awake"
    BY <1>3, Zenon DEF Awake
  <2>2. CASE Stay(t)
    BY <1>1, <2>1, <2>2, Zenon DEF Stay, Calm
  <2>3. CASE Return(t)
    <3>1. at[t] \in Sleeping
      <4>1. st[t] # "run"
        BY <2>1
      <4> QED
        BY <4>1, Zenon DEF Inv, Placed
    <3>2. at[t] # "done"
      BY <3>1 DEF Sleeping, Reading, Writing
    <3>3. Onward(t)
      BY <2>1, <2>3, Zenon DEF Onward
    <3>4. Advances(t) /\ at'[t] # "discard"
      BY <3>2, <3>3, OnwardAt, Zenon
    <3>5. Others(t)
      BY <2>3, <3>2, ReturnLocal, Zenon DEF Local, Others
    <3>6. /\ holders' \in [{"r", "w"} -> [Pipes -> SUBSET Tasks]]
          /\ \A u \in Tasks : DrainOk(prog', holders'["r"], u)
      BY <2>1, <3>2, <3>4, DrainOkAdvance, Zenon
    <3> QED
      BY <1>1, <3>2, <3>4, <3>5, <3>6, Zenon DEF Moved
  <2> QED
    BY <2>1, <2>2, <2>3, Zenon
<1> QED
  BY <1>2, <1>3, Zenon

\* What is discarded is what was peeked.
LEMMA DiscardDeed ==
  ASSUME Inv, DrainInv, NEW t \in Tasks, SpliceDiscard(t)
  PROVE  Deed(t)
<1>1. at[t] = "discard"
  BY Zenon DEF SpliceDiscard, Runs
<1>2. PeekedFirst(t)
  BY <1>1, Zenon DEF DrainInv, PeekedFirst, Leads, Call
<1>3. \E n \in Nat \ {0} : Takes(Call(t).pipe, n)
  BY <1>2, SpliceDiscardStep, Zenon
<1>4. at[t] \in {"peek", "discard"}
  BY <1>1
<1>5. Call(t).pipe \in Pipes /\ Consumes(Call(t), Call(t).pipe)
  BY <1>4, DrainCall, Zenon
<1> QED
  BY <1>3, <1>5, Zenon DEF Deed

\* Every step does one thing to the pipes.
LEMMA StepDeed ==
  ASSUME Inv, DrainInv, NEW t \in Tasks, Step(t) \/ Signal(t)
  PROVE  Deed(t) /\ (Moved(t) \/ Calm)
<1>1. CASE ReadData(t) \/ ReadEof(t) \/ ReadAgain(t) \/ RegisterReader(t)
  <2>1. (\E w : OwnStep(t, w))
    BY <1>1, ReadDataStep, ReadEofStep, ReadAgainStep, RegisterReaderStep, Zenon
  <2>2. Deed(t)
    BY <1>1, ReadDataStep, ReadEofStep, ReadAgainStep, RegisterReaderStep, Zenon DEF Deed
  <2> QED
    BY <1>1, <2>1, <2>2, OnwardRead, OnwardMoves, Zenon
<1>2. CASE WritePipe(t) \/ WriteAgain(t) \/ RegisterWriter(t) \/ WriteData(t)
  <2>1. (\E w : OwnStep(t, w))
    BY <1>2, WritePipeStep, WriteAgainStep, RegisterWriterStep, WriteDataStep, Zenon
  <2>2. Deed(t)
    BY <1>2, WritePipeStep, WriteAgainStep, RegisterWriterStep, WriteDataStep, Zenon DEF Deed
  <2> QED
    BY <1>2, <2>1, <2>2, OnwardWrite, OnwardMoves, Zenon
<1>3. CASE SpliceReadable(t) \/ SpliceWritable(t) \/ Transfer(t) \/ SpliceStore(t) \/ SpliceDiscard(t)
  <2>1. (\E w : OwnStep(t, w))
    BY <1>3, SpliceReadableStep, SpliceWritableStep, TransferStep, SpliceStoreStep, SpliceDiscardStep, Zenon
  <2>2. Deed(t)
    <3>1. CASE SpliceReadable(t) \/ SpliceWritable(t)
      BY <3>1, SpliceReadableStep, SpliceWritableStep, Zenon DEF Deed
    <3>2. CASE Transfer(t)
      BY <3>2, TransferStep, Zenon DEF Deed
    <3>3. CASE SpliceStore(t)
      BY <3>3, SpliceStoreStep, Zenon DEF Deed
    <3> QED
      BY <1>3, <3>1, <3>2, <3>3, DiscardDeed, Zenon
  <2> QED
    BY <1>3, <2>1, <2>2, OnwardSplice, OnwardMoves, Zenon
<1>4. CASE PollScan(t) \/ PollRegister(t) \/ PollRescan(t) \/ PollClear(t) \/ Resize(t)
  <2>1. (\E w : OwnStep(t, w))
    BY <1>4, PollScanStep, PollRegisterStep, PollRescanStep, PollClearStep, ResizeStep, Zenon
  <2>2. Deed(t)
    BY <1>4, PollScanStep, PollRegisterStep, PollRescanStep, PollClearStep, ResizeStep, Zenon DEF Deed
  <2> QED
    BY <1>4, <2>1, <2>2, OnwardPoll, OnwardMoves, Zenon
<1>5. CASE SplicePeek(t)
  BY <1>5, SplicePeekStep, PeekMoves, Zenon DEF Deed
<1>6. CASE Close(t)
  BY <1>6, CloseStep, CloseMoves, Zenon DEF Deed
<1>7. CASE Block(t) \/ Awake(t) \/ WakeNext(t) \/ Signal(t)
  BY <1>7, SleepMoves, Zenon DEF Deed
<1> QED
  BY <1>1, <1>2, <1>3, <1>4, <1>5, <1>6, <1>7, Zenon DEF Step

\* It leaves splice to a file alone with its pipe.
LEMMA DrainNext ==
  ASSUME Inv, Inv', DrainInv, NEW t \in Tasks, Deed(t), Moved(t) \/ Calm
  PROVE  DrainInv'
<1>1. CASE Calm
  <2>1. \A p \in Pipes : RingOK(ring[p]) /\ RingOK(ring'[p]) /\ Content(ring'[p]) = Content(ring[p])
    BY <1>1, Zenon DEF Inv, IsRings, Calm, Unseen
  <2>2. ASSUME NEW u \in Tasks, at'[u] = "discard"
        PROVE  Leads(ring'[Head(prog'[u]).pipe], aux'[u].peeked)
    <3>1. at[u] = "discard"
      BY <1>1, <2>2, Zenon DEF Calm
    <3>2. at[u] \in {"peek", "discard"}
      BY <3>1
    <3>3. Call(u).pipe \in Pipes
      BY <3>2, DrainCall, Zenon
    <3>4. Leads(ring[Call(u).pipe], aux[u].peeked)
      BY <3>1, Zenon DEF DrainInv, Call
    <3>5. Leads(ring'[Call(u).pipe], aux[u].peeked)
      BY <2>1, <3>3, <3>4, LeadsSame, Zenon
    <3> QED
      BY <1>1, <3>5, Zenon DEF Calm, Call
  <2> QED
    BY <1>1, <2>2, Zenon DEF DrainInv, Calm
<1>2. CASE Moved(t)
  <2>1. prog[t] # <<>>
    BY <1>2, Zenon DEF Inv, Placed, TaskOK, Moved
  <2>2. ASSUME NEW u \in Tasks, at'[u] = "discard"
        PROVE  Leads(ring'[Head(prog'[u]).pipe], aux'[u].peeked)
    <3>1. CASE u = t
      BY <1>2, <2>2, <3>1, Zenon DEF Moved
    <3>2. CASE u # t
      <4>1. at[u] = "discard" /\ prog'[u] = prog[u] /\ aux'[u] = aux[u]
        BY <1>2, <2>2, <3>2, Zenon DEF Moved, Others
      <4>2. at[u] \in {"peek", "discard"}
        BY <4>1
      <4> DEFINE p == Call(u).pipe
      <4>3. p \in Pipes /\ Call(u).op = "drain" /\ prog[u] # <<>> /\ aux[u].peeked \in Seq(Bytes)
        BY <4>2, DrainCall, Zenon
      <4>4. Leads(ring[p], aux[u].peeked)
        BY <4>1, Zenon DEF DrainInv, Call
      <4>5. 1 \in DOMAIN prog[u] /\ Call(u) = prog[u][1]
        <5> DEFINE s == prog[u]
        <5>1. s \in Seq(Calls) /\ s # <<>>
          BY <4>3, Zenon DEF Inv, Placed, TaskOK
        <5> HIDE DEF s
        <5>2. 1 \in DOMAIN s /\ Head(s) = s[1]
          BY <5>1, EmptySeq
        <5> QED
          BY <5>2, Zenon DEF s, Call
      <4>6. Alone(prog, holders["r"], u, p)
        BY <4>3, <4>5, Zenon DEF DrainInv, DrainOk
      <4> HIDE DEF p
      <4>7. Leads(ring'[p], aux[u].peeked)
        BY <2>1, <3>2, <4>3, <4>4, <4>6, DeedLeads, Zenon
      <4> QED
        BY <4>1, <4>7, Zenon DEF p, Call
    <3> QED
      BY <3>1, <3>2, Zenon
  <2> QED
    BY <1>2, <2>2, Zenon DEF DrainInv, Moved
<1> QED
  BY <1>1, <1>2, Zenon

\* The programs say so at the beginning.
LEMMA DrainInit ==
  ASSUME Init, \A prg \in Programs : SoleDrain(prg)
  PROVE  DrainInv
<1>1. prog \in Programs /\ at = [t \in Tasks |-> Entry(prog[t])]
      /\ holders = [r |-> Ends("r", prog), w |-> Ends("w", prog)]
  BY Zenon DEF Init
<1>2. SoleDrain(prog) /\ prog \in [Tasks -> Seq(Calls)]
  BY <1>1, PipeAssumption, Zenon
<1>3. Ends("r", prog) \in [Pipes -> SUBSET Tasks] /\ Ends("w", prog) \in [Pipes -> SUBSET Tasks]
  BY Zenon DEF Ends
<1> DEFINE a == Ends("r", prog)
           b == Ends("w", prog)
<1>4. holders["r"] = a /\ holders \in [{"r", "w"} -> [Pipes -> SUBSET Tasks]]
  <2>1. holders = [r |-> a, w |-> b] /\ a \in [Pipes -> SUBSET Tasks] /\ b \in [Pipes -> SUBSET Tasks]
    BY <1>1, <1>3, Zenon
  <2> HIDE DEF a, b
  <2> QED
    BY <2>1
<1>5. ASSUME NEW t \in Tasks, NEW i \in DOMAIN prog[t], prog[t][i].op = "drain"
      PROVE  Alone(prog, a, t, prog[t][i].pipe) /\ Kept(prog[t], i, prog[t][i].pipe)
  <2> DEFINE p == prog[t][i].pipe
  <2>1. /\ \E j \in DOMAIN prog[t] : prog[t][j] = ReadClose(p)
        /\ \A j \in 1..i : prog[t][j] # ReadClose(p)
        /\ \A u \in Tasks \ {t} : \A j \in DOMAIN prog[u] : ~Consumes(prog[u][j], p)
    BY <1>2, <1>5, Zenon DEF SoleDrain
  <2>2. p \in Pipes
    <3> DEFINE c == prog[t][i]
               s == prog[t]
    <3>1. s \in Seq(Calls) /\ i \in DOMAIN s
      BY <1>2, Zenon
    <3>2. c = s[i] /\ c.op = "drain"
      BY <1>5, Zenon
    <3> HIDE DEF s, c
    <3>3. c \in Calls
      BY <3>1, <3>2
    <3>4. c.pipe \in Pipes
      BY <3>2, <3>3 DEF Calls
    <3> QED
      BY <3>4, Zenon DEF c
  <2> HIDE DEF p
  <2>3. t \in a[p]
    BY <2>1, <2>2, Zenon DEF Ends, ReadClose
  <2> QED
    BY <2>1, <2>3, Zenon DEF Alone, Kept, p
<1>6. \A t \in Tasks : at[t] # "discard"
  BY <1>1, <1>2, EntryNotDiscard, Zenon
<1> HIDE DEF a
<1> QED
  BY <1>4, <1>5, <1>6, Zenon DEF DrainInv, DrainOk

\* The ring of pages of fs/pipe.rs is a bounded FIFO: every section of read, write,
\* splice, close and F_SETPIPE_SZ is a step of PipeFifo or changes nothing it can
\* see, as long as splice to a file is the only consumer of its pipe.
THEOREM RingIsFifo ==
  ASSUME \A prg \in Programs : SoleDrain(prg)
  PROVE  Spec => ImplementsFifo
<1>1. Init => Inv /\ DrainInv /\ Fifo!Init
  BY InitInv, DrainInit, FifoInit, Zenon
<1>2. Inv /\ DrainInv /\ [Next]_vars => Inv' /\ DrainInv' /\ [Fifo!Next]_(Fifo!vars)
  <2> SUFFICES ASSUME Inv, DrainInv, [Next]_vars
               PROVE  Inv' /\ DrainInv' /\ (Fifo!Next \/ UNCHANGED Fifo!vars)
    BY Zenon
  <2>1. CASE Next
    <3>1. Inv'
      BY <2>1, NextInv, Zenon
    <3>2. PICK t \in Tasks : Step(t) \/ Signal(t)
      BY <2>1, Zenon DEF Next
    <3>3. Deed(t) /\ (Moved(t) \/ Calm)
      BY <3>2, StepDeed, Zenon
    <3> QED
      BY <3>1, <3>3, DrainNext, DeedFifo, Zenon
  <2>2. CASE UNCHANGED vars
    <3>1. Inv'
      BY <2>2, StutterInv, Zenon
    <3>2. /\ ring' = ring /\ prog' = prog /\ at' = at /\ aux' = aux /\ holders' = holders /\ taken' = taken
      BY <2>2, Zenon DEF vars, taskVars
    <3>3. DrainInv'
      BY <3>2, Zenon DEF DrainInv
    <3>4. UNCHANGED Fifo!vars
      BY <3>2, SameRings, FifoStutter, Zenon
    <3> QED
      BY <3>1, <3>3, <3>4, Zenon
  <2> QED
    BY <2>1, <2>2, Zenon
<1> QED
  BY <1>1, <1>2, PTL DEF Spec, ImplementsFifo, Fifo!Spec

=============================================================================
