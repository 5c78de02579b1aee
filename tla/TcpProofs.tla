----------------------------- MODULE TcpProofs ------------------------------
(***************************************************************************)
(* Proofs about Tcp. TypeInv, with SendingInv about the segment that a     *)
(* send call is sending, is the inductive form of TypeOK. StreamInv gives  *)
(* every sequence number its place in the stream of its sender (Pos: 0 is  *)
(* the SYN, then come the bytes, then the FIN) and says of each end which  *)
(* places it has numbered, which have left it, what it has received and    *)
(* what it still tracks, of a connection that has ended in order that it   *)
(* has received all, and of every segment ever sent that it carries the    *)
(* bytes of its places and acknowledges no more than was received.         *)
(* Segments never leave net, so StreamInv is kept only while both streams  *)
(* are shorter than half the sequence space (ShortStreams), and until a    *)
(* segment whose send failed gets into the network (escaped).              *)
(***************************************************************************)
EXTENDS Tcp, SequenceTheorems, FiniteSetTheorems, WellFoundedInduction, TLAPS

-----------------------------------------------------------------------------
(* Types *)

Flags   == SUBSET {"SYN", "ACK", "FIN", "RST"}
Errors  == {"none", "ETIMEDOUT", "ECONNRESET", "ECONNREFUSED"}
Tracked == [seg : Segments, retries : 0..TCP_MAX_RETRIES, needs : BOOLEAN]
Pieces  == [seq : Seqs, data : Seq(Nat)]

Sockets ==
  [state : States, send_seq : Seqs, recv_seq : Seqs, receive_queue : Seq(Nat),
   out_of_order_queue : Seq(Pieces), retransmit_queue : Seq(Tracked), so_error : Errors,
   pending_fin_seq : Seqs \cup {NoFin}, registered : BOOLEAN]

\* States in which the own FIN has not been sent.
Unfinished == {"Open", "SynSent", "SynReceived", "Established", "CloseWait"}

\* The queues of socket s, with the segment u under way and n bytes sent.
Windows(s, u, n) ==
  /\ Len(s.retransmit_queue) <= TCP_SEND_WINDOW_SEGMENTS + 1
  /\ s.state \in Unfinished => Len(s.retransmit_queue) <= TCP_SEND_WINDOW_SEGMENTS
  /\ s.state = "Open" => s.retransmit_queue = <<>>
  /\ Len(s.out_of_order_queue) <= TCP_MAX_OUT_OF_ORDER_SEGMENTS
  /\ Len(u.data) <= n

TypeInv ==
  /\ sock \in [Ends -> Sockets] /\ listening \in BOOLEAN /\ net \subseteq Segments
  /\ mss \in Nat \ {0} /\ failures \in Nat /\ timeouts \in Nat
  /\ prog \in [Ends -> Seq(Calls)]
  /\ left \in [Ends -> Nat] /\ unsent \in [Ends -> Segments]
  /\ sent \in [Ends -> Nat] /\ got \in [Ends -> Seq(Nat)]
  /\ \A e \in Ends : Windows(sock[e], unsent[e], sent[e]) /\ CloseIsLast(prog[e])

\* The segment a send call is sending: as long as it has not left, it is the one
\* under way.
SendingInv ==
  /\ sending \in [Ends -> Segments] /\ escaped \in BOOLEAN /\ aborted \subseteq Ends
  /\ \A e \in Ends : unsent[e] \in {sending[e], NoSegment} /\ Len(sending[e].data) <= sent[e]

-----------------------------------------------------------------------------
(* The streams *)

\* The place of a sequence number in the stream of e: 0 is the SYN, then come the
\* bytes, then the FIN.
Pos(e, q) == (q - Iss[e]) % SeqSpace

-----------------------------------------------------------------------------
(* Ends, and arithmetic modulo the sequence space *)

\* The two ends are each other's peer.
LEMMA PeerFacts ==
  ASSUME NEW e \in Ends
  PROVE  /\ Peer(e) \in Ends /\ Peer(e) # e /\ Peer(Peer(e)) = e
         /\ \A x \in Ends : x = e \/ x = Peer(e)
<1>1. Peer(Client) = Server /\ Peer(Server) = Client
  <2>1. \A x \in Ends : x # Client <=> x = Server
    BY TcpAssumption, Zenon DEF Ends
  <2>2. \A x \in Ends : x # Server <=> x = Client
    BY TcpAssumption, Zenon DEF Ends
  <2>3. Client \in Ends /\ Server \in Ends /\ Client # Server
    BY TcpAssumption, Zenon DEF Ends
  <2> QED
    BY <2>1, <2>2, <2>3, Zenon DEF Peer
<1> QED
  BY <1>1, TcpAssumption, Zenon DEF Ends

Mod(a) == a % SeqSpace

\* Remainders of numbers near the sequence space.
LEMMA ModFacts ==
  ASSUME NEW a \in Int
  PROVE  /\ Mod(a) \in Seqs
         /\ 0 <= a /\ a < SeqSpace => Mod(a) = a
         /\ SeqSpace <= a /\ a < 2 * SeqSpace => Mod(a) = a - SeqSpace
         /\ 0 - SeqSpace <= a /\ a < 0 => Mod(a) = a + SeqSpace
<1>1. PICK S \in Nat : S = SeqSpace /\ S > 1
  BY TcpAssumption
<1>2. /\ a % S \in 0..(S - 1)
      /\ 0 <= a /\ a < S => a % S = a
      /\ S <= a /\ a < 2 * S => a % S = a - S
      /\ 0 - S <= a /\ a < 0 => a % S = a + S
  BY ONLY <1>1
<1> QED
  BY <1>1, <1>2, Zenon DEF Mod, Seqs

\* The constants.
LEMMA SpaceFacts == SeqSpace \in Nat /\ SeqSpace > 1 /\ \A e \in Ends : Iss[e] \in Seqs
BY TcpAssumption DEF Seqs

\* Half of the space.
LEMMA HalfFacts ==
  /\ SeqSpace \div 2 \in Nat
  /\ 2 * (SeqSpace \div 2) <= SeqSpace /\ SeqSpace <= 2 * (SeqSpace \div 2) + 1
BY SpaceFacts

\* A place in the stream.
LEMMA PosFacts ==
  ASSUME NEW e \in Ends, NEW q \in Seqs
  PROVE  /\ Pos(e, q) \in Seqs /\ Pos(e, q) \in Nat
         /\ Pos(e, q) = IF q >= Iss[e] THEN q - Iss[e] ELSE q - Iss[e] + SeqSpace
<1>1. PICK i \in Seqs : i = Iss[e]
  BY SpaceFacts
<1>2. Pos(e, q) = Mod(q - i)
  BY <1>1, Zenon DEF Pos, Mod
<1>3. q - i \in Int /\ 0 - SeqSpace <= q - i /\ q - i < SeqSpace
  BY SpaceFacts DEF Seqs
<1>4. Mod(q - i) \in Seqs /\ Mod(q - i) = IF q >= i THEN q - i ELSE q - i + SeqSpace
  <2> DEFINE d == q - i
  <2>1. /\ Mod(d) \in Seqs
        /\ 0 <= d /\ d < SeqSpace => Mod(d) = d
        /\ 0 - SeqSpace <= d /\ d < 0 => Mod(d) = d + SeqSpace
    BY <1>3, ModFacts
  <2> QED
    BY <2>1, <1>3, SpaceFacts DEF Seqs
<1> QED
  BY <1>1, <1>2, <1>4, SpaceFacts DEF Seqs

\* The sum of a sequence number and a length is a sequence number.
LEMMA AddType ==
  ASSUME NEW q \in Seqs, NEW n \in Int
  PROVE  Add(q, n) \in Seqs
<1>1. q + n \in Int
  BY SpaceFacts DEF Seqs
<1> QED
  BY <1>1, ModFacts, Zenon DEF Add, Mod

\* The place n further on.
LEMMA PosAdd ==
  ASSUME NEW e \in Ends, NEW q \in Seqs, NEW n \in Int,
         0 <= Pos(e, q) + n, Pos(e, q) + n < SeqSpace
  PROVE  Pos(e, Add(q, n)) = Pos(e, q) + n
<1>1. PICK i \in Seqs : i = Iss[e]
  BY SpaceFacts
<1>2. PICK p \in Nat : p = Pos(e, q) /\ p = IF q >= i THEN q - i ELSE q - i + SeqSpace
  BY <1>1, PosFacts
<1>3. PICK r \in Seqs : r = Add(q, n) /\ r = Mod(q + n)
  BY AddType DEF Add, Mod
<1>4. Pos(e, r) = IF r >= i THEN r - i ELSE r - i + SeqSpace
  BY <1>1, PosFacts
<1> DEFINE d == q + n
<1>5. /\ d \in Int
      /\ 0 <= d /\ d < SeqSpace => r = d
      /\ SeqSpace <= d /\ d < 2 * SeqSpace => r = d - SeqSpace
      /\ 0 - SeqSpace <= d /\ d < 0 => r = d + SeqSpace
  <2>1. d \in Int
    BY SpaceFacts DEF Seqs
  <2> QED
    BY <2>1, <1>3, ModFacts
<1>6. (IF r >= i THEN r - i ELSE r - i + SeqSpace) = p + n
  BY <1>2, <1>5, SpaceFacts DEF Seqs
<1> QED
  BY <1>2, <1>3, <1>4, <1>6, Zenon

\* A place has one sequence number.
LEMMA PosOne ==
  ASSUME NEW e \in Ends, NEW p \in Seqs, NEW q \in Seqs, Pos(e, p) = Pos(e, q)
  PROVE  p = q
<1>1. PICK i \in Seqs : i = Iss[e]
  BY SpaceFacts
<1>2. /\ Pos(e, p) = IF p >= i THEN p - i ELSE p - i + SeqSpace
      /\ Pos(e, q) = IF q >= i THEN q - i ELSE q - i + SeqSpace
  BY <1>1, PosFacts
<1>3. PICK S \in Nat : S = SeqSpace
  BY SpaceFacts
<1>4. (IF p >= i THEN p - i ELSE p - i + S) = (IF q >= i THEN q - i ELSE q - i + S)
  BY <1>2, <1>3, Zenon
<1>5. i \in 0..(S - 1) /\ p \in 0..(S - 1) /\ q \in 0..(S - 1)
  BY <1>3, Zenon DEF Seqs
<1> QED
  BY ONLY <1>4, <1>5

\* The distance of two sequence numbers.
LEMMA Distance ==
  ASSUME NEW e \in Ends, NEW p \in Seqs, NEW q \in Seqs
  PROVE  /\ Pos(e, q) <= Pos(e, p) => Mod(p - q) = Pos(e, p) - Pos(e, q)
         /\ Pos(e, q) > Pos(e, p) => Mod(p - q) = Pos(e, p) - Pos(e, q) + SeqSpace
<1>1. PICK i \in Seqs : i = Iss[e]
  BY SpaceFacts
<1>2. /\ Pos(e, p) = IF p >= i THEN p - i ELSE p - i + SeqSpace
      /\ Pos(e, q) = IF q >= i THEN q - i ELSE q - i + SeqSpace
  BY <1>1, PosFacts
<1> DEFINE d == p - q
<1>3. /\ d \in Int
      /\ 0 <= d /\ d < SeqSpace => Mod(d) = d
      /\ 0 - SeqSpace <= d /\ d < 0 => Mod(d) = d + SeqSpace
  <2>1. d \in Int
    BY SpaceFacts DEF Seqs
  <2> QED
    BY <2>1, ModFacts
<1>4. d = p - q
  OBVIOUS
<1> HIDE DEF d
<1> QED
  BY <1>2, <1>3, <1>4, SpaceFacts DEF Seqs

\* Within half of the space sequence numbers compare as their places do.
LEMMA Compare ==
  ASSUME NEW e \in Ends, NEW p \in Seqs, NEW q \in Seqs,
         Pos(e, p) < SeqSpace \div 2, Pos(e, q) < SeqSpace \div 2
  PROVE  /\ SeqBefore(p, q) <=> Pos(e, p) < Pos(e, q)
         /\ SeqAfter(p, q) <=> Pos(e, p) > Pos(e, q)
<1>1. PICK h \in Nat : h = SeqSpace \div 2 /\ 2 * h <= SeqSpace /\ SeqSpace <= 2 * h + 1
  BY HalfFacts
<1>2. PICK a \in Nat, b \in Nat : a = Pos(e, p) /\ b = Pos(e, q)
  BY PosFacts
<1>3. /\ b <= a => Mod(p - q) = a - b
      /\ b > a => Mod(p - q) = a - b + SeqSpace
      /\ a <= b => Mod(q - p) = b - a
      /\ a > b => Mod(q - p) = b - a + SeqSpace
  BY <1>2, Distance
<1>4. /\ SeqBefore(p, q) <=> Mod(p - q) >= h
      /\ SeqAfter(p, q) <=> Mod(q - p) >= h
  BY <1>1, Zenon DEF SeqBefore, SeqAfter, Mod
<1>5. a < h /\ b < h
  BY <1>1, <1>2
<1>6. /\ Mod(p - q) >= h <=> a < b
      /\ Mod(q - p) >= h <=> a > b
  BY <1>1, <1>3, <1>5, SpaceFacts
<1> QED
  BY <1>2, <1>4, <1>6, Zenon

-----------------------------------------------------------------------------
(* Naturals and sequences *)

\* The pairs of naturals in order.
Less == {p \in Nat \X Nat : p[1] < p[2]}

\* A set of naturals that is not empty has a least element.
LEMMA LeastNumber ==
  ASSUME NEW S \in SUBSET Nat, S # {}
  PROVE  \E n \in S : \A m \in S : n <= m
<1>1. OpToRel(<, Nat) = Less
  BY Zenon DEF OpToRel, Less
<1>2. IsWellFoundedOn(Less, Nat)
  BY <1>1, NatLessThanWellFounded, Zenon
<1>3. PICK n \in S : \A m \in S : ~(<<m, n>> \in Less)
  BY <1>2, WFMin
<1>4. ASSUME NEW m \in S
      PROVE  n <= m
  BY <1>3, <1>4, m < n => <<m, n>> \in Less DEF Less
<1> QED
  BY <1>4

IsConcat(S, c, a, b, l, n) ==
  /\ c \in Seq(S) /\ Len(c) = l + n
  /\ \A i \in 1..(l + n) : c[i] = IF i <= l THEN a[i] ELSE b[i - l]

\* A concatenation, by index.
LEMMA ConcatIs ==
  ASSUME NEW S, NEW a, a \in Seq(S), NEW b, b \in Seq(S), NEW l \in Nat, Len(a) = l,
         NEW n \in Nat, Len(b) = n
  PROVE  IsConcat(S, a \o b, a, b, l, n)
<1> DEFINE c == a \o b
<1>1. /\ c \in Seq(S) /\ Len(c) = l + n
      /\ \A i \in 1..(l + n) : c[i] = IF i <= l THEN a[i] ELSE b[i - l]
  BY ConcatProperties
<1> HIDE DEF c
<1>2. IsConcat(S, c, a, b, l, n)
  BY <1>1, Zenon DEF IsConcat
<1> QED
  BY <1>2, Zenon DEF c

\* A sequence without its first n elements.
LEMMA Suffix ==
  ASSUME NEW S, NEW c \in Seq(S), NEW l \in Nat, Len(c) = l, NEW n \in Nat, n <= l
  PROVE  /\ SubSeq(c, n + 1, l) \in Seq(S) /\ Len(SubSeq(c, n + 1, l)) = l - n
         /\ \A i \in 1..(l - n) : SubSeq(c, n + 1, l)[i] = c[n + i]
<1>1. \A i \in (n + 1)..l : c[i] \in S
  OBVIOUS
<1>2. /\ SubSeq(c, n + 1, l) \in Seq(S)
      /\ Len(SubSeq(c, n + 1, l)) = IF n + 1 <= l THEN l - (n + 1) + 1 ELSE 0
      /\ \A i \in 1..(l - (n + 1) + 1) : SubSeq(c, n + 1, l)[i] = c[(n + 1) + i - 1]
  BY <1>1, SubSeqProperties
<1>3. ASSUME NEW i \in 1..(l - n)
      PROVE  SubSeq(c, n + 1, l)[i] = c[n + i]
  <2>1. (n + 1) + i - 1 = n + i /\ i \in 1..(l - (n + 1) + 1)
    OBVIOUS
  <2> QED
    BY <1>2, <2>1, Zenon
<1>4. (IF n + 1 <= l THEN l - (n + 1) + 1 ELSE 0) = l - n
  BY ONLY n <= l
<1> QED
  BY <1>2, <1>3, <1>4, Zenon

\* Its first n elements.
LEMMA Prefix ==
  ASSUME NEW S, NEW c \in Seq(S), NEW l \in Nat, Len(c) = l, NEW n \in Nat, n <= l
  PROVE  /\ SubSeq(c, 1, n) \in Seq(S) /\ Len(SubSeq(c, 1, n)) = n
         /\ \A i \in 1..n : SubSeq(c, 1, n)[i] = c[i]
<1>1. \A i \in 1..n : c[i] \in S
  OBVIOUS
<1>2. /\ SubSeq(c, 1, n) \in Seq(S)
      /\ Len(SubSeq(c, 1, n)) = IF 1 <= n THEN n - 1 + 1 ELSE 0
      /\ \A i \in 1..(n - 1 + 1) : SubSeq(c, 1, n)[i] = c[1 + i - 1]
  BY <1>1, SubSeqProperties
<1>3. ASSUME NEW i \in 1..n
      PROVE  SubSeq(c, 1, n)[i] = c[i]
  <2>1. 1 + i - 1 = i /\ i \in 1..(n - 1 + 1)
    OBVIOUS
  <2> QED
    BY <1>2, <2>1, Zenon
<1>4. Len(SubSeq(c, 1, n)) = n
  <2>1. CASE n = 0
    <3>1. ~(1 <= n)
      BY <2>1
    <3> QED
      BY <1>2, <2>1, <3>1, Zenon
  <2>2. CASE 1 <= n
    <3>1. n - 1 + 1 = n
      OBVIOUS
    <3> QED
      BY <1>2, <2>2, <3>1, Zenon
  <2> QED
    BY <2>1, <2>2
<1> QED
  BY <1>2, <1>3, <1>4, Zenon

\* A longer sequence.
LEMMA AppendIs ==
  ASSUME NEW S, NEW q \in Seq(S), NEW x \in S
  PROVE  /\ Append(q, x) \in Seq(S) /\ Len(Append(q, x)) = Len(q) + 1
         /\ \A i \in 1..Len(q) : Append(q, x)[i] = q[i]
         /\ Append(q, x)[Len(q) + 1] = x
OBVIOUS

\* The turns of retain, for the first n elements of q.
Keeping(f, q, I, n) ==
  f = [k \in 0..n |-> IF k = 0 THEN <<>> ELSE IF k \in I THEN Append(f[k - 1], q[k]) ELSE f[k - 1]]

\* They can be followed to any length.
LEMMA KeepExists ==
  ASSUME NEW q, NEW I, NEW n \in Nat
  PROVE  \E f : Keeping(f, q, I, n)
<1> DEFINE Bad == {k \in Nat : ~\E f : Keeping(f, q, I, k)}
<1>1. SUFFICES ASSUME Bad # {} PROVE FALSE
  BY Zenon
<1>2. PICK k \in Bad : \A m \in Bad : k <= m
  BY <1>1, LeastNumber
<1>3. k \in Nat /\ ~\E f : Keeping(f, q, I, k)
  BY <1>2
<1>4. CASE k = 0
  <2> DEFINE g == [j \in 0..0 |-> <<>>]
  <2>1. ASSUME NEW j \in 0..0
        PROVE  j = 0
    OBVIOUS
  <2>2. g = [j \in 0..0 |-> IF j = 0 THEN <<>> ELSE IF j \in I THEN Append(g[j - 1], q[j]) ELSE g[j - 1]]
    BY <2>1, Zenon
  <2> HIDE DEF g
  <2> QED
    BY <1>3, <1>4, <2>2, Zenon DEF Keeping
<1>5. CASE k # 0
  <2>1. PICK f : Keeping(f, q, I, k - 1)
    <3>1. k - 1 \in Nat /\ ~(k <= k - 1)
      BY <1>3, <1>5
    <3> QED
      BY <3>1, <1>2
  <2> DEFINE F(h, j) == IF j = 0 THEN <<>> ELSE IF j \in I THEN Append(h[j - 1], q[j]) ELSE h[j - 1]
             g == [j \in 0..k |-> IF j = k THEN F(f, j) ELSE f[j]]
  <2>2. ASSUME NEW j \in 0..k
        PROVE  g[j] = F(g, j)
    <3>1. f = [i \in 0..(k - 1) |-> F(f, i)]
      BY <2>1, Zenon DEF Keeping
    <3>2. g[j] = F(f, j)
      <4>1. CASE j = k
        BY <4>1, Zenon
      <4>2. CASE j # k
        <5>1. j \in 0..(k - 1)
          BY <4>2
        <5>2. f[j] = F(f, j)
          BY <5>1, <3>1, Zenon
        <5> QED
          BY <5>2, <4>2, Zenon
      <4> QED
        BY <4>1, <4>2
    <3>3. CASE j = 0
      BY <3>2, <3>3, Zenon
    <3>4. CASE j # 0
      <4>1. j - 1 \in 0..k /\ j - 1 # k
        BY <3>4, <1>3
      <4>2. g[j - 1] = f[j - 1]
        BY <4>1, Zenon
      <4> HIDE DEF g
      <4> QED
        BY <3>2, <4>2, Zenon
    <3> QED
      BY <3>3, <3>4
  <2>3. g = [j \in 0..k |-> g[j]]
    BY Zenon
  <2> HIDE DEF g
  <2>4. g = [j \in 0..k |-> F(g, j)]
    BY <2>2, <2>3, Zenon
  <2> QED
    BY <1>3, <2>4, Zenon DEF Keeping
<1> QED
  BY <1>4, <1>5

\* What is kept of the first k elements.
KeptOf(S, r, q, I, k) ==
  /\ r \in Seq(S) /\ Len(r) <= k
  /\ \A j \in 1..Len(r) : \E i \in I : i <= k /\ r[j] = q[i]
  /\ \A i \in I : i <= k => \E j \in 1..Len(r) : r[j] = q[i]

\* One turn more.
LEMMA KeepTurn ==
  ASSUME NEW S, NEW q \in Seq(S), NEW I \in SUBSET (1..Len(q)), NEW k \in 1..Len(q),
         NEW r, KeptOf(S, r, q, I, k - 1)
  PROVE  KeptOf(S, IF k \in I THEN Append(r, q[k]) ELSE r, q, I, k)
<1>1. r \in Seq(S) /\ Len(r) <= k - 1
  BY Zenon DEF KeptOf
<1>2. ASSUME NEW i \in I
      PROVE  i <= k => i = k \/ i <= k - 1
  OBVIOUS
<1>3. ASSUME NEW i \in I
      PROVE  i <= k - 1 => i <= k
  OBVIOUS
<1>4. CASE k \in I
  <2> DEFINE s == Append(r, q[k])
  <2>1. PICK l \in Nat : l = Len(r)
    BY <1>1
  <2>2. /\ s \in Seq(S) /\ Len(s) = l + 1
        /\ \A i \in 1..l : s[i] = r[i]
        /\ s[l + 1] = q[k]
    BY <1>1, <2>1, AppendIs
  <2> HIDE DEF s
  <2>3. l + 1 <= k
    BY <1>1, <2>1
  <2>4. ASSUME NEW j \in 1..(l + 1)
        PROVE  \E i \in I : i <= k /\ s[j] = q[i]
    <3>1. CASE j = l + 1
      BY <3>1, <1>4, <2>2
    <3>2. CASE j # l + 1
      <4>1. j \in 1..l
        BY <3>2
      <4>2. PICK i \in I : i <= k - 1 /\ r[j] = q[i]
        BY <4>1, <2>1, Zenon DEF KeptOf
      <4> QED
        BY <4>1, <4>2, <1>3, <2>2, Zenon
    <3> QED
      BY <3>1, <3>2
  <2>5. ASSUME NEW i \in I, i <= k
        PROVE  \E j \in 1..(l + 1) : s[j] = q[i]
    <3>1. CASE i = k
      <4>1. l + 1 \in 1..(l + 1)
        OBVIOUS
      <4> QED
        BY <4>1, <3>1, <2>2, Zenon
    <3>2. CASE i <= k - 1
      <4>1. PICK j \in 1..l : r[j] = q[i]
        BY <3>2, <2>1, Zenon DEF KeptOf
      <4>2. j \in 1..(l + 1)
        OBVIOUS
      <4> QED
        BY <4>1, <4>2, <2>2, Zenon
    <3> QED
      BY <2>5, <3>1, <3>2, <1>2
  <2>6. KeptOf(S, s, q, I, k)
    BY <2>2, <2>3, <2>4, <2>5, Zenon DEF KeptOf
  <2> QED
    BY <2>6, <1>4, Zenon DEF s
<1>5. CASE k \notin I
  <2>1. Len(r) <= k
    BY <1>1
  <2>2. ASSUME NEW i \in I, i <= k
        PROVE  i <= k - 1
    BY <2>2, <1>2, <1>5, Zenon
  <2> QED
    BY <1>1, <1>3, <1>5, <2>1, <2>2, Zenon DEF KeptOf
<1> QED
  BY <1>4, <1>5

\* What retain leaves: the elements at the given positions, and no others.
LEMMA RetainIs ==
  ASSUME NEW S, NEW q \in Seq(S), NEW I \in SUBSET (1..Len(q))
  PROVE  KeptOf(S, Retain(q, I), q, I, Len(q))
<1>1. PICK n \in Nat : n = Len(q)
  OBVIOUS
<1> DEFINE f == CHOOSE h : Keeping(h, q, I, n)
<1>2. Retain(q, I) = f[n]
  BY <1>1, Zenon DEF Retain, Keeping
<1>3. Keeping(f, q, I, n)
  BY KeepExists, Zenon
<1> HIDE DEF f
<1>4. \A k \in 0..n : f[k] = IF k = 0 THEN <<>> ELSE IF k \in I THEN Append(f[k - 1], q[k]) ELSE f[k - 1]
  BY <1>3, Zenon DEF Keeping
<1> DEFINE Bad == {k \in 0..n : ~KeptOf(S, f[k], q, I, k)}
<1>5. SUFFICES ASSUME Bad # {} PROVE FALSE
  BY <1>1, <1>2
<1>6. Bad \in SUBSET Nat
  OBVIOUS
<1>7. PICK k \in Bad : \A m \in Bad : k <= m
  BY <1>5, <1>6, LeastNumber, Zenon
<1>8. k \in 0..n /\ ~KeptOf(S, f[k], q, I, k)
  BY <1>7, Zenon
<1>9. CASE k = 0
  <2>1. f[k] = <<>>
    BY <1>4, <1>8, <1>9, Zenon
  <2>2. <<>> \in Seq(S) /\ Len(<<>>) = 0 /\ 1..0 = {}
    OBVIOUS
  <2>3. \A i \in I : ~(i <= 0)
    BY <1>1
  <2> QED
    BY <2>1, <2>2, <2>3, <1>8, <1>9 DEF KeptOf
<1>10. CASE k # 0
  <2>1. k \in 1..Len(q) /\ k - 1 \in 0..n /\ ~(k <= k - 1)
    BY <1>1, <1>8, <1>10
  <2>2. KeptOf(S, f[k - 1], q, I, k - 1)
    BY <2>1, <1>7, Zenon
  <2>3. f[k] = IF k \in I THEN Append(f[k - 1], q[k]) ELSE f[k - 1]
    BY <1>4, <1>8, <1>10, Zenon
  <2>4. KeptOf(S, IF k \in I THEN Append(f[k - 1], q[k]) ELSE f[k - 1], q, I, k)
    BY <2>1, <2>2, KeepTurn
  <2> QED
    BY <2>3, <2>4, <1>8, Zenon
<1> QED
  BY <1>9, <1>10

\* The least of a set of naturals.
LEMMA MinIs ==
  ASSUME NEW S \in SUBSET Nat, S # {}
  PROVE  Min(S) \in S /\ \A m \in S : Min(S) <= m
<1>1. \E n \in S : \A m \in S : n <= m
  BY LeastNumber, Zenon
<1> QED
  BY <1>1, Zenon DEF Min

\* The least of two numbers.
LEMMA MinTwo ==
  ASSUME NEW a \in Nat, NEW b \in Nat
  PROVE  Min({a, b}) = IF a <= b THEN a ELSE b
<1>1. Min({a, b}) \in {a, b} /\ Min({a, b}) <= a /\ Min({a, b}) <= b
  <2>1. {a, b} \in SUBSET Nat /\ {a, b} # {} /\ a \in {a, b} /\ b \in {a, b}
    OBVIOUS
  <2> QED
    BY <2>1, MinIs
<1> QED
  BY <1>1

\* The end of a sequence, which is empty beyond it.
LEMMA TailFrom ==
  ASSUME NEW S, NEW d \in Seq(S), NEW m \in Nat
  PROVE  /\ SubSeq(d, m + 1, Len(d)) \in Seq(S)
         /\ m <= Len(d) => /\ Len(SubSeq(d, m + 1, Len(d))) = Len(d) - m
                           /\ \A i \in 1..(Len(d) - m) : SubSeq(d, m + 1, Len(d))[i] = d[m + i]
<1>1. PICK l \in Nat : l = Len(d)
  OBVIOUS
<1>2. CASE m <= l
  BY <1>1, <1>2, Suffix
<1>3. CASE m > l
  <2>1. SubSeq(d, m + 1, l) = <<>>
    BY <1>1, <1>3
  <2>2. ~(m <= l) /\ <<>> \in Seq(S)
    BY <1>1, <1>3
  <2> QED
    BY <2>1, <2>2, <1>1, Zenon
<1> QED
  BY <1>1, <1>2, <1>3

\* What is new of a segment.
LEMMA TrimmedType ==
  ASSUME NEW seq \in Seqs, NEW d \in Seq(Nat), NEW recv \in Seqs
  PROVE  Trimmed(seq, d, recv) \in Seq(Nat)
<1>1. Mod(recv - seq) \in Nat
  <2>1. recv - seq \in Int
    BY SpaceFacts DEF Seqs
  <2>2. Mod(recv - seq) \in Seqs
    BY <2>1, ModFacts
  <2> QED
    BY <2>2, SpaceFacts DEF Seqs
<1>2. PICK m \in Nat : m = Mod(recv - seq)
  BY <1>1
<1>3. SubSeq(d, m + 1, Len(d)) \in Seq(Nat)
  BY TailFrom
<1> QED
  BY <1>2, <1>3, Zenon DEF Trimmed, Mod

-----------------------------------------------------------------------------
(* drain_out_of_order *)

DrainStart(s) ==
  [recv |-> s.recv_seq, queue |-> s.receive_queue, rest |-> <<>>, stop |-> FALSE]

\* The turns of the loop, for the first n entries of q.
Draining(f, s, q, n) ==
  f = [k \in 0..n |-> IF k = 0 THEN DrainStart(s) ELSE DrainTurn(f[k - 1], q[k])]

\* They can be followed to any length.
LEMMA DrainExists ==
  ASSUME NEW s, NEW q, NEW n \in Nat
  PROVE  \E f : Draining(f, s, q, n)
<1> DEFINE Bad == {k \in Nat : ~\E f : Draining(f, s, q, k)}
<1>1. SUFFICES ASSUME Bad # {} PROVE FALSE
  BY Zenon
<1>2. PICK k \in Bad : \A m \in Bad : k <= m
  BY <1>1, LeastNumber
<1>3. k \in Nat /\ ~\E f : Draining(f, s, q, k)
  BY <1>2
<1>4. CASE k = 0
  <2> DEFINE g == [j \in 0..0 |-> DrainStart(s)]
  <2>1. ASSUME NEW j \in 0..0
        PROVE  j = 0
    OBVIOUS
  <2>2. g = [j \in 0..0 |-> IF j = 0 THEN DrainStart(s) ELSE DrainTurn(g[j - 1], q[j])]
    BY <2>1, Zenon
  <2> HIDE DEF g
  <2> QED
    BY <1>3, <1>4, <2>2, Zenon DEF Draining
<1>5. CASE k # 0
  <2>1. PICK f : Draining(f, s, q, k - 1)
    <3>1. k - 1 \in Nat /\ ~(k <= k - 1)
      BY <1>3, <1>5
    <3> QED
      BY <3>1, <1>2
  <2> DEFINE F(h, j) == IF j = 0 THEN DrainStart(s) ELSE DrainTurn(h[j - 1], q[j])
             g == [j \in 0..k |-> IF j = k THEN F(f, j) ELSE f[j]]
  <2>2. ASSUME NEW j \in 0..k
        PROVE  g[j] = F(g, j)
    <3>1. f = [i \in 0..(k - 1) |-> F(f, i)]
      BY <2>1, Zenon DEF Draining
    <3>2. g[j] = F(f, j)
      <4>1. CASE j = k
        BY <4>1, Zenon
      <4>2. CASE j # k
        <5>1. j \in 0..(k - 1)
          BY <4>2
        <5>2. f[j] = F(f, j)
          BY <5>1, <3>1, Zenon
        <5> QED
          BY <5>2, <4>2, Zenon
      <4> QED
        BY <4>1, <4>2
    <3>3. CASE j = 0
      BY <3>2, <3>3, Zenon
    <3>4. CASE j # 0
      <4>1. j - 1 \in 0..k /\ j - 1 # k
        BY <3>4, <1>3
      <4>2. g[j - 1] = f[j - 1]
        BY <4>1, Zenon
      <4> HIDE DEF g
      <4> QED
        BY <3>2, <4>2, Zenon
    <3> QED
      BY <3>3, <3>4
  <2>3. g = [j \in 0..k |-> g[j]]
    BY Zenon
  <2> HIDE DEF g
  <2>4. g = [j \in 0..k |-> F(g, j)]
    BY <2>2, <2>3, Zenon
  <2> QED
    BY <1>3, <2>4, Zenon DEF Draining
<1> QED
  BY <1>4, <1>5

Accs == [recv : Seqs, queue : Seq(Nat), rest : Seq(Pieces), stop : BOOLEAN]

\* After k turns no more than k entries are left for later.
Drained(acc, k) == acc \in Accs /\ Len(acc.rest) <= k

\* One turn more, by types.
LEMMA DrainTurnType ==
  ASSUME NEW k \in Nat \ {0}, NEW acc, Drained(acc, k - 1), NEW g \in Pieces
  PROVE  Drained(DrainTurn(acc, g), k)
<1>1. acc \in Accs /\ Len(acc.rest) <= k - 1 /\ acc.rest \in Seq(Pieces)
  BY DEF Drained, Accs
<1>2. Append(acc.rest, g) \in Seq(Pieces) /\ Len(Append(acc.rest, g)) <= k
  BY <1>1
<1> DEFINE new == Trimmed(g.seq, g.data, acc.recv)
<1>3. new \in Seq(Nat) /\ Len(new) \in Int
  <2>1. g.seq \in Seqs /\ g.data \in Seq(Nat) /\ acc.recv \in Seqs
    BY <1>1 DEF Pieces, Accs
  <2>2. new \in Seq(Nat)
    BY <2>1, TrimmedType
  <2> QED
    BY <2>2
<1>4. Add(acc.recv, Len(new)) \in Seqs
  BY <1>1, <1>3, AddType DEF Accs
<1> HIDE DEF new
<1>5. acc.queue \o new \in Seq(Nat)
  BY <1>1, <1>3 DEF Accs
<1>6. Len(acc.rest) <= k
  BY <1>1
<1> DEFINE a1 == [acc EXCEPT !.rest = Append(@, g)]
           a2 == [acc EXCEPT !.stop = TRUE, !.rest = Append(@, g)]
           a3 == [acc EXCEPT !.recv = Add(@, Len(new)), !.queue = @ \o new]
<1>7. Drained(a1, k) /\ Drained(a2, k)
  BY <1>1, <1>2 DEF Drained, Accs
<1>8. Drained(a3, k)
  BY <1>1, <1>4, <1>5, <1>6 DEF Drained, Accs
<1>9. Drained(acc, k)
  BY <1>1, <1>6 DEF Drained
<1>10. DrainTurn(acc, g) = a1 \/ DrainTurn(acc, g) = a2 \/ DrainTurn(acc, g) = a3 \/ DrainTurn(acc, g) = acc
  BY Zenon DEF DrainTurn, new
<1> HIDE DEF a1, a2, a3
<1> QED
  BY <1>7, <1>8, <1>9, <1>10, Zenon

\* The loop, and what it leaves.
DrainsTo(f, s, q, n) ==
  /\ Draining(f, s, q, n)
  /\ \A k \in 0..n : Drained(f[k], k)
  /\ DrainOutOfOrder(s) =
       [s EXCEPT !.recv_seq = f[n].recv, !.receive_queue = f[n].queue,
                 !.out_of_order_queue = f[n].rest]

\* The last turn.
LEMMA DrainIs ==
  ASSUME NEW s \in Sockets, NEW q, q = s.out_of_order_queue, NEW n \in Nat, n = Len(q)
  PROVE  \E f : DrainsTo(f, s, q, n)
<1> DEFINE f == CHOOSE h : Draining(h, s, q, n)
<1>1. DrainOutOfOrder(s) =
        [s EXCEPT !.recv_seq = f[n].recv, !.receive_queue = f[n].queue,
                  !.out_of_order_queue = f[n].rest]
  BY Zenon DEF DrainOutOfOrder, Draining, DrainStart
<1>2. Draining(f, s, q, n)
  BY DrainExists, Zenon
<1> HIDE DEF f
<1>3. \A k \in 0..n : f[k] = IF k = 0 THEN DrainStart(s) ELSE DrainTurn(f[k - 1], q[k])
  BY <1>2, Zenon DEF Draining
<1>4. q \in Seq(Pieces) /\ s.recv_seq \in Seqs /\ s.receive_queue \in Seq(Nat)
  BY DEF Sockets
<1> DEFINE Bad == {k \in 0..n : ~Drained(f[k], k)}
<1>5. SUFFICES ASSUME Bad # {} PROVE FALSE
  BY <1>1, <1>2, Zenon DEF DrainsTo
<1>6. PICK k \in Bad : \A m \in Bad : k <= m
  <2>1. Bad \in SUBSET Nat
    OBVIOUS
  <2> QED
    BY <1>5, <2>1, LeastNumber, Zenon
<1>7. k \in 0..n /\ ~Drained(f[k], k)
  BY <1>6, Zenon
<1>8. CASE k = 0
  <2>1. f[k] = DrainStart(s)
    BY <1>3, <1>7, <1>8, Zenon
  <2>2. Drained(DrainStart(s), 0)
    BY <1>4 DEF Drained, DrainStart, Accs
  <2> QED
    BY <2>1, <2>2, <1>7, <1>8, Zenon
<1>9. CASE k # 0
  <2>1. k \in Nat \ {0} /\ k \in 1..n /\ k - 1 \in 0..n /\ ~(k <= k - 1)
    BY <1>7, <1>9
  <2>2. Drained(f[k - 1], k - 1)
    BY <2>1, <1>6, Zenon
  <2>3. q[k] \in Pieces
    BY <2>1, <1>4
  <2>4. f[k] = DrainTurn(f[k - 1], q[k])
    BY <1>3, <1>7, <1>9, Zenon
  <2>5. Drained(DrainTurn(f[k - 1], q[k]), k)
    BY <2>1, <2>2, <2>3, DrainTurnType
  <2> QED
    BY <2>4, <2>5, <1>7, Zenon
<1> QED
  BY <1>8, <1>9

-----------------------------------------------------------------------------
(* Types of segments and queues *)

\* The flags that take a sequence number.
LEMMA FlagCount ==
  ASSUME NEW F \in Flags
  PROVE  /\ Cardinality(F \cap {"SYN", "FIN"}) \in Nat
         /\ F = {"ACK"} => Cardinality(F \cap {"SYN", "FIN"}) = 0
<1>1. IsFiniteSet({"SYN", "FIN"})
  <2>1. IsFiniteSet({}) /\ IsFiniteSet({} \cup {"SYN"})
    BY FS_EmptySet, FS_AddElement
  <2>2. IsFiniteSet(({} \cup {"SYN"}) \cup {"FIN"})
    BY <2>1, FS_AddElement
  <2>3. ({} \cup {"SYN"}) \cup {"FIN"} = {"SYN", "FIN"}
    BY Zenon
  <2> QED
    BY <2>2, <2>3
<1>2. IsFiniteSet(F \cap {"SYN", "FIN"})
  <2>1. F \cap {"SYN", "FIN"} \subseteq {"SYN", "FIN"}
    BY Zenon
  <2> QED
    BY <1>1, <2>1, FS_Subset, Zenon
<1>3. F = {"ACK"} => F \cap {"SYN", "FIN"} = {}
  OBVIOUS
<1> QED
  BY <1>2, <1>3, FS_CardinalityType, FS_EmptySet, Zenon

\* The end of a segment.
LEMMA EndType ==
  ASSUME NEW g \in Segments
  PROVE  /\ SegmentEndSeq(g) \in Seqs
         /\ g.flags = {"ACK"} => SegmentEndSeq(g) = Add(g.seq, Len(g.data))
<1>1. g.seq \in Seqs /\ g.flags \in Flags /\ g.data \in Seq(Nat)
  BY DEF Segments, Flags
<1>2. PICK c \in Nat : /\ c = Cardinality(g.flags \cap {"SYN", "FIN"})
                       /\ g.flags = {"ACK"} => c = 0
  BY <1>1, FlagCount
<1>3. Len(g.data) + c \in Int /\ Len(g.data) + 0 = Len(g.data)
  BY <1>1
<1>4. SegmentEndSeq(g) = Add(g.seq, Len(g.data) + c)
  BY <1>2, Zenon DEF SegmentEndSeq
<1>5. Add(g.seq, Len(g.data) + c) \in Seqs
  BY <1>1, <1>3, AddType
<1> QED
  BY <1>2, <1>3, <1>4, <1>5, Zenon

\* A segment is made of its fields.
LEMMA SegmentIs ==
  ASSUME NEW to, NEW seq, NEW ack, NEW flags, NEW data
  PROVE  LET g == Segment(to, seq, ack, flags, data)
         IN /\ g.to = to /\ g.seq = seq /\ g.ack = ack /\ g.flags = flags /\ g.data = data
            /\ to \in Ends /\ seq \in Seqs /\ ack \in Seqs /\ flags \in Flags /\ data \in Seq(Nat)
               => g \in Segments
BY DEF Segment, Segments, Flags

\* The segment that stands for none.
LEMMA NoSegmentIs == NoSegment \in Segments /\ NoSegment.data = <<>> /\ NoSegment.flags = {}
<1>1. Client \in Ends /\ 0 \in Seqs /\ {} \in Flags /\ <<>> \in Seq(Nat)
  BY SpaceFacts DEF Ends, Seqs, Flags
<1> QED
  BY <1>1 DEF NoSegment, Segment, Segments, Flags

\* track_segment, of a queue that is not full.
LEMMA TrackIs ==
  ASSUME NEW q \in Seq(Tracked), Len(q) <= TCP_SEND_WINDOW_SEGMENTS, NEW g \in Segments
  PROVE  /\ Track(q, g) \in Seq(Tracked) /\ Len(Track(q, g)) = Len(q) + 1
         /\ \A i \in 1..Len(q) : Track(q, g)[i] = q[i]
         /\ Track(q, g)[Len(q) + 1].seg = g
<1> DEFINE t == [seg |-> g, retries |-> 0, needs |-> FALSE]
<1>1. ~(Len(q) >= TCP_MAX_RETRANSMIT_SEGMENTS)
  BY TcpAssumption
<1>2. t \in Tracked /\ t.seg = g
  <2>1. 0 \in 0..TCP_MAX_RETRIES
    BY TcpAssumption
  <2> QED
    BY <2>1 DEF Tracked
<1>3. Track(q, g) = Append(q, t)
  BY <1>1, Zenon DEF Track
<1> HIDE DEF t
<1>4. /\ Append(q, t) \in Seq(Tracked) /\ Len(Append(q, t)) = Len(q) + 1
      /\ \A i \in 1..Len(q) : Append(q, t)[i] = q[i]
      /\ Append(q, t)[Len(q) + 1] = t
  BY <1>2, AppendIs
<1> QED
  BY <1>2, <1>3, <1>4, Zenon

\* A queue of which entries have left.
Fewer(r, q) ==
  /\ r \in Seq(Tracked) /\ Len(r) <= Len(q)
  /\ \A j \in DOMAIN r : \E i \in DOMAIN q : r[j] = q[i]

\* ack_retransmit_queue keeps what ends after the acknowledgement.
LEMMA AckQueueIs ==
  ASSUME NEW q \in Seq(Tracked), NEW ack
  PROVE  /\ Fewer(AckRetransmitQueue(q, ack), q)
         /\ \A i \in DOMAIN q : SeqAfter(SegmentEndSeq(q[i].seg), ack) =>
              \E j \in DOMAIN AckRetransmitQueue(q, ack) : AckRetransmitQueue(q, ack)[j] = q[i]
<1> DEFINE I == {i \in DOMAIN q : SeqAfter(SegmentEndSeq(q[i].seg), ack)}
           r == AckRetransmitQueue(q, ack)
<1>1. I \in SUBSET (1..Len(q)) /\ DOMAIN q = 1..Len(q)
  <2>1. DOMAIN q = 1..Len(q)
    OBVIOUS
  <2> QED
    BY <2>1, Zenon
<1>2. KeptOf(Tracked, Retain(q, I), q, I, Len(q))
  BY <1>1, RetainIs
<1>3. r = Retain(q, I)
  BY Zenon DEF AckRetransmitQueue
<1>4. \A i \in I : i \in DOMAIN q /\ i <= Len(q)
  BY <1>1
<1>5. \A i \in DOMAIN q : SeqAfter(SegmentEndSeq(q[i].seg), ack) => i \in I
  BY Zenon
<1> HIDE DEF I, r
<1>6. DOMAIN r = 1..Len(r)
  BY <1>2, <1>3 DEF KeptOf
<1> QED
  BY <1>2, <1>3, <1>4, <1>5, <1>6, Zenon DEF KeptOf, Fewer, r

\* untrack_segment removes the entries of one sequence number.
LEMMA UntrackIs ==
  ASSUME NEW q \in Seq(Tracked), NEW seq
  PROVE  /\ Fewer(Untrack(q, seq), q)
         /\ \A j \in DOMAIN Untrack(q, seq) : Untrack(q, seq)[j].seg.seq # seq
         /\ \A i \in DOMAIN q : q[i].seg.seq # seq =>
              \E j \in DOMAIN Untrack(q, seq) : Untrack(q, seq)[j] = q[i]
<1> DEFINE I == {i \in DOMAIN q : q[i].seg.seq # seq}
           r == Untrack(q, seq)
<1>1. I \in SUBSET (1..Len(q)) /\ DOMAIN q = 1..Len(q)
  <2>1. DOMAIN q = 1..Len(q)
    OBVIOUS
  <2> QED
    BY <2>1, Zenon
<1>2. KeptOf(Tracked, Retain(q, I), q, I, Len(q))
  BY <1>1, RetainIs
<1>3. r = Retain(q, I)
  BY Zenon DEF Untrack
<1>4. \A i \in I : i \in DOMAIN q /\ i <= Len(q) /\ q[i].seg.seq # seq
  BY <1>1
<1>5. \A i \in DOMAIN q : q[i].seg.seq # seq => i \in I
  BY Zenon
<1> HIDE DEF I, r
<1>6. DOMAIN r = 1..Len(r)
  BY <1>2, <1>3 DEF KeptOf
<1>7. Fewer(r, q)
  BY <1>2, <1>3, <1>4, <1>6, Zenon DEF KeptOf, Fewer
<1>8. ASSUME NEW j \in DOMAIN r
      PROVE  r[j].seg.seq # seq
  <2>1. PICK i \in I : r[j] = q[i]
    BY <1>2, <1>3, <1>6, Zenon DEF KeptOf
  <2> QED
    BY <2>1, <1>4, Zenon
<1>9. ASSUME NEW i \in DOMAIN q, q[i].seg.seq # seq
      PROVE  \E j \in DOMAIN r : r[j] = q[i]
  <2>1. i \in I /\ i <= Len(q)
    BY <1>4, <1>5, <1>9, Zenon
  <2> QED
    BY <2>1, <1>2, <1>3, <1>6, Zenon DEF KeptOf
<1> QED
  BY <1>7, <1>8, <1>9, Zenon DEF r

\* insert_out_of_order keeps to the limit and adds nothing but the segment.
LEMMA InsertIs ==
  ASSUME NEW q \in Seq(Pieces), Len(q) <= TCP_MAX_OUT_OF_ORDER_SEGMENTS,
         NEW seq \in Seqs, NEW d \in Seq(Nat)
  PROVE  LET r == InsertOutOfOrder(q, seq, d)
         IN /\ r \in Seq(Pieces) /\ Len(r) <= TCP_MAX_OUT_OF_ORDER_SEGMENTS
            /\ \A j \in DOMAIN r : r[j] = [seq |-> seq, data |-> d] \/ \E i \in DOMAIN q : r[j] = q[i]
<1> DEFINE later == {i \in DOMAIN q : SeqBefore(seq, q[i].seq)}
           pos   == Min(later \cup {Len(q) + 1})
           x     == [seq |-> seq, data |-> d]
           r     == InsertAt(q, pos, x)
<1>1. PICK l \in Nat : l = Len(q) /\ DOMAIN q = 1..l
  OBVIOUS
<1>2. pos \in 1..(l + 1)
  <2>1. later \cup {l + 1} \in SUBSET (1..(l + 1))
    BY <1>1
  <2>2. later \cup {l + 1} \in SUBSET Nat /\ later \cup {l + 1} # {}
    BY <2>1
  <2>3. Min(later \cup {l + 1}) \in later \cup {l + 1}
    BY <2>2, MinIs, Zenon
  <2> QED
    BY <2>1, <2>3, <1>1, Zenon
<1> HIDE DEF pos, later
<1>3. x \in Pieces
  BY DEF Pieces
<1> HIDE DEF x
<1> DEFINE a == SubSeq(q, 1, pos - 1)
           b == SubSeq(q, pos, l)
<1>4. PICK k \in 0..l : k = pos - 1 /\ pos = k + 1
  BY <1>2
<1>5. /\ a \in Seq(Pieces) /\ Len(a) = k /\ \A i \in 1..k : a[i] = q[i]
  BY <1>1, <1>4, Prefix
<1>6. /\ b \in Seq(Pieces) /\ Len(b) = l - k /\ \A i \in 1..(l - k) : b[i] = q[k + i]
  BY <1>1, <1>4, Suffix
<1>7. r = a \o <<x>> \o b
  BY <1>1, Zenon DEF InsertAt
<1> HIDE DEF a, b, r
<1>8. <<x>> \in Seq(Pieces) /\ Len(<<x>>) = 1 /\ <<x>>[1] = x
  BY <1>3
<1>9. PICK c : c = a \o <<x>>
  BY Zenon
<1>10. IsConcat(Pieces, c, a, <<x>>, k, 1)
  <2>1. k \in Nat /\ 1 \in Nat
    BY <1>4
  <2>2. IsConcat(Pieces, a \o <<x>>, a, <<x>>, k, 1)
    BY ONLY <2>1, <1>5, <1>8, ConcatIs, Zenon
  <2> QED
    BY <2>2, <1>9, Zenon
<1>11. IsConcat(Pieces, r, c, b, k + 1, l - k)
  <2>1. c \in Seq(Pieces) /\ Len(c) = k + 1
    BY <1>10, Zenon DEF IsConcat
  <2>2. k + 1 \in Nat /\ l - k \in Nat
    BY <1>4
  <2> QED
    BY <1>6, <1>7, <1>9, <2>1, <2>2, ConcatIs
<1>12. r \in Seq(Pieces) /\ Len(r) = l + 1
  BY <1>4, <1>11 DEF IsConcat
<1>13. ASSUME NEW j \in 1..(l + 1)
       PROVE  r[j] = x \/ \E i \in 1..l : r[j] = q[i]
  <2>1. r[j] = IF j <= k + 1 THEN c[j] ELSE b[j - (k + 1)]
    BY <1>4, <1>11 DEF IsConcat
  <2>2. j <= k + 1 => c[j] = IF j <= k THEN a[j] ELSE <<x>>[j - k]
    BY <1>4, <1>10 DEF IsConcat
  <2>3. CASE j <= k
    BY <2>1, <2>2, <2>3, <1>4, <1>5
  <2>4. CASE j = k + 1
    BY <2>1, <2>2, <2>4, <1>4, <1>8
  <2>5. CASE j > k + 1
    <3>1. j - (k + 1) \in 1..(l - k) /\ k + (j - (k + 1)) \in 1..l /\ ~(j <= k + 1)
      BY <2>5, <1>4
    <3> QED
      BY <3>1, <2>1, <1>6
  <2> QED
    BY <2>3, <2>4, <2>5, <1>4
<1>14. DOMAIN r = 1..(l + 1)
  BY <1>12
<1>15. InsertOutOfOrder(q, seq, d) =
         IF \/ \E i \in DOMAIN q : q[i].seq = seq /\ Len(q[i].data) = Len(d)
            \/ Len(q) >= TCP_MAX_OUT_OF_ORDER_SEGMENTS
         THEN q ELSE r
  BY Zenon DEF InsertOutOfOrder, r, x, pos, later
<1>16. ~(Len(q) >= TCP_MAX_OUT_OF_ORDER_SEGMENTS) => l + 1 <= TCP_MAX_OUT_OF_ORDER_SEGMENTS
  BY <1>1, TcpAssumption
<1>17. \A j \in DOMAIN r : r[j] = x \/ \E i \in DOMAIN q : r[j] = q[i]
  BY <1>13, <1>14, <1>1, Zenon
<1>18. CASE InsertOutOfOrder(q, seq, d) = q
  BY <1>18, Zenon
<1>19. CASE InsertOutOfOrder(q, seq, d) = r /\ ~(Len(q) >= TCP_MAX_OUT_OF_ORDER_SEGMENTS)
  BY <1>12, <1>16, <1>17, <1>19, Zenon DEF x
<1> QED
  BY <1>15, <1>18, <1>19, Zenon

\* What ingest_payload leaves alone.
SameButInput(n, s) ==
  /\ n.state = s.state /\ n.send_seq = s.send_seq /\ n.retransmit_queue = s.retransmit_queue
  /\ n.so_error = s.so_error /\ n.registered = s.registered
  /\ n.pending_fin_seq = s.pending_fin_seq

\* drain_out_of_order, by types.
LEMMA DrainType ==
  ASSUME NEW s \in Sockets, Len(s.out_of_order_queue) <= TCP_MAX_OUT_OF_ORDER_SEGMENTS
  PROVE  /\ DrainOutOfOrder(s) \in Sockets /\ SameButInput(DrainOutOfOrder(s), s)
         /\ Len(DrainOutOfOrder(s).out_of_order_queue) <= TCP_MAX_OUT_OF_ORDER_SEGMENTS
<1>1. PICK n \in Nat : n = Len(s.out_of_order_queue)
  BY DEF Sockets
<1>0. PICK q : q = s.out_of_order_queue /\ n = Len(q)
  BY <1>1, Zenon
<1>2. PICK f : DrainsTo(f, s, q, n)
  BY <1>0, DrainIs, Zenon
<1>3. Drained(f[n], n)
  <2>1. n \in 0..n
    OBVIOUS
  <2> QED
    BY <1>2, <2>1, Zenon DEF DrainsTo
<1>4. PICK rv \in Seqs, qu \in Seq(Nat), re \in Seq(Pieces) :
        f[n].recv = rv /\ f[n].queue = qu /\ f[n].rest = re /\ Len(re) <= n
  BY <1>3 DEF Drained, Accs
<1>5. DrainOutOfOrder(s) =
        [s EXCEPT !.recv_seq = rv, !.receive_queue = qu, !.out_of_order_queue = re]
  BY <1>2, <1>4, Zenon DEF DrainsTo
<1>6. Len(re) <= TCP_MAX_OUT_OF_ORDER_SEGMENTS
  BY <1>1, <1>4, TcpAssumption
<1> QED
  BY <1>5, <1>6 DEF Sockets, SameButInput

\* ingest_payload, by types.
LEMMA IngestType ==
  ASSUME NEW s \in Sockets, Len(s.out_of_order_queue) <= TCP_MAX_OUT_OF_ORDER_SEGMENTS,
         NEW seq \in Seqs, NEW d \in Seq(Nat)
  PROVE  /\ IngestPayload(s, seq, d) \in Sockets /\ SameButInput(IngestPayload(s, seq, d), s)
         /\ Len(IngestPayload(s, seq, d).out_of_order_queue) <= TCP_MAX_OUT_OF_ORDER_SEGMENTS
<1>1. s.recv_seq \in Seqs /\ s.receive_queue \in Seq(Nat) /\ s.out_of_order_queue \in Seq(Pieces)
  BY DEF Sockets
<1> DEFINE n1 == [s EXCEPT !.out_of_order_queue = InsertOutOfOrder(@, seq, d)]
           new == NewPayload(seq, d, s.recv_seq)
           n2 == [s EXCEPT !.recv_seq = Add(@, Len(new)), !.receive_queue = @ \o new]
<1>2. n1 \in Sockets /\ SameButInput(n1, s)
      /\ Len(n1.out_of_order_queue) <= TCP_MAX_OUT_OF_ORDER_SEGMENTS
  <2>1. PICK r \in Seq(Pieces) : r = InsertOutOfOrder(s.out_of_order_queue, seq, d)
                                 /\ Len(r) <= TCP_MAX_OUT_OF_ORDER_SEGMENTS
    BY <1>1, InsertIs
  <2>2. n1 = [s EXCEPT !.out_of_order_queue = r]
    BY <2>1, Zenon
  <2> HIDE DEF n1
  <2> QED
    BY <2>1, <2>2 DEF Sockets, SameButInput
<1>3. n2 \in Sockets /\ SameButInput(n2, s)
      /\ Len(n2.out_of_order_queue) <= TCP_MAX_OUT_OF_ORDER_SEGMENTS
  <2>1. new \in Seq(Nat)
    BY <1>1, TrimmedType, Zenon DEF NewPayload
  <2> HIDE DEF new
  <2>2. PICK rv \in Seqs, qu \in Seq(Nat) : rv = Add(s.recv_seq, Len(new)) /\ qu = s.receive_queue \o new
    <3>1. Len(new) \in Int /\ s.receive_queue \o new \in Seq(Nat)
      BY <1>1, <2>1
    <3>2. Add(s.recv_seq, Len(new)) \in Seqs
      BY <1>1, <3>1, AddType
    <3> QED
      BY <3>1, <3>2, Zenon
  <2>3. n2 = [s EXCEPT !.recv_seq = rv, !.receive_queue = qu]
    BY <2>2, Zenon
  <2> HIDE DEF n2
  <2> QED
    BY <2>3 DEF Sockets, SameButInput
<1>4. /\ DrainOutOfOrder(n2) \in Sockets /\ SameButInput(DrainOutOfOrder(n2), n2)
      /\ Len(DrainOutOfOrder(n2).out_of_order_queue) <= TCP_MAX_OUT_OF_ORDER_SEGMENTS
  <2> HIDE DEF n2
  <2> QED
    BY <1>3, DrainType
<1>5. SameButInput(DrainOutOfOrder(n2), s) /\ SameButInput(s, s)
  <2> HIDE DEF n2
  <2> QED
    BY <1>3, <1>4, Zenon DEF SameButInput
<1>6. \/ IngestPayload(s, seq, d) = s \/ IngestPayload(s, seq, d) = n1
      \/ IngestPayload(s, seq, d) = DrainOutOfOrder(n2)
  BY Zenon DEF IngestPayload
<1> HIDE DEF n1, n2
<1> QED
  BY <1>2, <1>4, <1>5, <1>6, Zenon

-----------------------------------------------------------------------------
(* Type correctness: the applications *)

\* Only end e is touched.
LocalTo(e) ==
  \A x \in Ends \ {e} :
    /\ sock'[x] = sock[x] /\ prog'[x] = prog[x] /\ left'[x] = left[x]
    /\ unsent'[x] = unsent[x] /\ sent'[x] = sent[x] /\ got'[x] = got[x]

\* The types of all variables after a step.
Typed ==
  /\ sock \in [Ends -> Sockets] /\ listening \in BOOLEAN /\ net \subseteq Segments
  /\ mss \in Nat \ {0} /\ failures \in Nat /\ timeouts \in Nat
  /\ prog \in [Ends -> Seq(Calls)]
  /\ left \in [Ends -> Nat] /\ unsent \in [Ends -> Segments]
  /\ sent \in [Ends -> Nat] /\ got \in [Ends -> Seq(Nat)]

Kept(e) == Windows(sock[e], unsent[e], sent[e]) /\ CloseIsLast(prog[e])

\* The other end keeps what it has.
LEMMA LocalType ==
  ASSUME TypeInv, Typed', NEW e \in Ends, LocalTo(e), Kept(e)'
  PROVE  TypeInv'
<1>1. ASSUME NEW x \in Ends
      PROVE  Windows(sock'[x], unsent'[x], sent'[x]) /\ CloseIsLast(prog'[x])
  <2>1. CASE x = e
    BY <2>1, Zenon DEF Kept
  <2>2. CASE x # e
    <3>1. sock'[x] = sock[x] /\ unsent'[x] = unsent[x] /\ sent'[x] = sent[x] /\ prog'[x] = prog[x]
      BY <2>2, Zenon DEF LocalTo
    <3>2. Windows(sock[x], unsent[x], sent[x]) /\ CloseIsLast(prog[x])
      BY Zenon DEF TypeInv
    <3> QED
      BY <3>1, <3>2, Zenon
  <2> QED
    BY <2>1, <2>2
<1> QED
  BY <1>1, Zenon DEF TypeInv, Typed

\* The types of one end.
LEMMA EndTypes ==
  ASSUME TypeInv, NEW e \in Ends
  PROVE  /\ Typed /\ Kept(e)
         /\ sock[e] \in Sockets /\ prog[e] \in Seq(Calls) /\ left[e] \in Nat
         /\ unsent[e] \in Segments /\ sent[e] \in Nat /\ got[e] \in Seq(Nat)
BY Zenon DEF TypeInv, Typed, Kept

\* One socket is replaced.
LEMMA SetType ==
  ASSUME TypeInv, NEW e \in Ends, NEW s \in Sockets, SetSock(e, s)
  PROVE  /\ sock' \in [Ends -> Sockets] /\ sock'[e] = s
         /\ \A x \in Ends \ {e} : sock'[x] = sock[x]
BY DEF SetSock, TypeInv

\* The next call.
LEMMA NextCallType ==
  ASSUME TypeInv, NEW e \in Ends, prog[e] # <<>>, NextCall(e)
  PROVE  /\ prog' \in [Ends -> Seq(Calls)] /\ CloseIsLast(prog'[e])
         /\ prog'[e] = Tail(prog[e])
         /\ Head(prog[e]).op = "close" => prog'[e] = <<>>
         /\ \A x \in Ends \ {e} : prog'[x] = prog[x]
<1>1. PICK p : p = prog[e] /\ p \in Seq(Calls) /\ p # <<>> /\ CloseIsLast(p)
  BY Zenon DEF TypeInv
<1>2. prog' = [prog EXCEPT ![e] = Tail(p)]
  BY <1>1, Zenon DEF NextCall
<1>3. PICK t : t = Tail(p)
  BY Zenon
<1>4. /\ t \in Seq(Calls) /\ Len(t) = Len(p) - 1 /\ DOMAIN t = 1..Len(t)
      /\ \A i \in 1..Len(t) : t[i] = p[i + 1] /\ i + 1 \in DOMAIN p
      /\ 1 \in DOMAIN p /\ Head(p) = p[1] /\ Len(p) \in Nat
  BY <1>1, <1>3
<1>5. CloseIsLast(t)
  <2>1. ASSUME NEW i \in DOMAIN t, t[i].op = "close"
        PROVE  i = Len(t)
    <3>1. p[i + 1].op = "close" /\ i + 1 \in DOMAIN p
      BY <1>4, <2>1, Zenon
    <3>2. i + 1 = Len(p)
      BY <3>1, <1>1, Zenon DEF CloseIsLast
    <3> QED
      BY <3>2, <1>4
  <2> QED
    BY <2>1, Zenon DEF CloseIsLast
<1>6. Head(p).op = "close" => t = <<>>
  <2>1. Head(p).op = "close" => 1 = Len(p)
    BY <1>1, <1>4, Zenon DEF CloseIsLast
  <2>2. 1 = Len(p) => Len(t) = 0
    <3>1. 1 - 1 = 0
      OBVIOUS
    <3> QED
      BY <1>4, <3>1, Zenon
  <2>3. Len(t) = 0 => t = <<>>
    BY <1>4, EmptySeq
  <2> QED
    BY <2>1, <2>2, <2>3
<1>7. prog \in [Ends -> Seq(Calls)]
  BY Zenon DEF TypeInv
<1> QED
  BY <1>1, <1>2, <1>3, <1>4, <1>5, <1>6, <1>7, Zenon

\* A step that replaces the socket of e, by one with queues within their limits.
LEMMA SockType ==
  ASSUME TypeInv, NEW e \in Ends, NEW s \in Sockets, SetSock(e, s),
         Windows(s, unsent[e], sent[e]), net' \subseteq Segments, mss' \in Nat \ {0},
         failures' \in Nat, timeouts' \in Nat, UNCHANGED <<listening, appVars, sent, got>>
  PROVE  TypeInv' /\ LocalTo(e) /\ sock'[e] = s
<1>1. Typed /\ Kept(e)
  BY EndTypes
<1>2. sock' \in [Ends -> Sockets] /\ sock'[e] = s /\ \A x \in Ends \ {e} : sock'[x] = sock[x]
  BY SetType
<1>3. UNCHANGED <<listening, prog, left, unsent, sent, got>>
  BY Zenon DEF appVars
<1>4. Typed'
  BY <1>1, <1>2, <1>3, Zenon DEF Typed
<1>5. LocalTo(e) /\ Kept(e)'
  BY <1>1, <1>2, <1>3, Zenon DEF LocalTo, Kept
<1> QED
  BY <1>2, <1>4, <1>5, LocalType

\* A step in which the application of e goes on with its calls.
LEMMA StepType ==
  ASSUME TypeInv, NEW e \in Ends, NEW s \in Sockets, SetSock(e, s),
         Windows(s, unsent[e], sent[e]), net' \subseteq Segments,
         prog' \in [Ends -> Seq(Calls)], CloseIsLast(prog'[e]), \A x \in Ends \ {e} : prog'[x] = prog[x],
         listening' \in BOOLEAN, failures' \in Nat, timeouts' \in Nat,
         left' \in [Ends -> Nat], \A x \in Ends \ {e} : left'[x] = left[x],
         UNCHANGED <<mss, unsent, sent, got>>
  PROVE  TypeInv' /\ LocalTo(e) /\ sock'[e] = s
<1>1. Typed /\ Kept(e)
  BY EndTypes
<1>2. sock' \in [Ends -> Sockets] /\ sock'[e] = s /\ \A x \in Ends \ {e} : sock'[x] = sock[x]
  BY SetType
<1>4. Typed'
  BY <1>1, <1>2, Zenon DEF Typed
<1>5. LocalTo(e) /\ Kept(e)'
  BY <1>1, <1>2, Zenon DEF LocalTo, Kept
<1> QED
  BY <1>2, <1>4, <1>5, LocalType

\* A step in which the application of e goes on to its next call.
LEMMA CallType ==
  ASSUME TypeInv, NEW e \in Ends, NEW s \in Sockets, SetSock(e, s),
         Windows(s, unsent[e], sent[e]), prog[e] # <<>>, NextCall(e), net' \subseteq Segments,
         listening' \in BOOLEAN, failures' \in Nat, timeouts' \in Nat,
         left' \in [Ends -> Nat], \A x \in Ends \ {e} : left'[x] = left[x],
         UNCHANGED <<mss, unsent, sent, got>>
  PROVE  TypeInv' /\ LocalTo(e) /\ sock'[e] = s
<1>1. prog' \in [Ends -> Seq(Calls)] /\ CloseIsLast(prog'[e]) /\ \A x \in Ends \ {e} : prog'[x] = prog[x]
  BY NextCallType
<1> QED
  BY <1>1, StepType

\* connect goes on to wait: a call is replaced by one that does not close.
LEMMA WaitCallType ==
  ASSUME TypeInv, NEW e \in Ends, prog[e] # <<>>,
         prog' = [prog EXCEPT ![e][1] = [op |-> "connecting"]]
  PROVE  /\ prog' \in [Ends -> Seq(Calls)] /\ CloseIsLast(prog'[e])
         /\ \A x \in Ends \ {e} : prog'[x] = prog[x]
<1>1. PICK p : p = prog[e] /\ p \in Seq(Calls) /\ p # <<>> /\ CloseIsLast(p)
  BY Zenon DEF TypeInv
<1>2. PICK c : c = [op |-> "connecting"]
  BY Zenon
<1>3. c \in Calls /\ c.op # "close"
  BY <1>2 DEF Calls
<1>4. PICK t : t = [p EXCEPT ![1] = c]
  BY Zenon
<1>5. prog' = [prog EXCEPT ![e] = t]
  BY <1>1, <1>2, <1>4, Zenon
<1>6. /\ t \in Seq(Calls) /\ Len(t) = Len(p) /\ DOMAIN t = DOMAIN p
      /\ t[1] = c /\ \A i \in DOMAIN p : i # 1 => t[i] = p[i]
  BY <1>1, <1>3, <1>4
<1>7. CloseIsLast(t)
  BY <1>1, <1>3, <1>6, Zenon DEF CloseIsLast
<1>8. prog \in [Ends -> Seq(Calls)]
  BY Zenon DEF TypeInv
<1> QED
  BY <1>5, <1>6, <1>7, <1>8, Zenon

\* The socket stays as it is.
LEMMA SameSock ==
  ASSUME TypeInv, NEW e \in Ends, UNCHANGED sock
  PROVE  SetSock(e, sock[e])
<1>1. sock \in [Ends -> Sockets]
  BY Zenon DEF TypeInv
<1> QED
  BY <1>1 DEF SetSock

\* The same of the calls and the bytes yet to be sent.
LEMMA SameLeft ==
  ASSUME TypeInv, NEW e \in Ends, UNCHANGED left
  PROVE  left' \in [Ends -> Nat] /\ \A x \in Ends \ {e} : left'[x] = left[x]
BY Zenon DEF TypeInv


\* The SYN.
LEMMA SynType ==
  ASSUME TypeInv
  PROVE  Syn \in Segments
<1>1. Client \in Ends /\ Server \in Ends
  BY Zenon DEF Ends
<1>2. sock[Client] \in Sockets
  BY <1>1, EndTypes
<1>3. Server \in Ends /\ sock[Client].send_seq \in Seqs /\ 0 \in Seqs /\ {"SYN"} \in Flags /\ <<>> \in Seq(Nat)
  BY <1>1, <1>2, SpaceFacts DEF Sockets, Seqs, Flags
<1> QED
  BY <1>3, SegmentIs DEF Syn

\* A first segment of a stream.
LEMMA ConnectType ==
  ASSUME TypeInv, Connect
  PROVE  TypeInv' /\ LocalTo(Client)
<1> DEFINE e == Client
           s == sock[e]
           syn == Segment(Server, s.send_seq, 0, {"SYN"}, <<>>)
           n == [s EXCEPT !.state = "SynSent", !.registered = TRUE,
                   !.send_seq = Add(@, 1), !.retransmit_queue = Track(@, syn)]
<1>1. e \in Ends /\ Server \in Ends
  BY Zenon DEF Ends
<1>2. /\ Typed /\ Kept(e) /\ s \in Sockets
  BY <1>1, EndTypes
<1>3. syn \in Segments
  BY SynType DEF Syn
<1>4. s.state = "Open" /\ SetSock(e, n) /\ net' = net \cup {syn} /\ prog[e] # <<>>
      /\ UNCHANGED <<listening, mss, left, unsent, faults, sent, got>>
      /\ (prog' = [prog EXCEPT ![e][1] = [op |-> "connecting"]] \/ NextCall(e))
  BY Zenon DEF Connect, At, Syn
<1>5. PICK q \in Seq(Tracked) : q = Track(s.retransmit_queue, syn) /\ Len(q) <= TCP_SEND_WINDOW_SEGMENTS
  <2>1. s.retransmit_queue = <<>> /\ s.retransmit_queue \in Seq(Tracked)
    BY <1>2, <1>4 DEF Kept, Windows, Sockets
  <2>2. Len(<<>>) = 0 /\ 0 <= TCP_SEND_WINDOW_SEGMENTS /\ 0 + 1 <= TCP_SEND_WINDOW_SEGMENTS
    BY TcpAssumption
  <2>3. Track(s.retransmit_queue, syn) \in Seq(Tracked) /\ Len(Track(s.retransmit_queue, syn)) = 0 + 1
    BY <2>1, <2>2, <1>3, TrackIs
  <2> QED
    BY <2>2, <2>3, Zenon
<1>6. PICK ss \in Seqs : ss = Add(s.send_seq, 1)
  <2>1. s.send_seq \in Seqs
    BY <1>2 DEF Sockets
  <2> QED
    BY <2>1, AddType
<1>7. n = [s EXCEPT !.state = "SynSent", !.registered = TRUE, !.send_seq = ss, !.retransmit_queue = q]
  BY <1>5, <1>6, Zenon
<1> HIDE DEF n, syn
<1>8. n \in Sockets /\ Windows(n, unsent[e], sent[e])
  <2>1. "SynSent" \in States /\ "SynSent" \in Unfinished
    BY DEF States, Unfinished
  <2>2. Len(q) <= TCP_SEND_WINDOW_SEGMENTS + 1
    BY <1>5, TcpAssumption
  <2> QED
    BY <1>2, <1>5, <1>7, <2>1, <2>2 DEF Sockets, Windows, Kept
<1>9. net' \subseteq Segments /\ listening' \in BOOLEAN /\ failures' \in Nat /\ timeouts' \in Nat
      /\ UNCHANGED <<mss, unsent, sent, got>>
  BY <1>2, <1>3, <1>4, Zenon DEF Typed, faults
<1>10. left' \in [Ends -> Nat] /\ \A x \in Ends \ {e} : left'[x] = left[x]
  BY <1>1, <1>4, SameLeft
<1>11. prog' \in [Ends -> Seq(Calls)] /\ CloseIsLast(prog'[e]) /\ \A x \in Ends \ {e} : prog'[x] = prog[x]
  <2>1. CASE NextCall(e)
    BY <1>1, <1>4, <2>1, NextCallType
  <2>2. CASE prog' = [prog EXCEPT ![e][1] = [op |-> "connecting"]]
    BY <1>1, <1>4, <2>2, WaitCallType
  <2> QED
    BY <1>4, <2>1, <2>2
<1> QED
  BY <1>1, <1>4, <1>8, <1>9, <1>10, <1>11, StepType

\* A SYN that could not be sent.
LEMMA ConnectFailType ==
  ASSUME TypeInv, ConnectFail
  PROVE  TypeInv' /\ LocalTo(Client)
<1> DEFINE e == Client
           s == sock[e]
           n == [s EXCEPT !.state = "SynSent", !.registered = TRUE, !.send_seq = Add(@, 1)]
<1>1. e \in Ends
  BY Zenon DEF Ends
<1>2. /\ Typed /\ Kept(e) /\ s \in Sockets
  BY <1>1, EndTypes
<1>3. Syn \in Segments
  BY SynType
<1>4. s.state = "Open" /\ SetSock(e, n) /\ NextCall(e) /\ prog[e] # <<>>
      /\ failures > 0 /\ failures' = failures - 1
      /\ UNCHANGED <<listening, mss, left, unsent, timeouts, sent, got>>
      /\ net' \in {net, net \cup {Syn}}
  BY Zenon DEF ConnectFail, At, Queued
<1>5. s.retransmit_queue = <<>> /\ Len(s.retransmit_queue) <= TCP_SEND_WINDOW_SEGMENTS
  <2>1. s.retransmit_queue = <<>>
    BY <1>2, <1>4 DEF Kept, Windows
  <2> QED
    BY <2>1, TcpAssumption
<1>6. PICK ss \in Seqs : ss = Add(s.send_seq, 1)
  <2>1. s.send_seq \in Seqs
    BY <1>2 DEF Sockets
  <2> QED
    BY <2>1, AddType
<1>7. n = [s EXCEPT !.state = "SynSent", !.registered = TRUE, !.send_seq = ss]
  BY <1>6, Zenon
<1> HIDE DEF n
<1>8. n \in Sockets /\ Windows(n, unsent[e], sent[e])
  <2>1. "SynSent" \in States
    BY DEF States
  <2> QED
    BY <1>2, <1>5, <1>7, <2>1 DEF Sockets, Windows, Kept
<1>9. net' \subseteq Segments /\ listening' \in BOOLEAN /\ timeouts' \in Nat
  BY <1>2, <1>3, <1>4, Zenon DEF Typed
<1>10. failures' \in Nat
  BY <1>2, <1>4 DEF Typed
<1>11. left' \in [Ends -> Nat] /\ \A x \in Ends \ {e} : left'[x] = left[x]
  BY <1>1, <1>4, SameLeft
<1> QED
  BY <1>1, <1>4, <1>8, <1>9, <1>10, <1>11, CallType

\* Calls that only return.
LEMMA ReturnType ==
  ASSUME TypeInv, NEW e \in Ends, prog[e] # <<>>, NextCall(e), listening' \in BOOLEAN,
         UNCHANGED <<sock, net, mss, left, unsent, faults, sent, got>>
  PROVE  TypeInv' /\ LocalTo(e) /\ sock'[e] = sock[e]
<1>1. /\ Typed /\ Kept(e) /\ sock[e] \in Sockets
  BY EndTypes
<1>2. SetSock(e, sock[e])
  BY SameSock
<1>3. net' \subseteq Segments /\ failures' \in Nat /\ timeouts' \in Nat
  BY <1>1, Zenon DEF Typed, faults
<1>4. left' \in [Ends -> Nat] /\ \A x \in Ends \ {e} : left'[x] = left[x]
  BY SameLeft
<1>5. Windows(sock[e], unsent[e], sent[e])
  BY <1>1, Zenon DEF Kept
<1> QED
  BY <1>1, <1>2, <1>3, <1>4, <1>5, CallType

\* Only the calls of e go on.
LEMMA BlankType ==
  ASSUME TypeInv, NEW e \in Ends, NEW s \in Sockets, SetSock(e, s),
         Windows(s, unsent[e], sent[e]), left' = [left EXCEPT ![e] = 0], timeouts' \in Nat,
         UNCHANGED <<listening, net, mss, prog, unsent, failures, sent, got>>
  PROVE  TypeInv' /\ LocalTo(e) /\ sock'[e] = s
<1>1. Typed /\ Kept(e)
  BY EndTypes
<1>2. sock' \in [Ends -> Sockets] /\ sock'[e] = s /\ \A x \in Ends \ {e} : sock'[x] = sock[x]
  BY SetType
<1>3. left' \in [Ends -> Nat] /\ \A x \in Ends \ {e} : left'[x] = left[x]
  BY <1>1 DEF Typed
<1>4. Typed'
  BY <1>1, <1>2, <1>3, Zenon DEF Typed
<1>5. LocalTo(e) /\ Kept(e)'
  BY <1>1, <1>2, <1>3, Zenon DEF LocalTo, Kept
<1> QED
  BY <1>2, <1>4, <1>5, LocalType

\* connect gives up.
LEMMA ConnectTimeoutType ==
  ASSUME TypeInv, ConnectTimeout
  PROVE  TypeInv' /\ LocalTo(Client)
<1> DEFINE e == Client
           s == sock[e]
           n == [s EXCEPT !.state = "Closed", !.registered = FALSE, !.so_error = "ETIMEDOUT"]
<1>1. e \in Ends
  BY Zenon DEF Ends
<1>2. /\ Typed /\ Kept(e) /\ s \in Sockets
  BY <1>1, EndTypes
<1>3. SetSock(e, n) /\ timeouts > 0 /\ timeouts' = timeouts - 1 /\ prog[e] # <<>> /\ NextCall(e)
      /\ UNCHANGED <<listening, net, mss, left, unsent, failures, sent, got>>
  BY Zenon DEF ConnectTimeout, At
<1>4. n \in Sockets /\ Windows(n, unsent[e], sent[e])
  BY <1>2 DEF Sockets, Windows, Kept, States, Errors, Unfinished
<1>5. net' \subseteq Segments /\ listening' \in BOOLEAN /\ failures' \in Nat /\ timeouts' \in Nat
  BY <1>2, <1>3 DEF Typed
<1>6. left' \in [Ends -> Nat] /\ \A x \in Ends \ {e} : left'[x] = left[x]
  BY <1>1, <1>3, SameLeft
<1> HIDE DEF n
<1> QED
  BY <1>1, <1>3, <1>4, <1>5, <1>6, CallType

\* connect returns; it may take the error of the socket.
LEMMA ConnectDoneType ==
  ASSUME TypeInv, ConnectDone
  PROVE  /\ TypeInv' /\ LocalTo(Client)
         /\ sock'[Client] \in {sock[Client], [sock[Client] EXCEPT !.so_error = "none"]}
<1> DEFINE e == Client
           s == sock[e]
<1>1. e \in Ends
  BY Zenon DEF Ends
<1>2. /\ Typed /\ Kept(e) /\ s \in Sockets
  BY <1>1, EndTypes
<1>3. PICK n \in {s, [s EXCEPT !.so_error = "none"]} : SetSock(e, n)
  BY Zenon DEF ConnectDone
<1>4. prog[e] # <<>> /\ NextCall(e)
      /\ UNCHANGED <<listening, net, mss, left, unsent, faults, sent, got>>
  BY Zenon DEF ConnectDone, At
<1>5. n \in Sockets /\ Windows(n, unsent[e], sent[e])
  BY <1>2 DEF Sockets, Windows, Kept, Errors
<1>6. net' \subseteq Segments /\ listening' \in BOOLEAN /\ failures' \in Nat /\ timeouts' \in Nat
  BY <1>2, <1>4, Zenon DEF Typed, faults
<1>7. left' \in [Ends -> Nat] /\ \A x \in Ends \ {e} : left'[x] = left[x]
  BY <1>1, <1>4, SameLeft
<1>8. TypeInv' /\ LocalTo(e) /\ sock'[e] = n
  BY <1>1, <1>3, <1>4, <1>5, <1>6, <1>7, CallType
<1> QED
  BY <1>8, Zenon

\* A send begins.
LEMMA SendBeginType ==
  ASSUME TypeInv, NEW e \in Ends, SendBegin(e)
  PROVE  TypeInv' /\ LocalTo(e) /\ sock'[e] = sock[e]
<1>1. /\ Typed /\ Kept(e) /\ sock[e] \in Sockets /\ prog[e] \in Seq(Calls)
  BY EndTypes
<1>2. prog[e] # <<>> /\ Head(prog[e]).op = "send" /\ NextCall(e)
      /\ left' = [left EXCEPT ![e] = Head(prog[e]).n]
      /\ UNCHANGED <<sock, listening, net, mss, unsent, faults, sent, got>>
  BY Zenon DEF SendBegin, At
<1>3. Head(prog[e]) \in Calls
  BY <1>1, <1>2
<1>4. Head(prog[e]).n \in Nat
  BY <1>2, <1>3 DEF Calls
<1>5. SetSock(e, sock[e])
  BY <1>2, SameSock
<1>6. left' \in [Ends -> Nat] /\ \A x \in Ends \ {e} : left'[x] = left[x]
  BY <1>1, <1>2, <1>4 DEF Typed
<1>7. net' \subseteq Segments /\ listening' \in BOOLEAN /\ failures' \in Nat /\ timeouts' \in Nat
      /\ UNCHANGED <<mss, unsent, sent, got>> /\ Windows(sock[e], unsent[e], sent[e])
  BY <1>1, <1>2, Zenon DEF Typed, faults, Kept
<1> QED
  BY <1>1, <1>2, <1>5, <1>6, <1>7, CallType

\* A send on a connection that can no longer send.
LEMMA SendRefusedType ==
  ASSUME TypeInv, NEW e \in Ends, SendRefused(e)
  PROVE  TypeInv' /\ LocalTo(e) /\ sock'[e] = [sock[e] EXCEPT !.so_error = "none"]
<1> DEFINE n == [sock[e] EXCEPT !.so_error = "none"]
<1>1. /\ Typed /\ Kept(e) /\ sock[e] \in Sockets
  BY EndTypes
<1>2. SetSock(e, n) /\ UNCHANGED <<listening, net, mss, unsent, faults, sent, got>>
  BY Zenon DEF SendRefused
<1>3. n \in Sockets /\ Windows(n, unsent[e], sent[e])
  BY <1>1 DEF Sockets, Windows, Kept, Errors
<1>4. \/ prog[e] # <<>> /\ NextCall(e) /\ UNCHANGED left
      \/ left' = [left EXCEPT ![e] = 0] /\ UNCHANGED prog
  BY Zenon DEF SendRefused, At
<1> HIDE DEF n
<1>5. net' \subseteq Segments /\ listening' \in BOOLEAN /\ failures' \in Nat /\ timeouts' \in Nat
      /\ UNCHANGED <<mss, unsent, timeouts, failures, sent, got>>
  BY <1>1, <1>2, Zenon DEF Typed, faults
<1>6. CASE prog[e] # <<>> /\ NextCall(e) /\ UNCHANGED left
  <2>1. left' \in [Ends -> Nat] /\ \A x \in Ends \ {e} : left'[x] = left[x]
    BY <1>6, SameLeft
  <2>2. TypeInv' /\ LocalTo(e) /\ sock'[e] = n
    BY <1>2, <1>3, <1>5, <1>6, <2>1, CallType
  <2> QED
    BY <2>2 DEF n
<1>7. CASE left' = [left EXCEPT ![e] = 0] /\ UNCHANGED prog
  <2>1. UNCHANGED <<listening, net, mss, prog, unsent, failures, sent, got>>
    BY <1>2, <1>5, <1>7, Zenon
  <2>2. TypeInv' /\ LocalTo(e) /\ sock'[e] = n
    BY <1>2, <1>3, <1>5, <1>7, <2>1, BlankType
  <2> QED
    BY <2>2 DEF n
<1> QED
  BY <1>4, <1>6, <1>7

\* A send gives up on a full window.
LEMMA SendTimeoutType ==
  ASSUME TypeInv, NEW e \in Ends, SendTimeout(e)
  PROVE  TypeInv' /\ LocalTo(e) /\ sock'[e] = sock[e]
<1>1. /\ Typed /\ Kept(e) /\ sock[e] \in Sockets
  BY EndTypes
<1>2. timeouts > 0 /\ timeouts' = timeouts - 1 /\ left' = [left EXCEPT ![e] = 0]
      /\ UNCHANGED <<sock, listening, net, mss, prog, unsent, failures, sent, got>>
  BY Zenon DEF SendTimeout
<1>3. timeouts' \in Nat
  BY <1>1, <1>2 DEF Typed
<1>4. SetSock(e, sock[e]) /\ Windows(sock[e], unsent[e], sent[e])
  BY <1>1, <1>2, SameSock DEF Kept
<1> QED
  BY <1>1, <1>2, <1>3, <1>4, BlankType

\* The segment that send_tracked makes.
LEMMA NewSegment ==
  ASSUME TypeInv, NEW e \in Ends, NEW take \in Nat
  PROVE  LET s == sock[e]
             g == Segment(Peer(e), s.send_seq, s.recv_seq, {"ACK"}, [i \in 1..take |-> sent[e] + i])
         IN /\ g \in Segments /\ g.to = Peer(e) /\ g.seq = s.send_seq /\ g.ack = s.recv_seq
            /\ g.flags = {"ACK"} /\ Len(g.data) = take /\ DOMAIN g.data = 1..take
            /\ \A i \in 1..take : g.data[i] = sent[e] + i
            /\ SegmentEndSeq(g) = Add(s.send_seq, take) /\ SegmentEndSeq(g) \in Seqs
<1> DEFINE s == sock[e]
           d == [i \in 1..take |-> sent[e] + i]
           g == Segment(Peer(e), s.send_seq, s.recv_seq, {"ACK"}, d)
<1>1. s \in Sockets /\ sent[e] \in Nat
  BY EndTypes
<1>2. Peer(e) \in Ends /\ s.send_seq \in Seqs /\ s.recv_seq \in Seqs /\ {"ACK"} \in Flags
  BY <1>1, PeerFacts DEF Sockets, Flags
<1>3. d \in Seq(Nat) /\ Len(d) = take /\ \A i \in 1..take : d[i] = sent[e] + i
  BY <1>1
<1>4. DOMAIN d = 1..take
  BY Zenon
<1> HIDE DEF d
<1>5. g \in Segments /\ g.to = Peer(e) /\ g.seq = s.send_seq /\ g.ack = s.recv_seq
      /\ g.flags = {"ACK"} /\ g.data = d
  BY <1>2, <1>3, SegmentIs
<1>6. SegmentEndSeq(g) \in Seqs /\ SegmentEndSeq(g) = Add(g.seq, Len(g.data))
  BY <1>5, EndType, Zenon
<1> HIDE DEF g, s
<1>7. SegmentEndSeq(g) = Add(s.send_seq, take)
  BY <1>3, <1>5, <1>6, Zenon
<1> QED
  BY <1>3, <1>4, <1>5, <1>6, <1>7, Zenon DEF g, s, d

\* What send_tracked does, with its segment g of some length.
Tracks(e, g, take, n) ==
  /\ take \in Nat \ {0} /\ take <= left[e]
  /\ g \in Segments /\ g.to = Peer(e) /\ g.seq = sock[e].send_seq /\ g.ack = sock[e].recv_seq
  /\ g.flags = {"ACK"} /\ Len(g.data) = take /\ DOMAIN g.data = 1..take
  /\ \A i \in 1..take : g.data[i] = sent[e] + i
  /\ n = [sock[e] EXCEPT !.send_seq = Add(sock[e].send_seq, take),
                         !.retransmit_queue = Track(sock[e].retransmit_queue, g)]
  /\ SetSock(e, n)
  /\ sending' = [sending EXCEPT ![e] = g]
  /\ unsent' = [unsent EXCEPT ![e] = g]
  /\ left' = [left EXCEPT ![e] = left[e] - take]
  /\ sent' = [sent EXCEPT ![e] = sent[e] + take]

\* SendTrack, with its segment, length and socket named.
LEMMA SendTrackIs ==
  ASSUME TypeInv, NEW e \in Ends, SendTrack(e)
  PROVE  \E g, take, n : Tracks(e, g, take, n)
<1> DEFINE s == sock[e]
           take == Min({mss, left[e]})
           g == Segment(Peer(e), s.send_seq, s.recv_seq, {"ACK"}, [i \in 1..take |-> sent[e] + i])
           n == [s EXCEPT !.send_seq = SegmentEndSeq(g), !.retransmit_queue = Track(@, g)]
<1>1. take \in Nat \ {0} /\ take <= left[e]
  <2>1. mss \in Nat \ {0} /\ left[e] \in Nat
    BY EndTypes DEF Typed
  <2>2. left[e] > 0
    BY Zenon DEF SendTrack
  <2>3. take = IF mss <= left[e] THEN mss ELSE left[e]
    BY <2>1, MinTwo
  <2> QED
    BY <2>1, <2>2, <2>3
<1>2. /\ SetSock(e, n) /\ unsent' = [unsent EXCEPT ![e] = g] /\ sending' = [sending EXCEPT ![e] = g]
      /\ left' = [left EXCEPT ![e] = @ - take] /\ sent' = [sent EXCEPT ![e] = @ + take]
  BY Zenon DEF SendTrack
<1> HIDE DEF take
<1>3. /\ g \in Segments /\ g.to = Peer(e) /\ g.seq = s.send_seq /\ g.ack = s.recv_seq
      /\ g.flags = {"ACK"} /\ Len(g.data) = take /\ DOMAIN g.data = 1..take
      /\ \A i \in 1..take : g.data[i] = sent[e] + i
      /\ SegmentEndSeq(g) = Add(s.send_seq, take)
  BY <1>1, NewSegment
<1> HIDE DEF g
<1>4. n = [sock[e] EXCEPT !.send_seq = Add(sock[e].send_seq, take),
                          !.retransmit_queue = Track(sock[e].retransmit_queue, g)]
  BY <1>3, Zenon
<1> HIDE DEF n
<1>5. Tracks(e, g, take, n)
  BY <1>1, <1>2, <1>3, <1>4, Zenon DEF Tracks
<1> QED
  BY <1>5, Zenon

\* The segment joins a queue that is not full.
LEMMA SendTrackType ==
  ASSUME TypeInv, NEW e \in Ends, SendTrack(e)
  PROVE  TypeInv' /\ LocalTo(e)
<1>1. /\ Typed /\ Kept(e) /\ sock[e] \in Sockets /\ sent[e] \in Nat /\ left[e] \in Nat
  BY EndTypes
<1>2. PICK g, take, n : Tracks(e, g, take, n)
  BY SendTrackIs, Zenon
<1>3. take \in Nat \ {0} /\ g \in Segments /\ take <= left[e] /\ Len(g.data) = take
  BY <1>2, Zenon DEF Tracks
<1>4. CanSend(sock[e]) /\ Len(sock[e].retransmit_queue) < TCP_SEND_WINDOW_SEGMENTS
      /\ UNCHANGED <<listening, net, mss, prog, faults, got>>
  BY Zenon DEF SendTrack
<1>5. PICK q \in Seq(Tracked) : q = Track(sock[e].retransmit_queue, g) /\ Len(q) <= TCP_SEND_WINDOW_SEGMENTS
  <2>1. PICK k \in Nat : k = Len(sock[e].retransmit_queue) /\ sock[e].retransmit_queue \in Seq(Tracked)
    BY <1>1 DEF Sockets
  <2>2. k <= TCP_SEND_WINDOW_SEGMENTS /\ k + 1 <= TCP_SEND_WINDOW_SEGMENTS
    BY <2>1, <1>4, TcpAssumption
  <2> QED
    BY <2>1, <2>2, <1>3, TrackIs
<1>6. PICK ss \in Seqs : ss = Add(sock[e].send_seq, take)
  <2>1. sock[e].send_seq \in Seqs /\ take \in Int
    BY <1>1, <1>3 DEF Sockets
  <2> QED
    BY <2>1, AddType
<1>7. n = [sock[e] EXCEPT !.send_seq = ss, !.retransmit_queue = q]
  BY <1>2, <1>5, <1>6, Zenon DEF Tracks
<1>8. take <= sent[e] + take /\ sent[e] + take \in Nat /\ left[e] - take \in Nat
  BY <1>1, <1>3
<1>9. n \in Sockets /\ Windows(n, g, sent[e] + take)
  <2>1. Len(q) <= TCP_SEND_WINDOW_SEGMENTS + 1
    BY <1>5, TcpAssumption
  <2>2. n.state # "Open"
    BY <1>1, <1>4, <1>7 DEF CanSend, Sockets
  <2> QED
    BY <1>1, <1>3, <1>5, <1>7, <1>8, <2>1, <2>2 DEF Sockets, Windows, Kept
<1>10. sock' \in [Ends -> Sockets] /\ sock'[e] = n /\ \A x \in Ends \ {e} : sock'[x] = sock[x]
  <2>1. SetSock(e, n)
    BY <1>2, Zenon DEF Tracks
  <2> QED
    BY <1>9, <2>1, SetType
<1>11. /\ unsent' = [unsent EXCEPT ![e] = g] /\ left' = [left EXCEPT ![e] = left[e] - take]
       /\ sent' = [sent EXCEPT ![e] = sent[e] + take]
  BY <1>2, Zenon DEF Tracks
<1>12. /\ unsent' \in [Ends -> Segments] /\ unsent'[e] = g /\ \A x \in Ends \ {e} : unsent'[x] = unsent[x]
       /\ left' \in [Ends -> Nat] /\ \A x \in Ends \ {e} : left'[x] = left[x]
       /\ sent' \in [Ends -> Nat] /\ sent'[e] = sent[e] + take /\ \A x \in Ends \ {e} : sent'[x] = sent[x]
  BY <1>1, <1>3, <1>8, <1>11 DEF Typed
<1>13. Typed'
  BY <1>1, <1>4, <1>10, <1>12, Zenon DEF Typed, faults
<1>14. LocalTo(e) /\ Kept(e)'
  BY <1>1, <1>4, <1>9, <1>10, <1>12, Zenon DEF LocalTo, Kept
<1> QED
  BY <1>13, <1>14, LocalType

\* The segment has left.
LEMMA SendOkType ==
  ASSUME TypeInv, SendingInv, NEW e \in Ends, SendOk(e)
  PROVE  TypeInv' /\ LocalTo(e) /\ sock'[e] = sock[e]
<1>1. /\ Typed /\ Kept(e) /\ sending[e] \in Segments
  BY EndTypes DEF SendingInv
<1>2. net' = net \cup {sending[e]} /\ unsent' = [unsent EXCEPT ![e] = NoSegment]
      /\ UNCHANGED <<sock, listening, mss, prog, left, faults, sent, got>>
  BY Zenon DEF SendOk, SendReturns
<1>3. unsent' \in [Ends -> Segments] /\ unsent'[e] = NoSegment
      /\ \A x \in Ends \ {e} : unsent'[x] = unsent[x]
  BY <1>1, <1>2, NoSegmentIs DEF Typed
<1>4. Windows(sock[e], NoSegment, sent[e])
  <2>1. Len(NoSegment.data) <= sent[e]
    BY NoSegmentIs, EndTypes
  <2> QED
    BY <1>1, <2>1, Zenon DEF Kept, Windows
<1>5. Typed'
  BY <1>1, <1>2, <1>3, Zenon DEF Typed, faults
<1>6. LocalTo(e) /\ Kept(e)'
  BY <1>1, <1>2, <1>3, <1>4, Zenon DEF LocalTo, Kept
<1> QED
  BY <1>2, <1>5, <1>6, LocalType, Zenon

\* The socket after a failed send.
FailedSock(s, g) == [s EXCEPT !.send_seq = RolledBack(s, g), !.retransmit_queue = Untrack(@, g.seq)]

\* The segment did not leave: untracking shortens the queue.
LEMMA SendFailType ==
  ASSUME TypeInv, SendingInv, NEW e \in Ends, SendFail(e)
  PROVE  /\ TypeInv' /\ LocalTo(e) /\ sock'[e] = FailedSock(sock[e], sending[e])
         /\ unsent'[e] = NoSegment /\ sent'[e] = sent[e] - Len(sending[e].data)
         /\ got'[e] = got[e] /\ prog'[e] = prog[e]
<1> DEFINE s == sock[e]
           g == sending[e]
           n == FailedSock(s, g)
<1>1. /\ Typed /\ Kept(e) /\ s \in Sockets /\ g \in Segments /\ sent[e] \in Nat
  BY EndTypes DEF SendingInv
<1>2. /\ SetSock(e, n) /\ failures > 0 /\ failures' = failures - 1
      /\ sent' = [sent EXCEPT ![e] = @ - Len(g.data)]
      /\ unsent' = [unsent EXCEPT ![e] = NoSegment] /\ left' = [left EXCEPT ![e] = 0]
      /\ UNCHANGED <<listening, mss, prog, timeouts, got>>
      /\ net' \in {net, net \cup {g}}
  BY Zenon DEF SendFail, SendReturns, FailedSock, Queued
<1>3. PICK q \in Seq(Tracked) : q = Untrack(s.retransmit_queue, g.seq) /\ Len(q) <= Len(s.retransmit_queue)
  <2>1. s.retransmit_queue \in Seq(Tracked)
    BY <1>1 DEF Sockets
  <2>2. Fewer(Untrack(s.retransmit_queue, g.seq), s.retransmit_queue)
    BY <2>1, UntrackIs
  <2> QED
    BY <2>2, Zenon DEF Fewer
<1>4. PICK ss \in Seqs : ss = RolledBack(s, g)
  <2>1. s.send_seq \in Seqs /\ g.seq \in Seqs
    BY <1>1 DEF Sockets, Segments
  <2> QED
    BY <2>1, Zenon DEF RolledBack
<1>5. n = [s EXCEPT !.send_seq = ss, !.retransmit_queue = q]
  BY <1>3, <1>4, Zenon DEF FailedSock
<1> HIDE DEF n
<1>6. sent[e] - Len(g.data) \in Nat
  <2>1. Len(g.data) \in Nat /\ Len(g.data) <= sent[e]
    BY <1>1 DEF SendingInv, Segments
  <2> QED
    BY <1>1, <2>1
<1>7. n \in Sockets /\ Windows(n, NoSegment, sent[e] - Len(g.data))
  <2>1. PICK k \in Nat, l \in Nat : k = Len(q) /\ l = Len(s.retransmit_queue) /\ k <= l
    BY <1>1, <1>3 DEF Sockets
  <2>2. Len(NoSegment.data) <= sent[e] - Len(g.data)
    BY <1>6, NoSegmentIs
  <2>3. n \in Sockets /\ n.state = s.state /\ n.retransmit_queue = q /\ n.out_of_order_queue = s.out_of_order_queue
    BY <1>1, <1>5 DEF Sockets
  <2>4. s.state = "Open" => q = <<>>
    <3>1. s.state = "Open" => l = 0
      BY <1>1, <2>1 DEF Kept, Windows
    <3>2. l = 0 => k = 0
      BY <2>1
    <3> QED
      BY <2>1, <3>1, <3>2, EmptySeq
  <2>5. /\ k <= TCP_SEND_WINDOW_SEGMENTS + 1
        /\ s.state \in Unfinished => k <= TCP_SEND_WINDOW_SEGMENTS
    <3>1. /\ l <= TCP_SEND_WINDOW_SEGMENTS + 1
          /\ s.state \in Unfinished => l <= TCP_SEND_WINDOW_SEGMENTS
      BY <1>1, <2>1, Zenon DEF Kept, Windows
    <3> QED
      BY <2>1, <3>1, TcpAssumption
  <2> QED
    BY <1>1, <2>1, <2>2, <2>3, <2>4, <2>5, Zenon DEF Windows, Kept
<1>8. sock' \in [Ends -> Sockets] /\ sock'[e] = n /\ \A x \in Ends \ {e} : sock'[x] = sock[x]
  BY <1>2, <1>7, SetType
<1>9. /\ unsent' \in [Ends -> Segments] /\ unsent'[e] = NoSegment /\ \A x \in Ends \ {e} : unsent'[x] = unsent[x]
      /\ left' \in [Ends -> Nat] /\ \A x \in Ends \ {e} : left'[x] = left[x]
      /\ sent' \in [Ends -> Nat] /\ sent'[e] = sent[e] - Len(g.data) /\ \A x \in Ends \ {e} : sent'[x] = sent[x]
  BY <1>1, <1>2, <1>6, NoSegmentIs DEF Typed
<1>10. failures' \in Nat
  BY <1>1, <1>2 DEF Typed
<1>11. Typed'
  BY <1>1, <1>2, <1>8, <1>9, <1>10, Zenon DEF Typed
<1>12. LocalTo(e) /\ Kept(e)'
  BY <1>1, <1>2, <1>7, <1>8, <1>9, Zenon DEF LocalTo, Kept
<1> QED
  BY <1>2, <1>8, <1>9, <1>11, <1>12, LocalType, Zenon DEF n

\* A read empties the receive queue.
LEMMA ReadSomeType ==
  ASSUME TypeInv, NEW e \in Ends, ReadSome(e)
  PROVE  /\ TypeInv' /\ LocalTo(e) /\ sock'[e] = [sock[e] EXCEPT !.receive_queue = <<>>]
         /\ unsent'[e] = unsent[e] /\ sent'[e] = sent[e] /\ prog'[e] = prog[e]
         /\ got'[e] = got[e] \o sock[e].receive_queue
<1> DEFINE s == sock[e]
           n == [s EXCEPT !.receive_queue = <<>>]
<1>1. /\ Typed /\ Kept(e) /\ s \in Sockets /\ got[e] \in Seq(Nat)
  BY EndTypes
<1>2. /\ got' = [got EXCEPT ![e] = @ \o s.receive_queue] /\ SetSock(e, n)
      /\ UNCHANGED <<listening, net, mss, appVars, faults, sent>>
  BY Zenon DEF ReadSome
<1>3. n \in Sockets /\ Windows(n, unsent[e], sent[e])
  <2>1. <<>> \in Seq(Nat)
    OBVIOUS
  <2> QED
    BY <1>1, <2>1 DEF Sockets, Windows, Kept
<1>4. got[e] \o s.receive_queue \in Seq(Nat)
  BY <1>1 DEF Sockets
<1>5. got' \in [Ends -> Seq(Nat)] /\ got'[e] = got[e] \o s.receive_queue /\ \A x \in Ends \ {e} : got'[x] = got[x]
  BY <1>1, <1>2, <1>4, Zenon DEF Typed
<1> HIDE DEF n
<1>6. sock' \in [Ends -> Sockets] /\ sock'[e] = n /\ \A x \in Ends \ {e} : sock'[x] = sock[x]
  BY <1>2, <1>3, SetType
<1>7. Typed'
  BY <1>1, <1>2, <1>5, <1>6, Zenon DEF Typed, appVars, faults
<1>8. LocalTo(e) /\ Kept(e)'
  BY <1>1, <1>2, <1>3, <1>5, <1>6, Zenon DEF LocalTo, Kept, appVars
<1> QED
  BY <1>2, <1>5, <1>6, <1>7, <1>8, LocalType, Zenon DEF n, appVars

\* The socket after it has sent its FIN.
FinSock(e, s, new) ==
  [s EXCEPT !.state = new, !.send_seq = Add(@, 1),
            !.retransmit_queue = Track(@, Segment(Peer(e), s.send_seq, s.recv_seq, {"FIN", "ACK"}, <<>>))]

\* The FIN is the one segment that may follow a full window.
LEMMA FinType ==
  ASSUME TypeInv, NEW e \in Ends, NEW new \in {"FinWait1", "LastAck"},
         sock[e].state \in {"Established", "CloseWait"}
  PROVE  /\ FinSock(e, sock[e], new) \in Sockets
         /\ Windows(FinSock(e, sock[e], new), unsent[e], sent[e])
         /\ Segment(Peer(e), sock[e].send_seq, sock[e].recv_seq, {"FIN", "ACK"}, <<>>) \in Segments
         /\ Len(sock[e].retransmit_queue) <= TCP_SEND_WINDOW_SEGMENTS
         /\ Add(sock[e].send_seq, 1) \in Seqs
<1> DEFINE s == sock[e]
           fin == Segment(Peer(e), s.send_seq, s.recv_seq, {"FIN", "ACK"}, <<>>)
           n == FinSock(e, s, new)
<1>1. /\ Typed /\ Kept(e) /\ s \in Sockets
  BY EndTypes
<1>2. Peer(e) \in Ends /\ s.send_seq \in Seqs /\ s.recv_seq \in Seqs /\ {"FIN", "ACK"} \in Flags
      /\ <<>> \in Seq(Nat) /\ s.retransmit_queue \in Seq(Tracked)
  BY <1>1, PeerFacts DEF Sockets, Flags
<1>3. fin \in Segments
  BY <1>2, SegmentIs
<1>4. Len(s.retransmit_queue) <= TCP_SEND_WINDOW_SEGMENTS
  BY <1>1 DEF Kept, Windows, Unfinished
<1> HIDE DEF fin
<1>5. PICK q \in Seq(Tracked) : q = Track(s.retransmit_queue, fin) /\ Len(q) <= TCP_SEND_WINDOW_SEGMENTS + 1
  <2>1. PICK k \in Nat : k = Len(s.retransmit_queue)
    BY <1>2
  <2>2. k + 1 <= TCP_SEND_WINDOW_SEGMENTS + 1
    BY <1>4, <2>1, TcpAssumption
  <2> QED
    BY <2>1, <2>2, <1>2, <1>3, <1>4, TrackIs
<1>6. PICK ss \in Seqs : ss = Add(s.send_seq, 1)
  BY <1>2, AddType
<1>7. n = [s EXCEPT !.state = new, !.send_seq = ss, !.retransmit_queue = q]
  BY <1>5, <1>6, Zenon DEF FinSock, fin
<1> HIDE DEF n
<1>8. n \in Sockets /\ Windows(n, unsent[e], sent[e])
  <2>1. new \in States /\ new \notin Unfinished /\ new # "Open"
    BY DEF States, Unfinished
  <2> QED
    BY <1>1, <1>5, <1>7, <2>1 DEF Sockets, Windows, Kept
<1> QED
  BY <1>3, <1>4, <1>6, <1>8, Zenon DEF n, fin

\* A FIN is sent.
LEMMA SendFinType ==
  ASSUME TypeInv, NEW e \in Ends, NEW new \in {"FinWait1", "LastAck"},
         sock[e].state \in {"Established", "CloseWait"}, SendFin(e, new),
         prog[e] # <<>>, NextCall(e), UNCHANGED <<listening, mss, left, unsent, faults, sent, got>>
  PROVE  TypeInv' /\ LocalTo(e) /\ sock'[e] = FinSock(e, sock[e], new)
<1> DEFINE fin == Segment(Peer(e), sock[e].send_seq, sock[e].recv_seq, {"FIN", "ACK"}, <<>>)
           n == FinSock(e, sock[e], new)
<1>1. Typed
  BY EndTypes
<1>2. n \in Sockets /\ Windows(n, unsent[e], sent[e]) /\ fin \in Segments
  BY FinType
<1>3. SetSock(e, n) /\ net' = net \cup {fin}
  BY Zenon DEF SendFin, FinSock
<1> HIDE DEF n, fin
<1>4. net' \subseteq Segments /\ listening' \in BOOLEAN /\ failures' \in Nat /\ timeouts' \in Nat
      /\ UNCHANGED <<mss, unsent, sent, got>>
  BY <1>1, <1>2, <1>3, Zenon DEF Typed, faults
<1>5. left' \in [Ends -> Nat] /\ \A x \in Ends \ {e} : left'[x] = left[x]
  BY SameLeft
<1>6. TypeInv' /\ LocalTo(e) /\ sock'[e] = n
  BY <1>2, <1>3, <1>4, <1>5, CallType
<1> QED
  BY <1>6, Zenon DEF n

\* shutdown, by the state it finds.
LEMMA ShutdownType ==
  ASSUME TypeInv, NEW e \in Ends, Shutdown(e)
  PROVE  /\ TypeInv' /\ LocalTo(e)
         /\ sock'[e] = IF sock[e].state = "Established" THEN FinSock(e, sock[e], "FinWait1") ELSE sock[e]
<1>1. /\ prog[e] # <<>> /\ NextCall(e) /\ UNCHANGED <<listening, mss, left, unsent, faults, sent, got>>
      /\ IF sock[e].state = "Established" THEN SendFin(e, "FinWait1") ELSE UNCHANGED <<sock, net>>
  BY Zenon DEF Shutdown, At
<1>2. listening' \in BOOLEAN
  BY <1>1, Zenon DEF TypeInv
<1>3. CASE sock[e].state = "Established"
  BY <1>1, <1>3, SendFinType
<1>4. CASE sock[e].state # "Established"
  BY <1>1, <1>2, <1>4, ReturnType
<1> QED
  BY <1>3, <1>4

\* The socket after a close that ends it.
EndedSock(s) ==
  [s EXCEPT !.state = "Closed", !.registered = FALSE,
            !.receive_queue = <<>>, !.out_of_order_queue = <<>>,
            !.retransmit_queue = <<>>, !.pending_fin_seq = NoFin]

\* close, by the state it finds.
LEMMA CloseType ==
  ASSUME TypeInv, NEW e \in Ends, Close(e)
  PROVE  /\ TypeInv' /\ LocalTo(e)
         /\ sock'[e] = IF sock[e].state = "Established" THEN FinSock(e, sock[e], "FinWait1")
                       ELSE IF sock[e].state = "CloseWait" THEN FinSock(e, sock[e], "LastAck")
                       ELSE IF sock[e].state = "Closed" THEN sock[e] ELSE EndedSock(sock[e])
<1> DEFINE s == sock[e]
<1>1. /\ prog[e] # <<>> /\ NextCall(e) /\ UNCHANGED <<listening, mss, left, unsent, faults, sent, got>>
      /\ IF s.state = "Established" THEN SendFin(e, "FinWait1")
         ELSE IF s.state = "CloseWait" THEN SendFin(e, "LastAck")
         ELSE IF s.state = "Closed" THEN UNCHANGED <<sock, net>>
         ELSE SetSock(e, EndedSock(s)) /\ UNCHANGED net
  BY Zenon DEF Close, At, EndedSock
<1>2. Typed /\ Kept(e) /\ s \in Sockets
  BY EndTypes
<1>3. listening' \in BOOLEAN
  BY <1>1, <1>2, Zenon DEF Typed
<1>4. CASE s.state = "Established"
  BY <1>1, <1>4, SendFinType
<1>5. CASE s.state = "CloseWait"
  BY <1>1, <1>5, SendFinType
<1>6. CASE s.state = "Closed"
  BY <1>1, <1>3, <1>6, ReturnType
<1>7. CASE s.state \notin {"Established", "CloseWait", "Closed"}
  <2>1. SetSock(e, EndedSock(s)) /\ UNCHANGED net
    BY <1>1, <1>7
  <2>2. EndedSock(s) \in Sockets /\ Windows(EndedSock(s), unsent[e], sent[e])
    <3>1. <<>> \in Seq(Nat) /\ <<>> \in Seq(Pieces) /\ <<>> \in Seq(Tracked) /\ Len(<<>>) = 0
      OBVIOUS
    <3>2. "Closed" \in States /\ "Closed" \notin Unfinished
      BY DEF States, Unfinished
    <3>3. 0 <= TCP_SEND_WINDOW_SEGMENTS + 1 /\ 0 <= TCP_MAX_OUT_OF_ORDER_SEGMENTS
      BY TcpAssumption
    <3> QED
      BY <1>2, <3>1, <3>2, <3>3 DEF Sockets, Windows, EndedSock, Kept
  <2>3. net' \subseteq Segments /\ failures' \in Nat /\ timeouts' \in Nat /\ UNCHANGED <<mss, unsent, sent, got>>
    BY <1>1, <1>2, <2>1, Zenon DEF Typed, faults
  <2>4. left' \in [Ends -> Nat] /\ \A x \in Ends \ {e} : left'[x] = left[x]
    BY <1>1, SameLeft
  <2>5. TypeInv' /\ LocalTo(e) /\ sock'[e] = EndedSock(s)
    BY <1>1, <1>3, <2>1, <2>2, <2>3, <2>4, CallType
  <2> QED
    BY <1>7, <2>5
<1> QED
  BY <1>4, <1>5, <1>6, <1>7

-----------------------------------------------------------------------------
(* Type correctness: reception and retransmission *)

\* A segment comes to an end that is there.
LEMMA NetType ==
  ASSUME TypeInv, NEW m \in net
  PROVE  /\ m \in Segments /\ m.to \in Ends /\ m.seq \in Seqs /\ m.ack \in Seqs
         /\ m.flags \in Flags /\ m.data \in Seq(Nat)
         /\ sock[m.to] \in Sockets /\ Kept(m.to)
         /\ Typed /\ sent[m.to] \in Nat /\ unsent[m.to] \in Segments
<1>1. m \in Segments
  BY Zenon DEF TypeInv
<1>2. m.to \in Ends /\ m.seq \in Seqs /\ m.ack \in Seqs /\ m.flags \in Flags /\ m.data \in Seq(Nat)
  BY <1>1 DEF Segments, Flags
<1> QED
  BY <1>1, <1>2, EndTypes

\* The windows of a socket that changes neither its retransmission queue nor opens.
LEMMA WindowsOf ==
  ASSUME NEW a \in Sockets, NEW n \in Sockets, NEW u, NEW k, Windows(a, u, k),
         n.retransmit_queue = a.retransmit_queue, n.state # "Open",
         n.state \in Unfinished => a.state \in Unfinished,
         Len(n.out_of_order_queue) <= TCP_MAX_OUT_OF_ORDER_SEGMENTS
  PROVE  Windows(n, u, k)
BY Zenon DEF Windows

\* The acknowledgement takes segments from the retransmission queue.
AckedFrom(a, s) ==
  /\ a.state = s.state /\ a.send_seq = s.send_seq /\ a.recv_seq = s.recv_seq
  /\ a.receive_queue = s.receive_queue /\ a.out_of_order_queue = s.out_of_order_queue
  /\ a.so_error = s.so_error /\ a.pending_fin_seq = s.pending_fin_seq
  /\ a.registered = s.registered /\ Fewer(a.retransmit_queue, s.retransmit_queue)

\* Fewer segments fit as well.
LEMMA FewerFits ==
  ASSUME NEW r, NEW q \in Seq(Tracked), Fewer(r, q), NEW k \in Nat, Len(q) <= k
  PROVE  Len(r) <= k /\ (q = <<>> => r = <<>>)
<1>1. PICK x \in Nat, y \in Nat : x = Len(r) /\ y = Len(q) /\ x <= y /\ r \in Seq(Tracked)
  BY DEF Fewer
<1>2. y = 0 => x = 0
  BY <1>1
<1>3. q = <<>> => y = 0
  BY <1>1
<1>4. x = 0 => r = <<>>
  BY <1>1, EmptySeq
<1>5. x <= k
  BY <1>1
<1> QED
  BY <1>1, <1>2, <1>3, <1>4, <1>5

\* The acknowledged socket.
LEMMA AckedIs ==
  ASSUME TypeInv, NEW m \in net
  PROVE  /\ Acked(m) \in Sockets /\ AckedFrom(Acked(m), sock[m.to])
         /\ Windows(Acked(m), unsent[m.to], sent[m.to])
         /\ Acked(m).retransmit_queue =
              IF "ACK" \in m.flags THEN AckRetransmitQueue(sock[m.to].retransmit_queue, m.ack)
                                   ELSE sock[m.to].retransmit_queue
<1> DEFINE s == sock[m.to]
           q == s.retransmit_queue
<1>1. s \in Sockets /\ Kept(m.to)
  BY NetType
<1>2. q \in Seq(Tracked)
  BY <1>1 DEF Sockets
<1>3. PICK r : r = AckRetransmitQueue(q, m.ack) /\ Fewer(r, q) /\ r \in Seq(Tracked)
  <2>1. Fewer(AckRetransmitQueue(q, m.ack), q)
    BY <1>2, AckQueueIs
  <2> QED
    BY <2>1, Zenon DEF Fewer
<1>4. Fewer(q, q)
  <2>1. Len(q) <= Len(q)
    BY <1>2
  <2> QED
    BY <1>2, <2>1, Zenon DEF Fewer
<1>5. CASE "ACK" \in m.flags
  <2>1. Acked(m) = [s EXCEPT !.retransmit_queue = r]
    BY <1>3, <1>5, Zenon DEF Acked
  <2>2. [s EXCEPT !.retransmit_queue = r] \in Sockets /\ AckedFrom([s EXCEPT !.retransmit_queue = r], s)
        /\ [s EXCEPT !.retransmit_queue = r].retransmit_queue = r
    BY <1>1, <1>3 DEF Sockets, AckedFrom
  <2>3. Windows([s EXCEPT !.retransmit_queue = r], unsent[m.to], sent[m.to])
    <3>1. PICK a \in Sockets : a = [s EXCEPT !.retransmit_queue = r]
      BY <2>2, Zenon
    <3>2. a.state = s.state /\ a.retransmit_queue = r /\ a.out_of_order_queue = s.out_of_order_queue
      BY <1>1, <3>1 DEF Sockets
    <3>3. /\ Len(r) <= TCP_SEND_WINDOW_SEGMENTS + 1
          /\ s.state \in Unfinished => Len(r) <= TCP_SEND_WINDOW_SEGMENTS
          /\ s.state = "Open" => r = <<>>
      <4>1. TCP_SEND_WINDOW_SEGMENTS \in Nat /\ TCP_SEND_WINDOW_SEGMENTS + 1 \in Nat
        BY TcpAssumption
      <4>2. Len(q) <= TCP_SEND_WINDOW_SEGMENTS + 1 /\ (s.state \in Unfinished => Len(q) <= TCP_SEND_WINDOW_SEGMENTS)
            /\ (s.state = "Open" => q = <<>>)
        BY <1>1, Zenon DEF Kept, Windows
      <4>3. Len(r) <= TCP_SEND_WINDOW_SEGMENTS + 1 /\ (q = <<>> => r = <<>>)
        BY <1>2, <1>3, <4>1, <4>2, FewerFits
      <4>4. s.state \in Unfinished => Len(r) <= TCP_SEND_WINDOW_SEGMENTS
        BY <1>2, <1>3, <4>1, <4>2, FewerFits
      <4> QED
        BY <4>2, <4>3, <4>4, Zenon
    <3> QED
      BY <1>1, <3>1, <3>2, <3>3, Zenon DEF Windows, Kept
  <2> QED
    BY <1>3, <1>5, <2>1, <2>2, <2>3, Zenon
<1>6. CASE "ACK" \notin m.flags
  <2>1. Acked(m) = s
    BY <1>6, Zenon DEF Acked
  <2>2. AckedFrom(s, s)
    BY <1>4, Zenon DEF AckedFrom
  <2> QED
    BY <1>1, <1>6, <2>1, <2>2, Zenon DEF Kept
<1> QED
  BY <1>5, <1>6

\* A segment is handled: a new socket and replies.
LEMMA ReceiveType ==
  ASSUME TypeInv, NEW m \in net, NEW n \in Sockets, NEW replies, replies \subseteq Segments,
         Windows(n, unsent[m.to], sent[m.to]), Receive(m, n, replies)
  PROVE  TypeInv' /\ LocalTo(m.to) /\ sock'[m.to] = n
<1>1. Typed /\ m.to \in Ends
  BY NetType
<1>2. SetSock(m.to, n) /\ net' = net \cup replies
      /\ UNCHANGED <<listening, mss, appVars, faults, sent, got>>
  BY Zenon DEF Receive
<1>3. net' \subseteq Segments /\ mss' \in Nat \ {0} /\ failures' \in Nat /\ timeouts' \in Nat
  BY <1>1, <1>2, Zenon DEF Typed, faults
<1> QED
  BY <1>1, <1>2, <1>3, SockType

\* The fields of an acknowledgement.
LEMMA AckOfType ==
  ASSUME NEW e \in Ends, NEW s \in Sockets
  PROVE  LET g == AckOf(e, s)
         IN /\ g \in Segments /\ g.to = Peer(e) /\ g.seq = s.send_seq /\ g.ack = s.recv_seq
            /\ g.flags = {"ACK"} /\ g.data = <<>>
<1>1. Peer(e) \in Ends /\ s.send_seq \in Seqs /\ s.recv_seq \in Seqs /\ {"ACK"} \in Flags
      /\ <<>> \in Seq(Nat)
  BY PeerFacts DEF Sockets, Flags
<1> DEFINE g == Segment(Peer(e), s.send_seq, s.recv_seq, {"ACK"}, <<>>)
<1>3. g \in Segments /\ g.to = Peer(e) /\ g.seq = s.send_seq /\ g.ack = s.recv_seq
      /\ g.flags = {"ACK"} /\ g.data = <<>>
  <2>1. g.to = Peer(e) /\ g.seq = s.send_seq /\ g.ack = s.recv_seq
        /\ g.flags = {"ACK"} /\ g.data = <<>>
    BY DEF Segment
  <2>2. g \in Segments
    BY <1>1, SegmentIs
  <2> QED
    BY <2>1, <2>2
<1>4. AckOf(e, s) = g
  BY Zenon DEF AckOf
<1> QED
  BY <1>3, <1>4, Zenon

\* The child of a listener.
ChildSock(m) ==
  [sock[Server] EXCEPT !.state = "SynReceived", !.registered = TRUE,
                       !.send_seq = Add(@, 1), !.recv_seq = Add(m.seq, 1)]

\* A SYN for the listener.
LEMMA RcvListenType ==
  ASSUME TypeInv, NEW m \in net, RcvListen(m)
  PROVE  TypeInv' /\ LocalTo(m.to) /\ sock'[m.to] = ChildSock(m)
<1> DEFINE s == sock[Server]
           n == ChildSock(m)
           g == Segment(Client, Iss[Server], Add(m.seq, 1), {"SYN", "ACK"}, <<>>)
<1>1. m.to = Server /\ s.state = "Open" /\ Receive(m, n, {g})
  BY Zenon DEF RcvListen, ChildSock
<1>2. s \in Sockets /\ Kept(Server) /\ m.seq \in Seqs
  BY <1>1, NetType
<1>3. PICK a \in Seqs, b \in Seqs : a = Add(s.send_seq, 1) /\ b = Add(m.seq, 1)
  <2>1. s.send_seq \in Seqs
    BY <1>2 DEF Sockets
  <2> QED
    BY <1>2, <2>1, AddType
<1>4. n = [s EXCEPT !.state = "SynReceived", !.registered = TRUE, !.send_seq = a, !.recv_seq = b]
  BY <1>3, Zenon DEF ChildSock
<1>5. g \in Segments
  <2>1. Client \in Ends /\ Iss[Server] \in Seqs /\ {"SYN", "ACK"} \in Flags /\ <<>> \in Seq(Nat)
    BY SpaceFacts DEF Ends, Flags
  <2> QED
    BY <1>3, <2>1, SegmentIs
<1> HIDE DEF n, g
<1>6. n \in Sockets /\ n.retransmit_queue = s.retransmit_queue /\ n.state = "SynReceived"
      /\ n.out_of_order_queue = s.out_of_order_queue
  BY <1>2, <1>3, <1>4 DEF Sockets, States
<1>7. Windows(n, unsent[m.to], sent[m.to])
  BY <1>1, <1>2, <1>6, WindowsOf DEF Unfinished, Kept, Windows
<1>8. {g} \subseteq Segments
  BY <1>5, Zenon
<1>9. TypeInv' /\ LocalTo(m.to) /\ sock'[m.to] = n
  BY <1>1, <1>6, <1>7, <1>8, ReceiveType
<1> QED
  BY <1>9 DEF n

\* The socket after a reset.
ResetSock(s) ==
  [s EXCEPT !.state = "Closed", !.registered = FALSE, !.receive_queue = <<>>,
            !.out_of_order_queue = <<>>, !.pending_fin_seq = NoFin,
            !.so_error = IF s.state = "SynSent" THEN "ECONNREFUSED" ELSE "ECONNRESET"]

\* A reset.
LEMMA RcvResetType ==
  ASSUME TypeInv, NEW m \in net, RcvReset(m)
  PROVE  TypeInv' /\ LocalTo(m.to) /\ sock'[m.to] = ResetSock(sock[m.to])
<1> DEFINE s == sock[m.to]
           n == ResetSock(s)
<1>1. SetSock(m.to, n) /\ UNCHANGED <<listening, net, mss, appVars, faults, sent, got>>
  BY Zenon DEF RcvReset, ResetSock
<1>2. s \in Sockets /\ Kept(m.to) /\ Typed /\ m.to \in Ends
  BY NetType
<1>3. n \in Sockets /\ n.retransmit_queue = s.retransmit_queue /\ n.state = "Closed"
      /\ n.out_of_order_queue = <<>>
  <2>1. "Closed" \in States /\ "ECONNREFUSED" \in Errors /\ "ECONNRESET" \in Errors
        /\ <<>> \in Seq(Nat) /\ <<>> \in Seq(Pieces) /\ NoFin \in Seqs \cup {NoFin}
    BY DEF States, Errors
  <2> QED
    BY <1>2, <2>1 DEF Sockets, ResetSock
<1> HIDE DEF n
<1>4. Len(n.out_of_order_queue) <= TCP_MAX_OUT_OF_ORDER_SEGMENTS
  <2>1. Len(<<>>) <= TCP_MAX_OUT_OF_ORDER_SEGMENTS
    BY TcpAssumption
  <2> QED
    BY <1>3, <2>1, Zenon
<1>5. Windows(n, unsent[m.to], sent[m.to])
  BY <1>2, <1>3, <1>4, WindowsOf DEF Unfinished, Kept
<1>6. net' \subseteq Segments /\ mss' \in Nat \ {0} /\ failures' \in Nat /\ timeouts' \in Nat
  BY <1>1, <1>2, Zenon DEF Typed, faults
<1>7. TypeInv' /\ LocalTo(m.to) /\ sock'[m.to] = n
  BY <1>1, <1>2, <1>3, <1>5, <1>6, SockType
<1> QED
  BY <1>7 DEF n

\* The socket of an active open that is established.
OpenedSock(m, s) == [s EXCEPT !.state = "Established", !.recv_seq = Add(m.seq, 1), !.so_error = "none"]

\* An active open is established.
LEMMA OpenedType ==
  ASSUME TypeInv, NEW m \in net, Acked(m).state = "SynSent"
  PROVE  /\ OpenedSock(m, Acked(m)) \in Sockets
         /\ Windows(OpenedSock(m, Acked(m)), unsent[m.to], sent[m.to])
<1> DEFINE s == Acked(m)
           n == OpenedSock(m, s)
<1>1. s \in Sockets /\ Windows(s, unsent[m.to], sent[m.to])
  BY AckedIs
<1>2. PICK b \in Seqs : b = Add(m.seq, 1)
  BY NetType, AddType
<1> HIDE DEF s
<1>3. n = [s EXCEPT !.state = "Established", !.recv_seq = b, !.so_error = "none"]
  BY <1>2, Zenon DEF OpenedSock
<1>4. n \in Sockets /\ n.retransmit_queue = s.retransmit_queue /\ n.state = "Established"
      /\ n.out_of_order_queue = s.out_of_order_queue
  <2> HIDE DEF n
  <2> QED
    BY <1>1, <1>3 DEF Sockets, States, Errors
<1>5. s.state = "SynSent"
  BY DEF s
<1> HIDE DEF n
<1>6. Windows(n, unsent[m.to], sent[m.to])
  BY <1>1, <1>4, <1>5, WindowsOf DEF Unfinished, Windows
<1> QED
  BY <1>4, <1>6 DEF n, s

\* The answer to a SYN.
LEMMA RcvSynSentType ==
  ASSUME TypeInv, NEW m \in net, RcvSynSent(m)
  PROVE  TypeInv' /\ LocalTo(m.to)
<1> DEFINE s == Acked(m)
           n == OpenedSock(m, s)
<1>1. s \in Sockets /\ Windows(s, unsent[m.to], sent[m.to]) /\ AckedFrom(s, sock[m.to])
  BY AckedIs
<1>2. s.state = "SynSent"
  BY <1>1, Zenon DEF RcvSynSent, Matched, AckedFrom
<1>3. n \in Sockets /\ Windows(n, unsent[m.to], sent[m.to])
  BY <1>2, OpenedType
<1>4. Receive(m, n, {AckOf(m.to, n)}) \/ Receive(m, s, {})
  BY Zenon DEF RcvSynSent, OpenedSock
<1>5. m.to \in Ends
  BY NetType
<1> HIDE DEF n, s
<1>6. {AckOf(m.to, n)} \subseteq Segments
  BY <1>3, <1>5, AckOfType, Zenon
<1>7. {} \subseteq Segments
  BY Zenon
<1>8. CASE Receive(m, n, {AckOf(m.to, n)})
  BY <1>3, <1>6, <1>8, ReceiveType
<1>9. CASE Receive(m, s, {})
  BY <1>1, <1>7, <1>9, ReceiveType
<1> QED
  BY <1>4, <1>8, <1>9

\* The segment that completes the handshake, or the SYN again.
LEMMA RcvSynReceivedType ==
  ASSUME TypeInv, NEW m \in net, RcvSynReceived(m)
  PROVE  TypeInv' /\ LocalTo(m.to)
<1> DEFINE s == Acked(m)
           n1 == [s EXCEPT !.state = "Established"]
           n2 == [s EXCEPT !.recv_seq = Add(m.seq, 1)]
           g == Segment(Peer(m.to), Add(s.send_seq, -1), Add(m.seq, 1), {"SYN", "ACK"}, <<>>)
<1>1. s \in Sockets /\ Windows(s, unsent[m.to], sent[m.to]) /\ AckedFrom(s, sock[m.to])
  BY AckedIs
<1>2. s.state = "SynReceived"
  BY <1>1, Zenon DEF RcvSynReceived, Matched, AckedFrom
<1>3. Receive(m, n1, {}) \/ Receive(m, n2, {g}) \/ Receive(m, s, {})
  BY Zenon DEF RcvSynReceived
<1>4. PICK a \in Seqs, b \in Seqs : a = Add(s.send_seq, -1) /\ b = Add(m.seq, 1)
  <2>1. s.send_seq \in Seqs /\ -1 \in Int
    BY <1>1 DEF Sockets
  <2> QED
    BY <2>1, NetType, AddType
<1>5. n1 \in Sockets /\ Windows(n1, unsent[m.to], sent[m.to])
  <2> HIDE DEF s
  <2>1. n1 \in Sockets /\ n1.retransmit_queue = s.retransmit_queue /\ n1.state = "Established"
        /\ n1.out_of_order_queue = s.out_of_order_queue
    BY <1>1 DEF Sockets, States
  <2> HIDE DEF n1
  <2> QED
    BY <1>1, <1>2, <2>1, WindowsOf DEF Unfinished, Windows
<1>6. n2 \in Sockets /\ Windows(n2, unsent[m.to], sent[m.to])
  <2>1. n2 = [s EXCEPT !.recv_seq = b]
    BY <1>4, Zenon
  <2> HIDE DEF s, n2
  <2>2. n2 \in Sockets /\ n2.retransmit_queue = s.retransmit_queue /\ n2.state = s.state
        /\ n2.out_of_order_queue = s.out_of_order_queue
    BY <1>1, <2>1 DEF Sockets, States
  <2> QED
    BY <1>1, <1>2, <2>2, WindowsOf DEF Unfinished, Windows
<1>7. {g} \subseteq Segments /\ {} \subseteq Segments
  <2>1. Peer(m.to) \in Ends /\ {"SYN", "ACK"} \in Flags /\ <<>> \in Seq(Nat)
    BY NetType, PeerFacts DEF Flags
  <2>2. g \in Segments
    BY <1>4, <2>1, SegmentIs
  <2> QED
    BY <2>2, Zenon
<1> HIDE DEF n1, n2, s, g
<1>8. CASE Receive(m, n1, {})
  BY <1>5, <1>7, <1>8, ReceiveType
<1>9. CASE Receive(m, n2, {g})
  BY <1>6, <1>7, <1>9, ReceiveType
<1>10. CASE Receive(m, s, {})
  BY <1>1, <1>7, <1>10, ReceiveType
<1> QED
  BY <1>3, <1>8, <1>9, <1>10

\* The socket that has taken the payload of a segment.
LEMMA Ingested ==
  ASSUME TypeInv, NEW m \in net, NEW a \in Sockets, Windows(a, unsent[m.to], sent[m.to])
  PROVE  LET s == IngestPayload(a, m.seq, m.data)
         IN s \in Sockets /\ SameButInput(s, a) /\ Windows(s, unsent[m.to], sent[m.to])
<1> DEFINE s == IngestPayload(a, m.seq, m.data)
<1>1. Len(a.out_of_order_queue) <= TCP_MAX_OUT_OF_ORDER_SEGMENTS
  BY Zenon DEF Windows
<1>2. m.seq \in Seqs /\ m.data \in Seq(Nat)
  BY NetType
<1>3. s \in Sockets /\ SameButInput(s, a) /\ Len(s.out_of_order_queue) <= TCP_MAX_OUT_OF_ORDER_SEGMENTS
  BY <1>1, <1>2, IngestType
<1> HIDE DEF s
<1>4. Windows(s, unsent[m.to], sent[m.to])
  BY <1>3, Zenon DEF Windows, SameButInput
<1> QED
  BY <1>3, <1>4 DEF s

\* The FIN is taken in an established connection, or after the own FIN.
HalfSock(s) == [s EXCEPT !.pending_fin_seq = NoFin, !.recv_seq = Add(@, 1), !.state = "CloseWait"]
DoneSock(s) == [s EXCEPT !.recv_seq = Add(@, 1), !.state = "Closed", !.registered = FALSE]

\* The FIN of the peer has been taken.
LEMMA FinTakenType ==
  ASSUME NEW s \in Sockets, NEW u, NEW k, Windows(s, u, k), s.state # "Open"
  PROVE  /\ DoneSock(s) \in Sockets /\ Windows(DoneSock(s), u, k)
         /\ HalfSock(s) \in Sockets
         /\ s.state = "Established" => Windows(HalfSock(s), u, k)
<1>1. PICK b \in Seqs : b = Add(s.recv_seq, 1)
  <2>1. s.recv_seq \in Seqs
    BY DEF Sockets
  <2> QED
    BY <2>1, AddType
<1>2. PICK d : d = DoneSock(s)
  BY Zenon
<1>3. d = [s EXCEPT !.recv_seq = b, !.state = "Closed", !.registered = FALSE]
  BY <1>1, <1>2, Zenon DEF DoneSock
<1>4. d \in Sockets /\ d.retransmit_queue = s.retransmit_queue /\ d.state = "Closed"
      /\ d.out_of_order_queue = s.out_of_order_queue
  BY <1>3 DEF Sockets, States
<1>5. Windows(d, u, k)
  BY <1>4, WindowsOf DEF Windows, Unfinished
<1>6. PICK h : h = HalfSock(s)
  BY Zenon
<1>7. h = [s EXCEPT !.pending_fin_seq = NoFin, !.recv_seq = b, !.state = "CloseWait"]
  BY <1>1, <1>6, Zenon DEF HalfSock
<1>8. h \in Sockets /\ h.retransmit_queue = s.retransmit_queue /\ h.state = "CloseWait"
      /\ h.out_of_order_queue = s.out_of_order_queue
  BY <1>7 DEF Sockets, States
<1>9. s.state = "Established" => Windows(h, u, k)
  BY <1>8, WindowsOf DEF Windows, Unfinished
<1> QED
  BY <1>2, <1>4, <1>5, <1>6, <1>8, <1>9

\* What is kept of a FIN.
KeptFin(m, s) ==
  IF "FIN" \in m.flags /\ SeqAfter(FinSeq(m), s.recv_seq)
  THEN [DropStaleFin(s) EXCEPT !.pending_fin_seq = FinSeq(m)]
  ELSE DropStaleFin(s)

\* All but the pending FIN stays.
SameButFin(n, s) ==
  /\ n.state = s.state /\ n.send_seq = s.send_seq /\ n.recv_seq = s.recv_seq
  /\ n.receive_queue = s.receive_queue /\ n.out_of_order_queue = s.out_of_order_queue
  /\ n.retransmit_queue = s.retransmit_queue /\ n.so_error = s.so_error
  /\ n.registered = s.registered

\* Only the pending FIN changes, to one that is ahead or to none.
LEMMA KeptFinType ==
  ASSUME TypeInv, NEW m \in net, NEW s \in Sockets, Windows(s, unsent[m.to], sent[m.to])
  PROVE  /\ KeptFin(m, s) \in Sockets /\ SameButFin(KeptFin(m, s), s)
         /\ Windows(KeptFin(m, s), unsent[m.to], sent[m.to])
         /\ KeptFin(m, s).pending_fin_seq \in {s.pending_fin_seq, NoFin}
            \/ /\ "FIN" \in m.flags /\ SeqAfter(FinSeq(m), s.recv_seq)
               /\ KeptFin(m, s).pending_fin_seq = FinSeq(m)
<1>1. PICK d : d = DropStaleFin(s)
  BY Zenon
<1>2. d = s \/ d = [s EXCEPT !.pending_fin_seq = NoFin]
  BY <1>1, Zenon DEF DropStaleFin
<1>3. d \in Sockets /\ SameButFin(d, s) /\ d.pending_fin_seq \in {s.pending_fin_seq, NoFin}
  BY <1>2 DEF Sockets, SameButFin
<1>4. PICK f \in Seqs : f = FinSeq(m)
  <2>1. m.seq \in Seqs /\ m.data \in Seq(Nat)
    BY NetType
  <2>2. Len(m.data) \in Int
    BY <2>1
  <2> QED
    BY <2>1, <2>2, AddType DEF FinSeq
<1>5. PICK n : n = KeptFin(m, s)
  BY Zenon
<1>6. \/ n = d
      \/ n = [d EXCEPT !.pending_fin_seq = f] /\ "FIN" \in m.flags /\ SeqAfter(FinSeq(m), s.recv_seq)
  BY <1>1, <1>4, <1>5, Zenon DEF KeptFin
<1>7. n \in Sockets /\ SameButFin(n, d)
      /\ \/ n.pending_fin_seq = d.pending_fin_seq
         \/ n.pending_fin_seq = f /\ "FIN" \in m.flags /\ SeqAfter(FinSeq(m), s.recv_seq)
  <2>1. CASE n = d
    BY <1>3, <2>1, Zenon DEF SameButFin
  <2>2. CASE n = [d EXCEPT !.pending_fin_seq = f] /\ "FIN" \in m.flags /\ SeqAfter(FinSeq(m), s.recv_seq)
    <3>1. n \in Sockets /\ SameButFin(n, d) /\ n.pending_fin_seq = f
      BY <1>3, <2>2 DEF Sockets, SameButFin
    <3> QED
      BY <2>2, <3>1, Zenon
  <2> QED
    BY <1>6, <2>1, <2>2
<1>8. SameButFin(n, s)
  BY <1>3, <1>7, Zenon DEF SameButFin
<1>9. Windows(n, unsent[m.to], sent[m.to])
  BY <1>8, Zenon DEF SameButFin, Windows
<1> QED
  BY <1>3, <1>4, <1>5, <1>7, <1>8, <1>9, Zenon

\* Data and FIN of an established connection.
LEMMA RcvEstablishedType ==
  ASSUME TypeInv, NEW m \in net, RcvEstablished(m)
  PROVE  TypeInv' /\ LocalTo(m.to)
<1> DEFINE a == Acked(m)
           s == IngestPayload(a, m.seq, m.data)
           fin == HalfSock(s)
           new == KeptFin(m, s)
           rs == IF m.data # <<>> \/ "FIN" \in m.flags THEN {AckOf(m.to, new)} ELSE {}
<1>1. a \in Sockets /\ Windows(a, unsent[m.to], sent[m.to]) /\ AckedFrom(a, sock[m.to])
  BY AckedIs
<1>2. a.state = "Established"
  BY <1>1, Zenon DEF RcvEstablished, Matched, AckedFrom
<1>3. s \in Sockets /\ SameButInput(s, a) /\ Windows(s, unsent[m.to], sent[m.to])
  <2> HIDE DEF a
  <2> QED
    BY <1>1, Ingested
<1>4. Receive(m, fin, {AckOf(m.to, fin)}) \/ Receive(m, new, rs)
  BY Zenon DEF RcvEstablished, HalfSock, KeptFin
<1>5. m.to \in Ends
  BY NetType
<1>6. s.state = "Established"
  BY <1>2, <1>3, Zenon DEF SameButInput
<1> HIDE DEF s
<1>7. fin \in Sockets /\ Windows(fin, unsent[m.to], sent[m.to])
  BY <1>3, <1>6, FinTakenType
<1>8. new \in Sockets /\ Windows(new, unsent[m.to], sent[m.to])
  BY <1>3, KeptFinType
<1>9. {AckOf(m.to, fin)} \subseteq Segments /\ rs \subseteq Segments
  <2>1. AckOf(m.to, fin) \in Segments /\ AckOf(m.to, new) \in Segments
    BY <1>5, <1>7, <1>8, AckOfType, Zenon
  <2> QED
    BY <2>1, Zenon
<1> HIDE DEF fin, new, rs
<1>10. CASE Receive(m, fin, {AckOf(m.to, fin)})
  BY <1>7, <1>9, <1>10, ReceiveType
<1>11. CASE Receive(m, new, rs)
  BY <1>8, <1>9, <1>11, ReceiveType
<1> QED
  BY <1>4, <1>10, <1>11

\* Data and FIN after the own FIN.
LEMMA RcvHalfClosedType ==
  ASSUME TypeInv, NEW m \in net, NEW a \in Sockets, Windows(a, unsent[m.to], sent[m.to]),
         a.state # "Open", RcvHalfClosed(m, a)
  PROVE  TypeInv' /\ LocalTo(m.to)
<1> DEFINE s == IngestPayload(a, m.seq, m.data)
           fin == DoneSock(s)
           rs == IF m.data # <<>> \/ "FIN" \in m.flags THEN {AckOf(m.to, s)} ELSE {}
<1>3. s \in Sockets /\ SameButInput(s, a) /\ Windows(s, unsent[m.to], sent[m.to])
  BY Ingested
<1>4. Receive(m, fin, {AckOf(m.to, fin)}) \/ Receive(m, s, rs)
  BY Zenon DEF RcvHalfClosed, DoneSock
<1>5. m.to \in Ends
  BY NetType
<1>6. s.state # "Open"
  BY <1>3, Zenon DEF SameButInput
<1> HIDE DEF s
<1>7. fin \in Sockets /\ Windows(fin, unsent[m.to], sent[m.to])
  BY <1>3, <1>6, FinTakenType
<1>9. {AckOf(m.to, fin)} \subseteq Segments /\ rs \subseteq Segments
  <2>1. AckOf(m.to, fin) \in Segments /\ AckOf(m.to, s) \in Segments
    BY <1>5, <1>7, <1>3, AckOfType, Zenon
  <2> QED
    BY <2>1, Zenon
<1> HIDE DEF fin, rs
<1>10. CASE Receive(m, fin, {AckOf(m.to, fin)})
  BY <1>7, <1>9, <1>10, ReceiveType
<1>11. CASE Receive(m, s, rs)
  BY <1>3, <1>9, <1>11, ReceiveType
<1> QED
  BY <1>4, <1>10, <1>11

\* The own FIN is acknowledged.
LEMMA FinAckedType ==
  ASSUME TypeInv, NEW m \in net, NEW new \in {"FinWait2"}, Acked(m).state = "FinWait1"
  PROVE  LET n == [Acked(m) EXCEPT !.state = new]
         IN n \in Sockets /\ Windows(n, unsent[m.to], sent[m.to]) /\ n.state = new
<1> DEFINE s == Acked(m)
           n == [s EXCEPT !.state = new]
<1>1. s \in Sockets /\ Windows(s, unsent[m.to], sent[m.to])
  BY AckedIs
<1> HIDE DEF s
<1>2. n \in Sockets /\ n.retransmit_queue = s.retransmit_queue /\ n.state = new
      /\ n.out_of_order_queue = s.out_of_order_queue
  BY <1>1 DEF Sockets, States
<1> HIDE DEF n
<1>3. Windows(n, unsent[m.to], sent[m.to])
  BY <1>1, <1>2, WindowsOf DEF Unfinished, Windows
<1> QED
  BY <1>2, <1>3 DEF n, s

\* FinWait1 and FinWait2.
LEMMA RcvFinWaitType ==
  ASSUME TypeInv, NEW m \in net, RcvFinWait1(m) \/ RcvFinWait2(m)
  PROVE  TypeInv' /\ LocalTo(m.to)
<1> DEFINE s == Acked(m)
           n == [s EXCEPT !.state = "FinWait2"]
<1>1. s \in Sockets /\ Windows(s, unsent[m.to], sent[m.to]) /\ AckedFrom(s, sock[m.to])
  BY AckedIs
<1>2. CASE RcvFinWait1(m)
  <2>1. s.state = "FinWait1"
    BY <1>1, <1>2, Zenon DEF RcvFinWait1, Matched, AckedFrom
  <2>2. n \in Sockets /\ Windows(n, unsent[m.to], sent[m.to]) /\ n.state = "FinWait2"
    BY <2>1, FinAckedType
  <2>3. RcvHalfClosed(m, n) \/ RcvHalfClosed(m, s)
    BY <1>2, Zenon DEF RcvFinWait1
  <2>4. n.state # "Open" /\ s.state # "Open"
    BY <2>1, <2>2
  <2> HIDE DEF n, s
  <2> QED
    BY <1>1, <2>2, <2>3, <2>4, RcvHalfClosedType
<1>3. CASE RcvFinWait2(m)
  <2>1. s.state = "FinWait2" /\ RcvHalfClosed(m, s)
    BY <1>1, <1>3, Zenon DEF RcvFinWait2, Matched, AckedFrom
  <2>2. s.state # "Open"
    BY <2>1
  <2> HIDE DEF s
  <2> QED
    BY <1>1, <2>1, <2>2, RcvHalfClosedType
<1> QED
  BY <1>2, <1>3

\* The socket after the last acknowledgement.
GoneSock(s) == [s EXCEPT !.state = "Closed", !.registered = FALSE]

\* The queues of that socket.
LEMMA GoneType ==
  ASSUME NEW s \in Sockets, NEW u, NEW k, Windows(s, u, k)
  PROVE  GoneSock(s) \in Sockets /\ Windows(GoneSock(s), u, k)
<1> DEFINE n == GoneSock(s)
<1>1. n \in Sockets /\ n.retransmit_queue = s.retransmit_queue /\ n.state = "Closed"
      /\ n.out_of_order_queue = s.out_of_order_queue
  BY DEF Sockets, States, GoneSock
<1> HIDE DEF n
<1>2. Windows(n, u, k)
  BY <1>1, WindowsOf DEF Unfinished, Windows
<1> QED
  BY <1>1, <1>2 DEF n

\* LastAck.
LEMMA RcvLastAckType ==
  ASSUME TypeInv, NEW m \in net, RcvLastAck(m)
  PROVE  /\ TypeInv' /\ LocalTo(m.to)
         /\ sock'[m.to] = IF FinAcked(m, Acked(m)) THEN GoneSock(Acked(m)) ELSE Acked(m)
<1> DEFINE s == Acked(m)
           n == IF FinAcked(m, s) THEN GoneSock(s) ELSE s
<1>1. s \in Sockets /\ Windows(s, unsent[m.to], sent[m.to])
  BY AckedIs
<1>2. Receive(m, n, {})
  BY Zenon DEF RcvLastAck, GoneSock
<1> HIDE DEF s
<1>3. n \in Sockets /\ Windows(n, unsent[m.to], sent[m.to])
  BY <1>1, GoneType
<1> HIDE DEF n
<1>4. {} \subseteq Segments
  BY Zenon
<1>5. TypeInv' /\ LocalTo(m.to) /\ sock'[m.to] = n
  BY <1>2, <1>3, <1>4, ReceiveType
<1> QED
  BY <1>5 DEF n, s

\* CloseWait and Closed.
LEMMA RcvIgnoredType ==
  ASSUME TypeInv, NEW m \in net, RcvIgnored(m)
  PROVE  TypeInv' /\ LocalTo(m.to) /\ sock'[m.to] = Acked(m)
<1>1. Acked(m) \in Sockets /\ Windows(Acked(m), unsent[m.to], sent[m.to])
  BY AckedIs
<1>2. Receive(m, Acked(m), {}) /\ {} \subseteq Segments
  BY Zenon DEF RcvIgnored
<1> QED
  BY <1>1, <1>2, ReceiveType

\* A segment for no socket is answered with a reset.
LEMMA RcvUnmatchedType ==
  ASSUME TypeInv, NEW m \in net, RcvUnmatched(m)
  PROVE  /\ TypeInv' /\ LocalTo(m.to) /\ sock'[m.to] = sock[m.to]
         /\ \A g \in net' \ net : "RST" \in g.flags
<1> DEFINE g1 == Segment(Peer(m.to), m.ack, 0, {"RST"}, <<>>)
           g2 == Segment(Peer(m.to), 0, SegmentEndSeq(m), {"RST", "ACK"}, <<>>)
           rst == IF "ACK" \in m.flags THEN g1 ELSE g2
<1>1. Receive(m, sock[m.to], {rst})
  BY Zenon DEF RcvUnmatched
<1>2. sock[m.to] \in Sockets /\ Windows(sock[m.to], unsent[m.to], sent[m.to])
  BY NetType DEF Kept
<1>3. Peer(m.to) \in Ends /\ m.ack \in Seqs /\ 0 \in Seqs /\ {"RST"} \in Flags /\ {"RST", "ACK"} \in Flags
      /\ <<>> \in Seq(Nat) /\ SegmentEndSeq(m) \in Seqs
  BY NetType, PeerFacts, EndType, SpaceFacts DEF Flags, Seqs
<1>4. g1 \in Segments /\ g1.flags = {"RST"}
  <2>1. g1.flags = {"RST"}
    BY DEF Segment
  <2> QED
    BY <1>3, <2>1, SegmentIs
<1>5. g2 \in Segments /\ g2.flags = {"RST", "ACK"}
  <2>1. g2.flags = {"RST", "ACK"}
    BY DEF Segment
  <2> QED
    BY <1>3, <2>1, SegmentIs
<1> HIDE DEF g1, g2
<1>6. rst \in Segments /\ "RST" \in rst.flags
  BY <1>4, <1>5
<1> HIDE DEF rst
<1>7. {rst} \subseteq Segments
  BY <1>6, Zenon
<1>8. TypeInv' /\ LocalTo(m.to) /\ sock'[m.to] = sock[m.to]
  BY <1>1, <1>2, <1>7, ReceiveType
<1>9. net' = net \cup {rst}
  BY <1>1, Zenon DEF Receive
<1> QED
  BY <1>6, <1>8, <1>9, Zenon

\* A part of a sequence.
LEMMA Part ==
  ASSUME NEW c \in Seq(Nat), NEW i \in Nat, NEW j \in Nat, 1 <= i, i <= j, j <= Len(c)
  PROVE  /\ SubSeq(c, i, j) \in Seq(Nat) /\ Len(SubSeq(c, i, j)) = j - i + 1
         /\ \A k \in 1..(j - i + 1) : SubSeq(c, i, j)[k] = c[i + k - 1]
<1>1. \A k \in i..j : c[k] \in Nat
  OBVIOUS
<1>2. /\ SubSeq(c, i, j) \in Seq(Nat)
      /\ Len(SubSeq(c, i, j)) = IF i <= j THEN j - i + 1 ELSE 0
      /\ \A k \in 1..(j - i + 1) : SubSeq(c, i, j)[k] = c[i + k - 1]
  BY <1>1, SubSeqProperties
<1> QED
  BY <1>2

\* A piece of a segment, from its byte i on.
PieceOf(c, g, i) ==
  /\ c \in Segments /\ c.to = g.to /\ c.ack = g.ack /\ c.flags = g.flags
  /\ i \in 1..Len(g.data) /\ c.seq = Add(g.seq, i - 1)
  /\ Len(c.data) >= 1 /\ i + Len(c.data) - 1 <= Len(g.data)
  /\ \A k \in 1..Len(c.data) : c.data[k] = g.data[i + k - 1]

\* append_retransmit_chunks makes pieces of the segment.
LEMMA ChunkIs ==
  ASSUME NEW g \in Segments, mss \in Nat \ {0}, NEW c \in Chunks(g)
  PROVE  c = g \/ \E i : PieceOf(c, g, i)
<1>1. g.to \in Ends /\ g.seq \in Seqs /\ g.ack \in Seqs /\ g.flags \in SUBSET {"SYN", "ACK", "FIN", "RST"}
      /\ g.data \in Seq(Nat)
  BY DEF Segments
<1>2. PICK l \in Nat : l = Len(g.data) /\ DOMAIN g.data = 1..l
  BY <1>1
<1>3. CASE c = g
  BY <1>3
<1>4. CASE c # g
  <2>1. PICK i \in DOMAIN g.data :
          c = [g EXCEPT !.seq = Add(@, i - 1),
                        !.data = SubSeq(g.data, i, Min({i + mss - 1, Len(g.data)}))]
    BY <1>4, Zenon DEF Chunks
  <2>2. i \in Nat /\ 1 <= i /\ i <= l /\ i + mss - 1 \in Nat /\ i <= i + mss - 1 /\ i - 1 \in Int
    BY <1>2
  <2>3. PICK j \in Nat : j = Min({i + mss - 1, l}) /\ i <= j /\ j <= l
    <3>1. Min({i + mss - 1, l}) = IF i + mss - 1 <= l THEN i + mss - 1 ELSE l
      BY <2>2, MinTwo
    <3> QED
      BY <2>2, <3>1
  <2>4. PICK d : d = SubSeq(g.data, i, j)
    BY Zenon
  <2>5. /\ d \in Seq(Nat) /\ Len(d) = j - i + 1
        /\ \A k \in 1..(j - i + 1) : d[k] = g.data[i + k - 1]
    <3>1. j <= Len(g.data) /\ i \in Nat
      BY <1>2, <2>2, <2>3, Zenon
    <3>2. /\ SubSeq(g.data, i, j) \in Seq(Nat) /\ Len(SubSeq(g.data, i, j)) = j - i + 1
          /\ \A k \in 1..(j - i + 1) : SubSeq(g.data, i, j)[k] = g.data[i + k - 1]
      <4>1. PICK b \in Seq(Nat) : b = g.data
        BY <1>1, Zenon
      <4>2. i \in Nat /\ j \in Nat /\ 1 <= i /\ i <= j /\ j <= Len(b)
        BY <2>2, <2>3, <3>1, <4>1, Zenon
      <4>3. /\ SubSeq(b, i, j) \in Seq(Nat) /\ Len(SubSeq(b, i, j)) = j - i + 1
            /\ \A k \in 1..(j - i + 1) : SubSeq(b, i, j)[k] = b[i + k - 1]
        BY <4>2, Part
      <4> QED
        BY <4>1, <4>3, Zenon
    <3> QED
      BY <2>4, <3>2, Zenon
  <2>6. PICK x \in Seqs : x = Add(g.seq, i - 1)
    BY <1>1, <2>2, AddType
  <2>7. c = [g EXCEPT !.seq = x, !.data = d]
    BY <1>2, <2>1, <2>3, <2>4, <2>6, Zenon
  <2>8. c \in Segments /\ c.to = g.to /\ c.ack = g.ack /\ c.flags = g.flags /\ c.seq = x /\ c.data = d
    BY <1>1, <2>5, <2>7 DEF Segments
  <2>9. j - i + 1 >= 1 /\ i + (j - i + 1) - 1 <= l
    BY <2>2, <2>3
  <2>10. PieceOf(c, g, i)
    BY <1>2, <2>5, <2>6, <2>8, <2>9, Zenon DEF PieceOf
  <2> QED
    BY <2>10, Zenon
<1> QED
  BY <1>3, <1>4

\* The entries of a queue, marked in some way.
Marked(r, q) ==
  /\ r \in Seq(Tracked) /\ Len(r) = Len(q) /\ DOMAIN r = DOMAIN q
  /\ \A i \in DOMAIN q : r[i].seg = q[i].seg

\* Marks change no window.
LEMMA MarkedWindows ==
  ASSUME NEW s \in Sockets, NEW u, NEW k, Windows(s, u, k), NEW r, Marked(r, s.retransmit_queue)
  PROVE  LET n == [s EXCEPT !.retransmit_queue = r]
         IN n \in Sockets /\ Windows(n, u, k)
<1> DEFINE n == [s EXCEPT !.retransmit_queue = r]
<1>1. s.retransmit_queue \in Seq(Tracked)
  BY DEF Sockets
<1>2. r \in Seq(Tracked) /\ Len(r) = Len(s.retransmit_queue)
  BY Zenon DEF Marked
<1>3. s.retransmit_queue = <<>> => r = <<>>
  BY <1>1, <1>2, EmptySeq
<1>4. n \in Sockets /\ n.state = s.state /\ n.retransmit_queue = r /\ n.out_of_order_queue = s.out_of_order_queue
  BY <1>2 DEF Sockets
<1> HIDE DEF n
<1> QED
  BY <1>2, <1>3, <1>4, Zenon DEF Windows, n

\* The socket after the retransmissions have been given up.
DeadSock(s) ==
  [s EXCEPT !.state = "Closed", !.so_error = "ETIMEDOUT", !.retransmit_queue = <<>>,
            !.receive_queue = <<>>, !.out_of_order_queue = <<>>, !.pending_fin_seq = NoFin]

\* It has empty queues.
LEMMA DeadType ==
  ASSUME NEW s \in Sockets, NEW u, NEW k, Windows(s, u, k)
  PROVE  DeadSock(s) \in Sockets /\ Windows(DeadSock(s), u, k)
<1>1. <<>> \in Seq(Nat) /\ <<>> \in Seq(Pieces) /\ <<>> \in Seq(Tracked) /\ Len(<<>>) = 0
  OBVIOUS
<1>2. "Closed" \in States /\ "Closed" \notin Unfinished /\ "ETIMEDOUT" \in Errors
  BY DEF States, Unfinished, Errors
<1>3. 0 <= TCP_SEND_WINDOW_SEGMENTS + 1 /\ 0 <= TCP_MAX_OUT_OF_ORDER_SEGMENTS
  BY TcpAssumption
<1> QED
  BY <1>1, <1>2, <1>3 DEF Sockets, Windows, DeadSock

\* What is sent again: either not the segment under way, or that one has now left.
Resent(e) ==
  LET q == sock[e].retransmit_queue
  IN /\ net \subseteq net'
     /\ \A c \in net' \ net : \E i \in DOMAIN q : c \in Chunks(q[i].seg)
     /\ \/ unsent' = [unsent EXCEPT ![e] = NoSegment]
        \/ /\ unsent' = unsent
           /\ \A c \in net' \ net : \E i \in DOMAIN q : q[i].seg # unsent[e] /\ c \in Chunks(q[i].seg)

\* What collect_retransmits does: give up, or send again what e has tracked.
LEMMA RetransmitIs ==
  ASSUME TypeInv, NEW e \in Ends, Retransmit(e)
  PROVE  \/ SetSock(e, DeadSock(sock[e])) /\ aborted' = aborted \cup {e} /\ UNCHANGED <<net, unsent>>
         \/ \E r : /\ Marked(r, sock[e].retransmit_queue)
                   /\ SetSock(e, [sock[e] EXCEPT !.retransmit_queue = r])
                   /\ Resent(e) /\ UNCHANGED aborted
<1> DEFINE s == sock[e]
           q == s.retransmit_queue
           forced == {i \in DOMAIN q : q[i].needs}
           again(late) == [i \in DOMAIN q |->
                          IF i \in forced THEN [q[i] EXCEPT !.retries = 0, !.needs = FALSE]
                          ELSE IF i \in late THEN [q[i] EXCEPT !.retries = @ + 1]
                          ELSE q[i]]
<1>1. s \in Sockets
  BY EndTypes
<1>2. q \in Seq(Tracked) /\ DOMAIN q = 1..Len(q) /\ Len(q) \in Nat /\ \A i \in DOMAIN q : q[i] \in Tracked
  BY <1>1 DEF Sockets
<1>3. PICK late \in SUBSET (DOMAIN q \ forced) :
        IF \E i \in late : q[i].retries >= TCP_MAX_RETRIES
        THEN /\ SetSock(e, DeadSock(s)) /\ aborted' = aborted \cup {e} /\ UNCHANGED <<net, unsent>>
        ELSE /\ SetSock(e, [s EXCEPT !.retransmit_queue = again(late)])
             /\ net' = net \cup UNION {Chunks(q[i].seg) : i \in forced \cup late}
             /\ unsent' = IF \E i \in forced \cup late : q[i].seg = unsent[e]
                          THEN [unsent EXCEPT ![e] = NoSegment] ELSE unsent
             /\ UNCHANGED aborted
  BY Zenon DEF Retransmit, DeadSock
<1>4. CASE \E i \in late : q[i].retries >= TCP_MAX_RETRIES
  BY <1>3, <1>4, Zenon
<1>5. CASE ~ \E i \in late : q[i].retries >= TCP_MAX_RETRIES
  <2>1. PICK r : r = again(late)
    BY Zenon
  <2>2. ASSUME NEW i \in DOMAIN q
        PROVE  r[i] \in Tracked /\ r[i].seg = q[i].seg
    <3>1. q[i] \in Tracked
      BY <1>2
    <3>2. r[i] = IF i \in forced THEN [q[i] EXCEPT !.retries = 0, !.needs = FALSE]
                 ELSE IF i \in late THEN [q[i] EXCEPT !.retries = @ + 1] ELSE q[i]
      BY <2>1, Zenon
    <3> HIDE DEF forced
    <3>3. i \in late => q[i].retries + 1 \in 0..TCP_MAX_RETRIES
      <4>1. q[i].retries \in 0..TCP_MAX_RETRIES
        BY <3>1 DEF Tracked
      <4>2. i \in late => ~(q[i].retries >= TCP_MAX_RETRIES)
        BY <1>5, Zenon
      <4> QED
        BY <4>1, <4>2, TcpAssumption
    <3>4. 0 \in 0..TCP_MAX_RETRIES
      BY TcpAssumption
    <3> QED
      BY <3>1, <3>2, <3>3, <3>4 DEF Tracked
  <2>3. DOMAIN r = DOMAIN q /\ r = [i \in DOMAIN q |-> r[i]]
    BY <2>1, Zenon
  <2>4. r \in Seq(Tracked) /\ Len(r) = Len(q)
    <3>1. PICK l \in Nat : l = Len(q) /\ DOMAIN q = 1..l
      BY <1>2
    <3>2. r \in [1..l -> Tracked]
      BY <2>2, <2>3, <3>1, Zenon
    <3> QED
      BY <3>1, <3>2
  <2>5. Marked(r, q)
    BY <2>2, <2>3, <2>4, Zenon DEF Marked
  <2>6. SetSock(e, [s EXCEPT !.retransmit_queue = r])
    BY <1>3, <1>5, <2>1, Zenon
  <2>7. PICK I \in SUBSET DOMAIN q :
          /\ net' = net \cup UNION {Chunks(q[i].seg) : i \in I}
          /\ unsent' = IF \E i \in I : q[i].seg = unsent[e]
                       THEN [unsent EXCEPT ![e] = NoSegment] ELSE unsent
          /\ UNCHANGED aborted
    BY <1>3, <1>5, Zenon
  <2>8. net \subseteq net' /\ \A c \in net' \ net : \E i \in I : c \in Chunks(q[i].seg)
    BY <2>7, Zenon
  <2>9. Resent(e)
    <3>1. CASE \E i \in I : q[i].seg = unsent[e]
      BY <2>7, <2>8, <3>1, Zenon DEF Resent
    <3>2. CASE ~ \E i \in I : q[i].seg = unsent[e]
      <4>1. unsent' = unsent /\ \A i \in I : q[i].seg # unsent[e]
        BY <2>7, <3>2, Zenon
      <4> QED
        BY <2>8, <4>1, Zenon DEF Resent
    <3> QED
      BY <3>1, <3>2
  <2> QED
    BY <2>5, <2>6, <2>7, <2>9, Zenon
<1> QED
  BY <1>4, <1>5

\* A step that replaces the socket of e; the segment under way may have left.
LEMMA LeavesType ==
  ASSUME TypeInv, NEW e \in Ends, NEW s \in Sockets, SetSock(e, s),
         Windows(s, unsent[e], sent[e]), net' \subseteq Segments, mss' \in Nat \ {0},
         failures' \in Nat, timeouts' \in Nat, UNCHANGED <<listening, prog, left, sent, got>>,
         unsent' \in {unsent, [unsent EXCEPT ![e] = NoSegment]}
  PROVE  TypeInv' /\ LocalTo(e) /\ sock'[e] = s
<1>1. Typed /\ Kept(e) /\ sent[e] \in Nat
  BY EndTypes
<1>2. sock' \in [Ends -> Sockets] /\ sock'[e] = s /\ \A x \in Ends \ {e} : sock'[x] = sock[x]
  BY SetType
<1>3. /\ unsent' \in [Ends -> Segments] /\ unsent'[e] \in {unsent[e], NoSegment}
      /\ \A x \in Ends \ {e} : unsent'[x] = unsent[x]
  BY <1>1, NoSegmentIs DEF Typed
<1>4. Windows(s, NoSegment, sent[e])
  <2>1. Len(NoSegment.data) <= sent[e]
    BY <1>1, NoSegmentIs
  <2> QED
    BY <1>1, <2>1, Zenon DEF Windows
<1>5. Typed'
  BY <1>1, <1>2, <1>3, Zenon DEF Typed
<1>6. LocalTo(e) /\ Kept(e)'
  BY <1>1, <1>2, <1>3, <1>4, Zenon DEF LocalTo, Kept
<1> QED
  BY <1>2, <1>5, <1>6, LocalType

\* Retransmission keeps the types.
LEMMA RetransmitType ==
  ASSUME TypeInv, NEW e \in Ends, Retransmit(e)
  PROVE  TypeInv' /\ LocalTo(e)
<1> DEFINE s == sock[e]
           q == s.retransmit_queue
<1>1. s \in Sockets /\ Kept(e) /\ Typed
  BY EndTypes
<1>2. UNCHANGED <<listening, mss, prog, left, failures, sent, got>>
  BY Zenon DEF Retransmit
<1>3. timeouts' \in Nat /\ mss' \in Nat \ {0} /\ failures' \in Nat
  <2>1. \E late : (late # {} => timeouts > 0) /\ timeouts' = IF late = {} THEN timeouts ELSE timeouts - 1
    BY Zenon DEF Retransmit
  <2>2. timeouts' \in Nat
    BY <1>1, <2>1 DEF Typed
  <2> QED
    BY <1>1, <1>2, <2>2, Zenon DEF Typed
<1>4. CASE SetSock(e, DeadSock(s)) /\ UNCHANGED <<net, unsent>>
  <2>1. DeadSock(s) \in Sockets /\ Windows(DeadSock(s), unsent[e], sent[e])
    BY <1>1, DeadType DEF Kept
  <2>2. net' \subseteq Segments
    BY <1>1, <1>4, Zenon DEF Typed
  <2> QED
    BY <1>2, <1>3, <1>4, <2>1, <2>2, LeavesType
<1>5. ASSUME NEW r, Marked(r, q), SetSock(e, [s EXCEPT !.retransmit_queue = r]), Resent(e)
      PROVE  TypeInv' /\ LocalTo(e)
  <2>1. [s EXCEPT !.retransmit_queue = r] \in Sockets
        /\ Windows([s EXCEPT !.retransmit_queue = r], unsent[e], sent[e])
    BY <1>1, <1>5, MarkedWindows DEF Kept
  <2>2. net' \subseteq Segments
    <3>1. ASSUME NEW c \in net' \ net
          PROVE  c \in Segments
      <4>1. PICK i \in DOMAIN q : c \in Chunks(q[i].seg)
        BY <1>5, Zenon DEF Resent
      <4>2. q[i].seg \in Segments /\ mss \in Nat \ {0}
        <5>1. q \in Seq(Tracked)
          BY <1>1 DEF Sockets
        <5>2. q[i] \in Tracked
          BY <5>1
        <5> QED
          BY <1>1, <5>2 DEF Tracked, Typed
      <4>3. c = q[i].seg \/ \E j : PieceOf(c, q[i].seg, j)
        BY <4>1, <4>2, ChunkIs
      <4> QED
        BY <4>2, <4>3, Zenon DEF PieceOf
    <3>2. net \subseteq Segments
      BY <1>1, Zenon DEF Typed
    <3> QED
      BY <3>1, <3>2, Zenon
  <2>3. unsent' \in {unsent, [unsent EXCEPT ![e] = NoSegment]}
    BY <1>5, Zenon DEF Resent
  <2> QED
    BY <1>2, <1>3, <1>5, <2>1, <2>2, <2>3, LeavesType
<1> QED
  BY <1>4, <1>5, RetransmitIs, Zenon

\* The socket that poll_retransmits drops.
PolledSock(s) == [s EXCEPT !.retransmit_queue = <<>>, !.registered = FALSE]

\* A closed connection is dropped.
LEMMA PollClosedType ==
  ASSUME TypeInv, NEW e \in Ends, PollClosed(e)
  PROVE  TypeInv' /\ LocalTo(e) /\ sock'[e] = PolledSock(sock[e])
<1> DEFINE n == PolledSock(sock[e])
<1>1. sock[e] \in Sockets /\ Kept(e) /\ Typed
  BY EndTypes
<1>2. SetSock(e, n) /\ UNCHANGED <<listening, net, mss, appVars, faults, sent, got>>
  BY Zenon DEF PollClosed, PolledSock
<1>3. n \in Sockets /\ Windows(n, unsent[e], sent[e])
  <2>1. <<>> \in Seq(Tracked) /\ Len(<<>>) = 0
    OBVIOUS
  <2>2. 0 <= TCP_SEND_WINDOW_SEGMENTS + 1 /\ 0 <= TCP_SEND_WINDOW_SEGMENTS
    BY TcpAssumption
  <2> QED
    BY <1>1, <2>1, <2>2 DEF Sockets, Windows, PolledSock, Kept
<1> HIDE DEF n
<1>4. net' \subseteq Segments /\ mss' \in Nat \ {0} /\ failures' \in Nat /\ timeouts' \in Nat
  BY <1>1, <1>2, Zenon DEF Typed, faults
<1>5. TypeInv' /\ LocalTo(e) /\ sock'[e] = n
  BY <1>2, <1>3, <1>4, SockType
<1> QED
  BY <1>5 DEF n

\* What handle_pmtu_update does to the queue of e.
LEMMA PmtuIs ==
  ASSUME TypeInv, NEW e \in Ends, PmtuUpdate(e)
  PROVE  \E r : /\ Marked(r, sock[e].retransmit_queue)
                /\ SetSock(e, [sock[e] EXCEPT !.retransmit_queue = r])
<1> DEFINE s == sock[e]
           q == s.retransmit_queue
           mark(m) == [i \in DOMAIN q |-> IF q[i].seg.seq = m.seq \/ Len(q[i].seg.data) > 1
                                          THEN [q[i] EXCEPT !.needs = TRUE] ELSE q[i]]
<1>1. s \in Sockets
  BY EndTypes
<1>2. q \in Seq(Tracked) /\ DOMAIN q = 1..Len(q) /\ Len(q) \in Nat /\ \A i \in DOMAIN q : q[i] \in Tracked
  BY <1>1 DEF Sockets
<1>3. PICK m \in net : SetSock(e, [s EXCEPT !.retransmit_queue = mark(m)])
  BY Zenon DEF PmtuUpdate
<1>4. PICK r : r = mark(m)
  BY Zenon
<1>5. ASSUME NEW i \in DOMAIN q
      PROVE  r[i] \in Tracked /\ r[i].seg = q[i].seg
  <2>1. q[i] \in Tracked
    BY <1>2
  <2>2. r[i] = [q[i] EXCEPT !.needs = TRUE] \/ r[i] = q[i]
    BY <1>4, Zenon
  <2> QED
    BY <2>1, <2>2 DEF Tracked
<1>6. DOMAIN r = DOMAIN q /\ r = [i \in DOMAIN q |-> r[i]]
  BY <1>4, Zenon
<1>7. r \in Seq(Tracked) /\ Len(r) = Len(q)
  <2>1. PICK l \in Nat : l = Len(q) /\ DOMAIN q = 1..l
    BY <1>2
  <2>2. r \in [1..l -> Tracked]
    BY <1>5, <1>6, <2>1, Zenon
  <2> QED
    BY <2>1, <2>2
<1>8. Marked(r, q)
  BY <1>5, <1>6, <1>7, Zenon DEF Marked
<1>9. SetSock(e, [s EXCEPT !.retransmit_queue = r])
  BY <1>3, <1>4, Zenon
<1> QED
  BY <1>8, <1>9, Zenon

\* Path-MTU feedback keeps the types.
LEMMA PmtuUpdateType ==
  ASSUME TypeInv, NEW e \in Ends, PmtuUpdate(e)
  PROVE  TypeInv' /\ LocalTo(e)
<1>1. sock[e] \in Sockets /\ Kept(e) /\ Typed
  BY EndTypes
<1>2. PICK r : /\ Marked(r, sock[e].retransmit_queue)
               /\ SetSock(e, [sock[e] EXCEPT !.retransmit_queue = r])
  BY PmtuIs
<1>3. mss' = 1 /\ UNCHANGED <<listening, net, appVars, faults, sent, got>>
  BY Zenon DEF PmtuUpdate
<1>4. mss' \in Nat \ {0}
  BY <1>3
<1>5. net' \subseteq Segments /\ failures' \in Nat /\ timeouts' \in Nat
  BY <1>1, <1>3, Zenon DEF Typed, faults
<1>6. [sock[e] EXCEPT !.retransmit_queue = r] \in Sockets
      /\ Windows([sock[e] EXCEPT !.retransmit_queue = r], unsent[e], sent[e])
  BY <1>1, <1>2, MarkedWindows DEF Kept
<1> QED
  BY <1>2, <1>3, <1>4, <1>5, <1>6, SockType

-----------------------------------------------------------------------------
(* Type correctness *)

\* The first state.
LEMMA InitType ==
  ASSUME Init
  PROVE  TypeInv
<1>1. PICK x \in Scenarios : prog = x.calls /\ mss = x.mss /\ failures = x.failures /\ timeouts = x.timeouts
  BY Zenon DEF Init
<1>2. x \in [calls : [Ends -> Seq(Calls)], mss : Nat \ {0}, timeouts : Nat, failures : Nat]
      /\ \A e \in Ends : CloseIsLast(x.calls[e])
  BY TcpAssumption, Zenon
<1>3. prog \in [Ends -> Seq(Calls)] /\ mss \in Nat \ {0} /\ failures \in Nat /\ timeouts \in Nat
  BY <1>1, <1>2
<1>4. ASSUME NEW e \in Ends
      PROVE  NewSocket(e) \in Sockets /\ Windows(NewSocket(e), NoSegment, 0)
  <2>1. <<>> \in Seq(Nat) /\ <<>> \in Seq(Pieces) /\ <<>> \in Seq(Tracked) /\ Len(<<>>) = 0
    OBVIOUS
  <2>2. "Open" \in States /\ "none" \in Errors /\ Iss[e] \in Seqs /\ 0 \in Seqs
    BY SpaceFacts DEF States, Errors, Seqs
  <2>3. 0 <= TCP_SEND_WINDOW_SEGMENTS + 1 /\ 0 <= TCP_SEND_WINDOW_SEGMENTS /\ 0 <= TCP_MAX_OUT_OF_ORDER_SEGMENTS
    BY TcpAssumption
  <2>4. Len(NoSegment.data) <= 0
    BY <2>1, NoSegmentIs
  <2> QED
    BY <2>1, <2>2, <2>3, <2>4 DEF Sockets, Windows, NewSocket
<1>5. sock \in [Ends -> Sockets] /\ \A e \in Ends : Windows(sock[e], NoSegment, 0)
  <2>1. sock = [e \in Ends |-> NewSocket(e)]
    BY Zenon DEF Init
  <2> QED
    BY <1>4, <2>1, Zenon
<1>6. unsent \in [Ends -> Segments] /\ \A e \in Ends : unsent[e] = NoSegment
  BY NoSegmentIs, Zenon DEF Init
<1>7. sent \in [Ends -> Nat] /\ (\A e \in Ends : sent[e] = 0) /\ left \in [Ends -> Nat]
  BY DEF Init
<1>8. got \in [Ends -> Seq(Nat)]
  <2>1. <<>> \in Seq(Nat)
    OBVIOUS
  <2> QED
    BY <2>1, Zenon DEF Init
<1>9. listening \in BOOLEAN /\ net \subseteq Segments
  BY Zenon DEF Init
<1> QED
  BY <1>1, <1>2, <1>3, <1>5, <1>6, <1>7, <1>8, <1>9, Zenon DEF TypeInv

\* Nothing happens.
LEMMA StutterType ==
  ASSUME TypeInv, UNCHANGED vars
  PROVE  TypeInv'
<1>1. UNCHANGED <<sock, listening, net, mss, prog, left, unsent, failures, timeouts, sent, got>>
  BY Zenon DEF vars, appVars, faults
<1> QED
  BY <1>1, Zenon DEF TypeInv

\* Calls that return and change nothing.
LEMMA ReturnsType ==
  ASSUME TypeInv, NEW e \in Ends,
         ReadEof(e) \/ (e = Client /\ ConnectAgain) \/ (e = Server /\ Accept)
  PROVE  TypeInv' /\ LocalTo(e) /\ sock'[e] = sock[e]
<1>1. /\ prog[e] # <<>> /\ NextCall(e)
      /\ UNCHANGED <<sock, net, mss, left, unsent, faults, sent, got>>
      /\ listening' \in {listening, FALSE}
  BY DEF ReadEof, ConnectAgain, Accept, At
<1>2. listening' \in BOOLEAN
  BY <1>1 DEF TypeInv
<1> QED
  BY <1>1, <1>2, ReturnType

\* Every action keeps the types.
LEMMA NextType ==
  ASSUME TypeInv, SendingInv, Next
  PROVE  TypeInv'
<1>1. Client \in Ends /\ Server \in Ends
  BY Zenon DEF Ends
<1>2. CASE Connect \/ ConnectFail \/ ConnectAgain \/ ConnectDone \/ ConnectTimeout \/ Accept
  BY <1>1, <1>2, ConnectType, ConnectFailType, ReturnsType, ConnectDoneType, ConnectTimeoutType
<1>3. ASSUME NEW e \in Ends, App(e) \/ Retransmit(e) \/ PollClosed(e) \/ PmtuUpdate(e)
      PROVE  TypeInv'
  BY <1>3, SendBeginType, SendRefusedType, SendTimeoutType, SendTrackType, SendOkType, SendFailType,
     ReadSomeType, ReturnsType, ShutdownType, CloseType, RetransmitType, PollClosedType, PmtuUpdateType
     DEF App
<1>4. ASSUME NEW m \in net, Rcv(m)
      PROVE  TypeInv'
  BY <1>4, RcvListenType, RcvResetType, RcvSynSentType, RcvSynReceivedType, RcvEstablishedType,
     RcvFinWaitType, RcvLastAckType, RcvIgnoredType, RcvUnmatchedType DEF Rcv
<1> QED
  BY <1>2, <1>3, <1>4, Zenon DEF Next

\* The segment being sent stays as it is.
LEMMA SendingSame ==
  ASSUME SendingInv, UNCHANGED <<sending, unsent, sent, escaped>>,
         aborted' = aborted \/ \E e \in Ends : aborted' = aborted \cup {e}
  PROVE  SendingInv'
<1>1. aborted' \subseteq Ends
  BY Zenon DEF SendingInv
<1> QED
  BY <1>1, Zenon DEF SendingInv

\* A segment is tracked.
LEMMA SendTrackSending ==
  ASSUME TypeInv, SendingInv, NEW e \in Ends, SendTrack(e)
  PROVE  SendingInv'
<1>1. sent[e] \in Nat
  BY EndTypes
<1>2. PICK g, take, n : Tracks(e, g, take, n)
  BY SendTrackIs, Zenon
<1>3. /\ take \in Nat /\ g \in Segments /\ Len(g.data) = take
      /\ sending' = [sending EXCEPT ![e] = g] /\ unsent' = [unsent EXCEPT ![e] = g]
      /\ sent' = [sent EXCEPT ![e] = sent[e] + take]
  BY <1>2, Zenon DEF Tracks
<1>4. Len(g.data) <= sent[e] + take
  BY <1>1, <1>3
<1>5. UNCHANGED <<escaped, aborted>>
  BY Zenon DEF SendTrack, fate
<1>6. unsent \in [Ends -> Segments] /\ sent \in [Ends -> Nat]
  BY Zenon DEF TypeInv
<1>7. /\ sending' \in [Ends -> Segments] /\ sending'[e] = g /\ unsent'[e] = g /\ sent'[e] = sent[e] + take
      /\ \A x \in Ends \ {e} : sending'[x] = sending[x] /\ unsent'[x] = unsent[x] /\ sent'[x] = sent[x]
  BY <1>3, <1>6 DEF SendingInv
<1> QED
  BY <1>4, <1>5, <1>7, Zenon DEF SendingInv

\* A send returns.
LEMMA SendReturnsSending ==
  ASSUME TypeInv, SendingInv, NEW e \in Ends, SendOk(e) \/ SendFail(e)
  PROVE  SendingInv' /\ aborted' = aborted /\ (escaped => escaped')
<1>1. SendReturns(e) /\ aborted' = aborted
  BY Zenon DEF SendOk, SendFail, fate
<1>2. /\ escaped' \in BOOLEAN /\ (escaped => escaped')
      /\ sent' = sent \/ sent' = [sent EXCEPT ![e] = @ - Len(sending[e].data)]
  BY Zenon DEF SendOk, SendFail, fate, SendingInv
<1>3. unsent \in [Ends -> Segments] /\ sent \in [Ends -> Nat] /\ sent'[e] \in Nat
  <2>1. TypeInv'
    BY SendOkType, SendFailType
  <2> QED
    BY <2>1, Zenon DEF TypeInv
<1>4. Len(NoSegment.data) <= sent'[e]
  BY <1>3, NoSegmentIs
<1>5. /\ sending' \in [Ends -> Segments] /\ sending'[e] = NoSegment /\ unsent'[e] = NoSegment
      /\ \A x \in Ends \ {e} : sending'[x] = sending[x] /\ unsent'[x] = unsent[x]
  BY <1>1, <1>3, NoSegmentIs, Zenon DEF SendReturns, SendingInv
<1>6. \A x \in Ends \ {e} : sent'[x] = sent[x]
  BY <1>2, <1>3, Zenon
<1> QED
  BY <1>1, <1>2, <1>4, <1>5, <1>6, Zenon DEF SendingInv

\* A retransmission, after which the segment under way may have left.
LEMMA RetransmitSending ==
  ASSUME TypeInv, SendingInv, NEW e \in Ends, Retransmit(e)
  PROVE  SendingInv' /\ aborted \subseteq aborted' /\ escaped' = escaped
<1>1. UNCHANGED <<sending, sent, escaped>>
  BY Zenon DEF Retransmit
<1>2. \/ aborted' = aborted \cup {e} /\ UNCHANGED unsent
      \/ aborted' = aborted /\ Resent(e)
  BY RetransmitIs, Zenon
<1>3. unsent' = unsent \/ unsent' = [unsent EXCEPT ![e] = NoSegment]
  BY <1>2, Zenon DEF Resent
<1>4. unsent \in [Ends -> Segments]
  BY Zenon DEF TypeInv
<1>5. \A x \in Ends : unsent'[x] \in {unsent[x], NoSegment}
  BY <1>3, <1>4, Zenon
<1>6. aborted' \subseteq Ends /\ aborted \subseteq aborted'
  BY <1>2, Zenon DEF SendingInv
<1>7. \A x \in Ends : unsent'[x] \in {sending[x], NoSegment}
  BY <1>5, Zenon DEF SendingInv
<1> QED
  BY <1>1, <1>6, <1>7, Zenon DEF SendingInv

\* Other actions leave the segment being sent alone.
LEMMA NextSending ==
  ASSUME TypeInv, SendingInv, Next
  PROVE  SendingInv' /\ aborted \subseteq aborted' /\ (escaped => escaped')
<1>1. Client \in Ends /\ Server \in Ends
  BY Zenon DEF Ends
<1> DEFINE Same == UNCHANGED <<sending, unsent, sent, escaped>>
           Cut == aborted' = aborted \/ \E e \in Ends : aborted' = aborted \cup {e}
<1>2. Same /\ Cut => SendingInv' /\ aborted \subseteq aborted' /\ (escaped => escaped')
  <2> SUFFICES ASSUME Same, Cut
               PROVE  SendingInv' /\ aborted \subseteq aborted' /\ (escaped => escaped')
    OBVIOUS
  <2>1. SendingInv'
    BY SendingSame
  <2>2. aborted \subseteq aborted'
    BY Zenon
  <2>3. escaped => escaped'
    BY SMT
  <2> QED
    BY <2>1, <2>2, <2>3
<1>3. CASE Connect \/ ConnectFail \/ ConnectAgain \/ ConnectDone \/ ConnectTimeout \/ Accept
  <2>1. Same /\ aborted' \in {aborted, aborted \cup {Client}}
    BY <1>3, Zenon DEF Connect, ConnectFail, ConnectAgain, ConnectDone, ConnectTimeout, Accept, fate
  <2> QED
    BY <1>1, <1>2, <2>1, Zenon
<1>4. ASSUME NEW e \in Ends, App(e) \/ Retransmit(e) \/ PollClosed(e) \/ PmtuUpdate(e)
      PROVE  SendingInv' /\ aborted \subseteq aborted' /\ (escaped => escaped')
  <2>1. CASE SendBegin(e) \/ SendRefused(e) \/ SendTimeout(e) \/ ReadSome(e) \/ ReadEof(e)
             \/ PollClosed(e) \/ PmtuUpdate(e)
    BY <1>2, <2>1, Zenon DEF SendBegin, SendRefused, SendTimeout, ReadSome, ReadEof, PollClosed,
       PmtuUpdate, appVars, fate
  <2>2. CASE Shutdown(e) \/ Close(e)
    BY <1>2, <2>2, Zenon DEF Shutdown, Close, fate
  <2>3. CASE SendTrack(e)
    <3>1. UNCHANGED <<escaped, aborted>>
      BY <2>3, Zenon DEF SendTrack, fate
    <3> QED
      BY <2>3, <3>1, SendTrackSending, Zenon
  <2>4. CASE SendOk(e) \/ SendFail(e)
    BY <2>4, SendReturnsSending, Zenon
  <2>5. CASE Retransmit(e)
    BY <2>5, RetransmitSending, Zenon
  <2> QED
    BY <1>4, <2>1, <2>2, <2>3, <2>4, <2>5, Zenon DEF App
<1>5. ASSUME NEW m \in net, Rcv(m)
      PROVE  SendingInv' /\ aborted \subseteq aborted' /\ (escaped => escaped')
  <2>1. CASE RcvReset(m)
    <3>1. m.to \in Ends
      BY NetType
    <3> QED
      BY <1>2, <2>1, <3>1, Zenon DEF RcvReset, appVars
  <2>2. CASE ~RcvReset(m)
    <3>1. \E s, replies : Receive(m, s, replies)
      BY <1>5, <2>2, Zenon DEF Rcv, RcvListen, RcvSynSent, RcvSynReceived, RcvEstablished, RcvFinWait1,
         RcvFinWait2, RcvHalfClosed, RcvLastAck, RcvIgnored, RcvUnmatched
    <3>2. Same /\ aborted' = aborted
      BY <3>1, Zenon DEF Receive, appVars, fate
    <3> QED
      BY <1>2, <3>2, Zenon
  <2> QED
    BY <2>1, <2>2
<1> QED
  BY <1>3, <1>4, <1>5, Zenon DEF Next

\* Nothing happens.
LEMMA StutterSending ==
  ASSUME SendingInv, UNCHANGED vars
  PROVE  SendingInv'
<1>1. UNCHANGED <<sending, unsent, sent, escaped, aborted>>
  BY Zenon DEF vars, appVars, fate
<1> QED
  BY <1>1, SendingSame, Zenon

\* The first state.
LEMMA InitSending ==
  ASSUME Init
  PROVE  SendingInv
<1>1. Len(NoSegment.data) <= 0
  BY NoSegmentIs
<1>2. /\ sending = [e \in Ends |-> NoSegment] /\ unsent = [e \in Ends |-> NoSegment]
      /\ sent = [e \in Ends |-> 0] /\ escaped = FALSE /\ aborted = {}
  BY Zenon DEF Init
<1> QED
  BY <1>1, <1>2, NoSegmentIs, Zenon DEF SendingInv

\* TypeInv and SendingInv are the inductive form of TypeOK.
LEMMA TypeImplied ==
  ASSUME TypeInv, SendingInv
  PROVE  TypeOK
<1>1. ASSUME NEW e \in Ends
      PROVE  LET s == sock[e]
             IN /\ s.state \in States /\ s.send_seq \in Seqs /\ s.recv_seq \in Seqs
                /\ s.pending_fin_seq \in Seqs \cup {NoFin} /\ s.registered \in BOOLEAN
                /\ s.so_error \in {"none", "ETIMEDOUT", "ECONNRESET", "ECONNREFUSED"}
                /\ Len(s.retransmit_queue) <= TCP_SEND_WINDOW_SEGMENTS + 1
                /\ \A i \in DOMAIN s.retransmit_queue :
                     /\ s.retransmit_queue[i].seg \in Segments
                     /\ s.retransmit_queue[i].retries \in 0..TCP_MAX_RETRIES
                /\ Len(s.out_of_order_queue) <= TCP_MAX_OUT_OF_ORDER_SEGMENTS
                /\ left[e] \in Nat /\ sent[e] \in Nat /\ got[e] \in Seq(Nat)
                /\ sending[e] \in Segments /\ unsent[e] \in {sending[e], NoSegment}
  <2>1. sock[e] \in Sockets /\ Kept(e) /\ left[e] \in Nat /\ sent[e] \in Nat /\ got[e] \in Seq(Nat)
        /\ sending[e] \in Segments /\ unsent[e] \in {sending[e], NoSegment}
    BY EndTypes, Zenon DEF SendingInv
  <2>2. \A i \in DOMAIN sock[e].retransmit_queue : sock[e].retransmit_queue[i] \in Tracked
    BY <2>1 DEF Sockets
  <2>3. \A i \in DOMAIN sock[e].retransmit_queue :
          /\ sock[e].retransmit_queue[i].seg \in Segments
          /\ sock[e].retransmit_queue[i].retries \in 0..TCP_MAX_RETRIES
    BY <2>2 DEF Tracked
  <2>4. /\ Len(sock[e].retransmit_queue) <= TCP_SEND_WINDOW_SEGMENTS + 1
        /\ Len(sock[e].out_of_order_queue) <= TCP_MAX_OUT_OF_ORDER_SEGMENTS
    BY <2>1, Zenon DEF Kept, Windows
  <2>5. /\ sock[e].state \in States /\ sock[e].send_seq \in Seqs /\ sock[e].recv_seq \in Seqs
        /\ sock[e].pending_fin_seq \in Seqs \cup {NoFin} /\ sock[e].registered \in BOOLEAN
        /\ sock[e].so_error \in {"none", "ETIMEDOUT", "ECONNRESET", "ECONNREFUSED"}
    BY <2>1 DEF Sockets, Errors
  <2> QED
    BY <2>1, <2>3, <2>4, <2>5, Zenon
<1> QED
  BY <1>1, Zenon DEF TypeOK, TypeInv, SendingInv

\* Types: every socket field, tracked segment and queue of tcp.rs stays in its
\* range, the send window bounds the retransmission queue (with one FIN beyond it)
\* and TCP_MAX_OUT_OF_ORDER_SEGMENTS the reassembly queue, whatever the network
\* does.
THEOREM TypeCorrect == Spec => []TypeOK
<1>1. Init => TypeInv /\ SendingInv
  BY InitType, InitSending
<1>2. TypeInv /\ SendingInv /\ [Next]_vars => TypeInv' /\ SendingInv'
  BY NextType, StutterType, NextSending, StutterSending
<1>3. TypeInv /\ SendingInv => TypeOK
  BY TypeImplied
<1> QED
  BY <1>1, <1>2, <1>3, PTL DEF Spec

-----------------------------------------------------------------------------
(* The streams *)

\* How far socket s of e has numbered its stream, and received that of its peer.
SendPos(e, s) == Pos(e, s.send_seq)
RecvPos(e, s) == Pos(Peer(e), s.recv_seq)

\* s has recorded the peer's sequence number, and acknowledges no more than the
\* places before L, which the peer has sent.
Valid(e, s, L) ==
  s.state \notin {"Open", "SynSent"} /\ 1 <= RecvPos(e, s) /\ RecvPos(e, s) <= L

\* The bytes d are those of a stream from place p on, up to byte n.
Carries(p, d, n) == p >= 1 /\ p + Len(d) - 1 <= n /\ \A i \in 1..Len(d) : d[i] = p + i - 1

\* A segment that e, with socket s, may have sent: k of its bytes are numbered, G of
\* them have left it, and the peer has sent the places before L.
Good(e, s, k, G, L, g) ==
  "RST" \in g.flags \/
  /\ g.flags \in {{"SYN"}, {"SYN", "ACK"}, {"ACK"}, {"FIN", "ACK"}}
  /\ g.flags = {"SYN"} => e = Client
  /\ "SYN" \in g.flags => g.data = <<>> /\ Pos(e, g.seq) = 0 /\ s.state # "Open"
  /\ "FIN" \in g.flags => g.data = <<>> /\ Pos(e, g.seq) = k + 1 /\ SendPos(e, s) = k + 2
  /\ "ACK" \in g.flags => Valid(e, s, L) /\ 1 <= Pos(Peer(e), g.ack) /\ Pos(Peer(e), g.ack) <= RecvPos(e, s)
  /\ g.data # <<>> => Carries(Pos(e, g.seq), g.data, G)

\* The segment that has its number and has not left yet.
Fresh(e, s, k, L, g) ==
  /\ g.to = Peer(e) /\ g.flags = {"ACK"} /\ g.data # <<>>
  /\ Carries(Pos(e, g.seq), g.data, k) /\ Pos(e, g.seq) = k - Len(g.data) + 1
  /\ Valid(e, s, L) /\ 1 <= Pos(Peer(e), g.ack) /\ Pos(Peer(e), g.ack) <= RecvPos(e, s)
  /\ SendPos(e, s) = k + 1

\* The numbers of the sender; h is what its application has read.
Numbers(e, s, u, k, h, L) ==
  /\ s.state = "Open" => SendPos(e, s) = 0 /\ ~s.registered
  /\ s.state # "Open" => SendPos(e, s) = k + 1 \/ SendPos(e, s) = k + 2
  /\ s.state \in Unfinished \ {"Open"} => SendPos(e, s) = k + 1
  /\ s.state \in {"FinWait1", "FinWait2", "LastAck"} => SendPos(e, s) = k + 2
  /\ s.state \in {"Open", "SynSent", "SynReceived"} =>
       k = 0 /\ u = NoSegment /\ h = <<>> /\ s.receive_queue = <<>>
  /\ u # NoSegment => Fresh(e, s, k, L, u)

\* What is tracked has left, but for the segment under way.
Queue(e, s, u, k, L) ==
  \A i \in DOMAIN s.retransmit_queue :
    LET g == s.retransmit_queue[i].seg
    IN \/ g = u /\ u # NoSegment
       \/ g.to = Peer(e) /\ "RST" \notin g.flags /\ Good(e, s, k, k - Len(u.data), L, g)

\* What has been received, and what is kept for later: the peer has numbered k bytes,
\* of which G have left it, and fin says that it has numbered its FIN.
Reception(e, s, h, G, k, fin) ==
  /\ h \o s.receive_queue = Bytes(Len(h \o s.receive_queue))
  /\ s.state \in {"SynReceived", "Established", "FinWait1", "FinWait2"} =>
       Len(h \o s.receive_queue) = RecvPos(e, s) - 1 /\ RecvPos(e, s) <= G + 1
  /\ s.state \in {"CloseWait", "LastAck"} =>
       Len(h \o s.receive_queue) = k /\ RecvPos(e, s) = k + 2 /\ fin
  /\ \A i \in DOMAIN s.out_of_order_queue :
       Carries(Pos(Peer(e), s.out_of_order_queue[i].seq), s.out_of_order_queue[i].data, G)
  /\ s.pending_fin_seq # NoFin => Pos(Peer(e), s.pending_fin_seq) = k + 1 /\ fin

\* Byte b is tracked.
Holds(s, b) == \E i \in DOMAIN s.retransmit_queue : b \in ToSet(s.retransmit_queue[i].seg.data)

\* A sender knows that its peer is there (v), which has received the places before r;
\* it holds the bytes from there on.
Remembers(s, k, v, r) ==
  /\ k > 0 \/ s.state \notin {"Open", "SynSent", "SynReceived", "Closed"} => v
  /\ s.state \notin {"Open", "SynSent", "Closed"} =>
       \A b \in Nat \ {0} : r <= b /\ b <= k => Holds(s, b)

\* The part of the invariant about the socket s of e, given what its peer has sent.
Own(e, s, u, k, h, L, G, kp, fin) ==
  /\ Numbers(e, s, u, k, h, L) /\ Queue(e, s, u, k, L) /\ Reception(e, s, h, G, kp, fin)
  /\ s.state \notin {"Open", "SynSent", "Closed"} => Valid(e, s, L)

Gone(e)  == sent[e] - Len(unsent[e].data)
Lim(e)   == SendPos(e, sock[e]) - Len(unsent[e].data)
Fin(e)   == SendPos(e, sock[e]) = sent[e] + 2
Val(e)   == Valid(e, sock[e], Lim(Peer(e)))
Recv(e)  == RecvPos(e, sock[e])

OwnInv(e) ==
  Own(e, sock[e], unsent[e], sent[e], got[e], Lim(Peer(e)), Gone(Peer(e)), sent[Peer(e)], Fin(Peer(e)))

CrossInv(e) == Remembers(sock[e], sent[e], Val(Peer(e)), Recv(Peer(e)))

Sent(e, g) == Good(e, sock[e], sent[e], Gone(e), Lim(Peer(e)), g)

\* Nothing is called after close.
LastCall(e) == sock[e].state = "LastAck" => prog[e] = <<>>

\* A connection that has ended in order has received all that its peer will send.
EndInv(e) ==
  sock[e].state = "Closed" /\ e \notin aborted =>
    Len(got[e] \o sock[e].receive_queue) = sent[Peer(e)] /\ Fin(Peer(e))

\* What a send call is still sending, and has already left in some pieces.
LeftInv(e) ==
  sending[e] # NoSegment /\ unsent[e] = NoSegment =>
    sending[e] \in Segments /\ sending[e].to = Peer(e) /\ Sent(e, sending[e])

StreamInv ==
  /\ \A e \in Ends : OwnInv(e) /\ CrossInv(e) /\ LastCall(e) /\ EndInv(e) /\ LeftInv(e)
  /\ \A m \in net : Sent(Peer(m.to), m)

\* Apart from the streams, a step of e ends no connection in order again, and leaves
\* alone what is being sent, or has it sent, or under way.
Calm(e) ==
  /\ aborted \subseteq aborted'
  /\ sending'[Peer(e)] = sending[Peer(e)]
  /\ \/ sending'[e] = sending[e] /\ unsent'[e] = unsent[e]
     \/ sending'[e] \in {NoSegment, unsent'[e]}
     \/ LeftInv(e)'

\* With socket n, a step of e that ends its connection in order has received all.
EndOf(e, n, h) ==
  n.state = "Closed" /\ e \notin aborted' =>
    Len(h \o n.receive_queue) = sent[Peer(e)] /\ Fin(Peer(e))

\* The places of a socket.
LEMMA SockPos ==
  ASSUME NEW e \in Ends, NEW s \in Sockets
  PROVE  /\ SendPos(e, s) \in Nat /\ SendPos(e, s) < SeqSpace
         /\ RecvPos(e, s) \in Nat /\ RecvPos(e, s) < SeqSpace
         /\ s.send_seq \in Seqs /\ s.recv_seq \in Seqs
<1>1. s.send_seq \in Seqs /\ s.recv_seq \in Seqs /\ Peer(e) \in Ends
  BY PeerFacts DEF Sockets
<1>2. /\ Pos(e, s.send_seq) \in Seqs /\ Pos(e, s.send_seq) \in Nat
      /\ Pos(Peer(e), s.recv_seq) \in Seqs /\ Pos(Peer(e), s.recv_seq) \in Nat
  BY <1>1, PosFacts
<1>3. \A x \in Seqs : x < SeqSpace
  BY SpaceFacts DEF Seqs
<1> QED
  BY <1>1, <1>2, <1>3, Zenon DEF SendPos, RecvPos

\* The places of a segment of e.
LEMMA SegmentPos ==
  ASSUME NEW e \in Ends, NEW g \in Segments
  PROVE  /\ Pos(e, g.seq) \in Nat /\ Pos(Peer(e), g.ack) \in Nat
         /\ g.data \in Seq(Nat) /\ Len(g.data) \in Nat /\ (g.data = <<>> <=> Len(g.data) = 0)
<1>1. g.seq \in Seqs /\ g.ack \in Seqs /\ Peer(e) \in Ends /\ g.data \in Seq(Nat)
  BY PeerFacts DEF Segments
<1>2. Len(g.data) \in Nat /\ (g.data = <<>> <=> Len(g.data) = 0)
  BY <1>1, EmptySeq
<1> QED
  BY <1>1, <1>2, PosFacts

\* More bytes may have left.
LEMMA CarriesMono ==
  ASSUME NEW p \in Int, NEW d, Len(d) \in Nat, NEW n \in Int, NEW m \in Int, n <= m, Carries(p, d, n)
  PROVE  Carries(p, d, m)
<1>1. p >= 1 /\ p + Len(d) - 1 <= n /\ \A i \in 1..Len(d) : d[i] = p + i - 1
  BY Zenon DEF Carries
<1>2. p + Len(d) - 1 <= m
  BY <1>1
<1> QED
  BY <1>1, <1>2, Zenon DEF Carries

\* What socket s of e has done, t has done as well.
Further(e, s, k, G, L, t, kt, Gt, Lt) ==
  /\ Valid(e, s, L) => Valid(e, t, Lt) /\ RecvPos(e, s) <= RecvPos(e, t)
  /\ s.state # "Open" => t.state # "Open"
  /\ SendPos(e, s) = k + 2 => SendPos(e, t) = kt + 2 /\ kt = k
  /\ G <= Gt

\* A segment stays good.
LEMMA GoodMono ==
  ASSUME NEW e \in Ends, NEW s \in Sockets, NEW t \in Sockets, NEW k \in Int, NEW kt \in Int,
         NEW G \in Int, NEW Gt \in Int, NEW L \in Int, NEW Lt \in Int,
         Further(e, s, k, G, L, t, kt, Gt, Lt), NEW g \in Segments, Good(e, s, k, G, L, g)
  PROVE  Good(e, t, kt, Gt, Lt, g)
<1>1. /\ SendPos(e, s) \in Nat /\ RecvPos(e, s) \in Nat /\ SendPos(e, t) \in Nat /\ RecvPos(e, t) \in Nat
  BY SockPos
<1>2. /\ Pos(e, g.seq) \in Nat /\ Pos(Peer(e), g.ack) \in Nat /\ Len(g.data) \in Nat
  BY SegmentPos
<1>3. CASE "RST" \in g.flags
  BY <1>3, Zenon DEF Good
<1>4. CASE "RST" \notin g.flags
  <2>1. /\ g.flags \in {{"SYN"}, {"SYN", "ACK"}, {"ACK"}, {"FIN", "ACK"}}
        /\ g.flags = {"SYN"} => e = Client
        /\ "SYN" \in g.flags => g.data = <<>> /\ Pos(e, g.seq) = 0 /\ s.state # "Open"
        /\ "FIN" \in g.flags => g.data = <<>> /\ Pos(e, g.seq) = k + 1 /\ SendPos(e, s) = k + 2
        /\ "ACK" \in g.flags => Valid(e, s, L) /\ 1 <= Pos(Peer(e), g.ack) /\ Pos(Peer(e), g.ack) <= RecvPos(e, s)
        /\ g.data # <<>> => Carries(Pos(e, g.seq), g.data, G)
    BY <1>4, Zenon DEF Good
  <2>2. "ACK" \in g.flags => Valid(e, t, Lt) /\ 1 <= Pos(Peer(e), g.ack) /\ Pos(Peer(e), g.ack) <= RecvPos(e, t)
    <3>1. Valid(e, s, L) => Valid(e, t, Lt) /\ RecvPos(e, s) <= RecvPos(e, t)
      BY Zenon DEF Further
    <3>2. ASSUME NEW a \in Nat, NEW b \in Nat, NEW c \in Nat, a <= b, b <= c
          PROVE  a <= c
      BY <3>2
    <3> QED
      BY <1>1, <1>2, <2>1, <3>1, <3>2, Zenon
  <2>3. g.data # <<>> => Carries(Pos(e, g.seq), g.data, Gt)
    <3>1. G <= Gt /\ Pos(e, g.seq) \in Int
      BY <1>2 DEF Further
    <3> QED
      BY <1>2, <2>1, <3>1, CarriesMono
  <2>4. "SYN" \in g.flags => g.data = <<>> /\ Pos(e, g.seq) = 0 /\ t.state # "Open"
    BY <2>1, Zenon DEF Further
  <2>5. "FIN" \in g.flags => g.data = <<>> /\ Pos(e, g.seq) = kt + 1 /\ SendPos(e, t) = kt + 2
    BY <2>1, Zenon DEF Further
  <2> QED
    BY <2>1, <2>2, <2>3, <2>4, <2>5, Zenon DEF Good
<1> QED
  BY <1>3, <1>4

\* A valid socket stays valid when the peer sends more.
LEMMA ValidMono ==
  ASSUME NEW e \in Ends, NEW s \in Sockets, NEW L \in Int, NEW Lt \in Int, L <= Lt, Valid(e, s, L)
  PROVE  Valid(e, s, Lt)
<1>1. RecvPos(e, s) \in Nat
  BY SockPos
<1>2. s.state \notin {"Open", "SynSent"} /\ 1 <= RecvPos(e, s) /\ RecvPos(e, s) <= L
  BY Zenon DEF Valid
<1>3. RecvPos(e, s) <= Lt
  BY <1>1, <1>2
<1> QED
  BY <1>2, <1>3, Zenon DEF Valid

\* The own part of the invariant, when the peer sends more.
LEMMA OwnMono ==
  ASSUME NEW e \in Ends, NEW s \in Sockets, NEW u \in Segments, NEW k \in Nat, NEW h,
         NEW L \in Int, NEW Lt \in Int, L <= Lt, NEW G \in Int, NEW Gt \in Int, G <= Gt,
         NEW kp \in Nat, NEW kt \in Nat, NEW fin, NEW ft, fin => ft /\ kt = kp,
         Own(e, s, u, k, h, L, G, kp, fin)
  PROVE  Own(e, s, u, k, h, Lt, Gt, kt, ft)
<1>1. Valid(e, s, L) => Valid(e, s, Lt)
  BY ValidMono
<1>2. Numbers(e, s, u, k, h, Lt)
  <2>1. Numbers(e, s, u, k, h, L)
    BY Zenon DEF Own
  <2>2. Fresh(e, s, k, L, u) => Fresh(e, s, k, Lt, u)
    BY <1>1, Zenon DEF Fresh
  <2> QED
    BY <2>1, <2>2, Zenon DEF Numbers
<1>3. Queue(e, s, u, k, Lt)
  <2> DEFINE q == s.retransmit_queue
  <2>0. q \in Seq(Tracked)
    BY DEF Sockets
  <2>1. ASSUME NEW i \in DOMAIN q
        PROVE  \/ q[i].seg = u /\ u # NoSegment
               \/ q[i].seg.to = Peer(e) /\ "RST" \notin q[i].seg.flags
                  /\ Good(e, s, k, k - Len(u.data), Lt, q[i].seg)
    <3>1. q[i].seg \in Segments
      <4>1. q[i] \in Tracked
        BY <2>0
      <4> QED
        BY <4>1 DEF Tracked
    <3>2. k - Len(u.data) \in Int
      BY SegmentPos
    <3>3. k - Len(u.data) <= k - Len(u.data) /\ RecvPos(e, s) <= RecvPos(e, s)
      BY <3>2, SockPos
    <3>4. Further(e, s, k, k - Len(u.data), L, s, k, k - Len(u.data), Lt)
      BY <1>1, <3>3, Zenon DEF Further
    <3>5. k \in Int
      OBVIOUS
    <3>6. Good(e, s, k, k - Len(u.data), L, q[i].seg) => Good(e, s, k, k - Len(u.data), Lt, q[i].seg)
      BY <3>1, <3>2, <3>4, <3>5, GoodMono
    <3>7. \/ q[i].seg = u /\ u # NoSegment
          \/ q[i].seg.to = Peer(e) /\ "RST" \notin q[i].seg.flags
             /\ Good(e, s, k, k - Len(u.data), L, q[i].seg)
      BY Zenon DEF Own, Queue
    <3> QED
      BY <3>6, <3>7, Zenon
  <2> QED
    BY <2>1, Zenon DEF Queue
<1>4. Reception(e, s, h, Gt, kt, ft)
  <2>1. Reception(e, s, h, G, kp, fin)
    BY Zenon DEF Own
  <2>2. RecvPos(e, s) <= G + 1 => RecvPos(e, s) <= Gt + 1
    BY SockPos
  <2>3. ASSUME NEW i \in DOMAIN s.out_of_order_queue
        PROVE  Carries(Pos(Peer(e), s.out_of_order_queue[i].seq), s.out_of_order_queue[i].data, Gt)
    <3>1. PICK g \in Pieces : g = s.out_of_order_queue[i]
      BY DEF Sockets
    <3>2. g.seq \in Seqs /\ g.data \in Seq(Nat) /\ Peer(e) \in Ends
      BY PeerFacts DEF Pieces
    <3>3. Pos(Peer(e), g.seq) \in Int /\ Len(g.data) \in Nat
      BY <3>2, PosFacts
    <3>4. Carries(Pos(Peer(e), g.seq), g.data, G)
      BY <2>1, <3>1, Zenon DEF Reception
    <3>5. Carries(Pos(Peer(e), g.seq), g.data, Gt)
      BY <3>3, <3>4, CarriesMono
    <3> QED
      BY <3>1, <3>5, Zenon
  <2> QED
    BY <2>1, <2>2, <2>3, Zenon DEF Reception
<1> QED
  BY <1>1, <1>2, <1>3, <1>4, Zenon DEF Own

\* The numbers of an end.
LEMMA CountsOf ==
  ASSUME NEW e \in Ends, NEW s \in Sockets, NEW u \in Segments, NEW k \in Nat, Len(u.data) <= k
  PROVE  /\ Len(u.data) \in Nat /\ k - Len(u.data) \in Nat /\ k - Len(u.data) <= k
         /\ SendPos(e, s) - Len(u.data) \in Int /\ SendPos(e, s) \in Nat /\ RecvPos(e, s) \in Nat
<1>1. Len(u.data) \in Nat
  BY SegmentPos
<1>2. SendPos(e, s) \in Nat /\ RecvPos(e, s) \in Nat
  BY SockPos
<1> QED
  BY <1>1, <1>2

\* The numbers of end e in a state,
LEMMA Counts ==
  ASSUME TypeInv, NEW e \in Ends
  PROVE  /\ sock[e] \in Sockets /\ unsent[e] \in Segments /\ sent[e] \in Nat /\ got[e] \in Seq(Nat)
         /\ Len(unsent[e].data) \in Nat /\ Gone(e) \in Nat /\ Gone(e) <= sent[e] /\ Lim(e) \in Int
         /\ SendPos(e, sock[e]) \in Nat /\ Recv(e) \in Nat /\ Peer(e) \in Ends
<1>1. /\ sock[e] \in Sockets /\ unsent[e] \in Segments /\ sent[e] \in Nat /\ got[e] \in Seq(Nat)
      /\ Len(unsent[e].data) <= sent[e]
  BY Zenon DEF TypeInv, Windows
<1>2. /\ Len(unsent[e].data) \in Nat /\ sent[e] - Len(unsent[e].data) \in Nat
      /\ sent[e] - Len(unsent[e].data) <= sent[e]
      /\ SendPos(e, sock[e]) - Len(unsent[e].data) \in Int
      /\ SendPos(e, sock[e]) \in Nat /\ RecvPos(e, sock[e]) \in Nat
  BY <1>1, CountsOf
<1> QED
  BY <1>1, <1>2, PeerFacts, Zenon DEF Gone, Lim, Recv

\* and in the next one.
LEMMA CountsNext ==
  ASSUME TypeInv', NEW e \in Ends
  PROVE  /\ sock'[e] \in Sockets /\ unsent'[e] \in Segments /\ sent'[e] \in Nat /\ got'[e] \in Seq(Nat)
         /\ Len(unsent'[e].data) \in Nat /\ Gone(e)' \in Nat /\ Gone(e)' <= sent'[e] /\ Lim(e)' \in Int
         /\ SendPos(e, sock'[e]) \in Nat /\ Recv(e)' \in Nat
<1>1. /\ sock'[e] \in Sockets /\ unsent'[e] \in Segments /\ sent'[e] \in Nat /\ got'[e] \in Seq(Nat)
      /\ Len(unsent'[e].data) <= sent'[e]
  BY Zenon DEF TypeInv, Windows
<1>2. /\ Len(unsent'[e].data) \in Nat /\ sent'[e] - Len(unsent'[e].data) \in Nat
      /\ sent'[e] - Len(unsent'[e].data) <= sent'[e]
      /\ SendPos(e, sock'[e]) - Len(unsent'[e].data) \in Int
      /\ SendPos(e, sock'[e]) \in Nat /\ RecvPos(e, sock'[e]) \in Nat
  BY <1>1, CountsOf
<1> QED
  BY <1>1, <1>2, Zenon DEF Gone, Lim, Recv

\* A step of e goes forward.
Forward(e) ==
  /\ Further(e, sock[e], sent[e], Gone(e), Lim(Peer(e)),
             sock'[e], sent'[e], Gone(e)', Lim(Peer(e))')
  /\ Lim(e) <= Lim(e)'

\* What e sees of an end that has not moved.
LEMMA Still ==
  ASSUME NEW e \in Ends, LocalTo(e), NEW x \in Ends, x # e
  PROVE  /\ sock'[x] = sock[x] /\ unsent'[x] = unsent[x] /\ sent'[x] = sent[x] /\ got'[x] = got[x]
         /\ prog'[x] = prog[x]
         /\ Gone(x)' = Gone(x) /\ Lim(x)' = Lim(x) /\ Fin(x)' = Fin(x) /\ Recv(x)' = Recv(x)
<1>1. /\ sock'[x] = sock[x] /\ unsent'[x] = unsent[x] /\ sent'[x] = sent[x] /\ got'[x] = got[x]
      /\ prog'[x] = prog[x]
  BY Zenon DEF LocalTo
<1>2. Gone(x)' = Gone(x)
  BY <1>1, Zenon DEF Gone
<1>3. Lim(x)' = Lim(x)
  BY <1>1, Zenon DEF Lim
<1>4. Fin(x)' = Fin(x)
  BY <1>1 DEF Fin
<1>5. Recv(x)' = Recv(x)
  BY <1>1, Zenon DEF Recv
<1> QED
  BY <1>1, <1>2, <1>3, <1>4, <1>5

\* A step of e that goes forward, and keeps its own part, keeps the rest.
LEMMA StreamStep ==
  ASSUME TypeInv, TypeInv', StreamInv, NEW e \in Ends, LocalTo(e), Calm(e), Forward(e),
         OwnInv(e)', CrossInv(e)', LastCall(e)', EndInv(e)',
         \A m \in net' \ net : Sent(Peer(m.to), m)'
  PROVE  StreamInv'
<1> DEFINE p == Peer(e)
<1>1. p \in Ends /\ p # e /\ Peer(p) = e /\ \A x \in Ends : x = e \/ x = p
  BY PeerFacts
<1>2. /\ sock'[p] = sock[p] /\ unsent'[p] = unsent[p] /\ sent'[p] = sent[p] /\ got'[p] = got[p]
      /\ prog'[p] = prog[p]
      /\ Gone(p)' = Gone(p) /\ Lim(p)' = Lim(p) /\ Fin(p)' = Fin(p) /\ Recv(p)' = Recv(p)
  BY <1>1, Still
<1> HIDE DEF p
<1>3. /\ sock[p] \in Sockets /\ unsent[p] \in Segments /\ sent[p] \in Nat
      /\ Gone(p) \in Nat /\ Lim(p) \in Int
      /\ sock[e] \in Sockets /\ sent[e] \in Nat /\ Gone(e) \in Nat /\ Lim(e) \in Int /\ Recv(e) \in Nat
  BY <1>1, Counts
<1>4. /\ sock'[e] \in Sockets /\ sent'[e] \in Nat /\ Gone(e)' \in Nat /\ Lim(e)' \in Int /\ Recv(e)' \in Nat
  BY <1>1, CountsNext
<1>5. /\ Val(e) => Val(e)' /\ Recv(e) <= Recv(e)'
      /\ Fin(e) => Fin(e)' /\ sent'[e] = sent[e]
      /\ Gone(e) <= Gone(e)' /\ Lim(e) <= Lim(e)'
  BY Zenon DEF Forward, Further, Val, Recv, Fin
<1>6. OwnInv(p)'
  <2>1. Own(p, sock[p], unsent[p], sent[p], got[p], Lim(e), Gone(e), sent[e], Fin(e))
    BY <1>1, Zenon DEF StreamInv, OwnInv
  <2>2. Lim(e) \in Int /\ Lim(e)' \in Int /\ Gone(e) \in Int /\ Gone(e)' \in Int
    BY <1>3, <1>4
  <2>3. Own(p, sock[p], unsent[p], sent[p], got[p], Lim(e)', Gone(e)', sent'[e], Fin(e)')
    BY <1>1, <1>3, <1>4, <1>5, <2>1, <2>2, OwnMono
  <2> QED
    BY <1>1, <1>2, <2>3, Zenon DEF OwnInv
<1>7. CrossInv(p)'
  <2>1. Remembers(sock[p], sent[p], Val(e), Recv(e))
    BY <1>1, Zenon DEF StreamInv, CrossInv
  <2>2. Remembers(sock[p], sent[p], Val(e)', Recv(e)')
    <3>1. sent[p] > 0 \/ sock[p].state \notin {"Open", "SynSent", "SynReceived", "Closed"} => Val(e)'
      BY <1>5, <2>1, Zenon DEF Remembers
    <3>2. ASSUME sock[p].state \notin {"Open", "SynSent", "Closed"}, NEW b \in Nat \ {0},
                 Recv(e)' <= b, b <= sent[p]
          PROVE  Holds(sock[p], b)
      <4>1. sent[p] > 0
        BY <1>3, <3>2
      <4>2. Recv(e) <= Recv(e)'
        BY <1>5, <2>1, <4>1, Zenon DEF Remembers
      <4>3. Recv(e) <= b
        BY <1>3, <1>4, <3>2, <4>2
      <4> QED
        BY <2>1, <3>2, <4>3, Zenon DEF Remembers
    <3> QED
      BY <3>1, <3>2, Zenon DEF Remembers
  <2> QED
    BY <1>1, <1>2, <2>2, Zenon DEF CrossInv
<1>8. LastCall(p)'
  BY <1>1, <1>2, Zenon DEF LastCall, StreamInv
<1>9. ASSUME NEW m \in Segments, Sent(e, m)
      PROVE  Sent(e, m)'
  <2>1. Good(e, sock[e], sent[e], Gone(e), Lim(p), m)
    BY <1>9, Zenon DEF Sent, p
  <2>2. Further(e, sock[e], sent[e], Gone(e), Lim(p), sock'[e], sent'[e], Gone(e)', Lim(p))
    BY <1>2, Zenon DEF Forward, p
  <2>3. sent[e] \in Int /\ sent'[e] \in Int /\ Gone(e) \in Int /\ Gone(e)' \in Int
    BY <1>3, <1>4
  <2>4. Good(e, sock'[e], sent'[e], Gone(e)', Lim(p), m)
    BY <1>3, <1>4, <2>1, <2>2, <2>3, GoodMono
  <2> QED
    BY <1>2, <2>4, Zenon DEF Sent, p
<1>10. ASSUME NEW m \in Segments, Sent(p, m)
       PROVE  Sent(p, m)'
  <2>1. Good(p, sock[p], sent[p], Gone(p), Lim(e), m)
    BY <1>1, <1>10, Zenon DEF Sent
  <2>2. sent[p] \in Int /\ Gone(p) \in Int
    BY <1>3
  <2>3. Further(p, sock[p], sent[p], Gone(p), Lim(e), sock[p], sent[p], Gone(p), Lim(e)')
    <3>1. Valid(p, sock[p], Lim(e)) => Valid(p, sock[p], Lim(e)')
      BY <1>1, <1>3, <1>4, <1>5, ValidMono
    <3>2. Gone(p) <= Gone(p) /\ RecvPos(p, sock[p]) <= RecvPos(p, sock[p])
      BY <1>1, <1>3, SockPos
    <3> QED
      BY <3>1, <3>2, Zenon DEF Further
  <2>4. Good(p, sock[p], sent[p], Gone(p), Lim(e)', m)
    BY <1>1, <1>3, <1>4, <2>1, <2>2, <2>3, GoodMono
  <2> QED
    BY <1>1, <1>2, <2>4, Zenon DEF Sent
<1>11. \A m \in net' : Sent(Peer(m.to), m)'
  <2>1. ASSUME NEW m \in net
        PROVE  Sent(Peer(m.to), m)'
    <3>1. m \in Segments /\ m.to \in Ends
      BY NetType
    <3>2. Sent(Peer(m.to), m)
      BY Zenon DEF StreamInv
    <3>3. Peer(m.to) = e \/ Peer(m.to) = p
      BY <1>1, <3>1, PeerFacts
    <3> QED
      BY <1>9, <1>10, <3>1, <3>2, <3>3, Zenon
  <2> QED
    BY <2>1, Zenon
<1>12. EndInv(p)'
  <2>1. EndInv(p) /\ aborted \subseteq aborted'
    BY <1>1, Zenon DEF StreamInv, Calm
  <2>2. SUFFICES ASSUME sock'[p].state = "Closed", p \notin aborted'
                 PROVE  Len(got'[p] \o sock'[p].receive_queue) = sent'[Peer(p)] /\ Fin(Peer(p))'
    BY Zenon DEF EndInv
  <2>3. Len(got[p] \o sock[p].receive_queue) = sent[e] /\ Fin(e)
    BY <1>1, <1>2, <2>1, <2>2, Zenon DEF EndInv
  <2> QED
    BY <1>1, <1>2, <1>5, <2>3, Zenon
<1>13. LeftInv(p)'
  <2>1. LeftInv(p) /\ sending'[p] = sending[p]
    BY <1>1, Zenon DEF StreamInv, Calm, p
  <2>2. SUFFICES ASSUME sending'[p] # NoSegment, unsent'[p] = NoSegment
                 PROVE  sending'[p] \in Segments /\ sending'[p].to = Peer(p) /\ Sent(p, sending[p])'
    BY Zenon DEF LeftInv, Sent
  <2>3. PICK m : m = sending[p] /\ m \in Segments /\ m.to = Peer(p) /\ Sent(p, m)
    BY <1>2, <2>1, <2>2, Zenon DEF LeftInv
  <2>4. Sent(p, m)'
    BY <1>10, <2>3
  <2> QED
    BY <2>1, <2>3, <2>4, Zenon DEF Sent
<1>14. LeftInv(e)'
  <2>1. CASE sending'[e] = sending[e] /\ unsent'[e] = unsent[e]
    <3>1. SUFFICES ASSUME sending'[e] # NoSegment, unsent'[e] = NoSegment
                   PROVE  sending'[e] \in Segments /\ sending'[e].to = Peer(e) /\ Sent(e, sending[e])'
      BY Zenon DEF LeftInv, Sent
    <3>2. PICK m : m = sending[e] /\ m \in Segments /\ m.to = Peer(e) /\ Sent(e, m)
      BY <2>1, <3>1, Zenon DEF LeftInv, StreamInv
    <3>3. Sent(e, m)'
      BY <1>9, <3>2
    <3> QED
      BY <2>1, <3>2, <3>3, Zenon DEF Sent
  <2>2. CASE sending'[e] \in {NoSegment, unsent'[e]}
    BY <2>2, Zenon DEF LeftInv
  <2> QED
    BY <2>1, <2>2, Zenon DEF Calm
<1>15. \A x \in Ends : (OwnInv(x) /\ CrossInv(x) /\ LastCall(x) /\ EndInv(x) /\ LeftInv(x))'
  BY <1>1, <1>6, <1>7, <1>8, <1>12, <1>13, <1>14, Zenon
<1> QED
  BY <1>11, <1>15, Zenon DEF StreamInv

-----------------------------------------------------------------------------
(* Steps in which a socket sends no new bytes *)

OwnOf(e, n) ==
  Own(e, n, unsent[e], sent[e], got[e], Lim(Peer(e)), Gone(Peer(e)), sent[Peer(e)], Fin(Peer(e)))

CrossOf(e, n) == Remembers(n, sent[e], Val(Peer(e)), Recv(Peer(e)))

GoodOf(e, n, g) == Good(e, n, sent[e], Gone(e), Lim(Peer(e)), g)

\* Socket n of e is socket s, later, and has numbered no more.
Onward(e, s, n, L) ==
  /\ n.send_seq = s.send_seq
  /\ Valid(e, s, L) => Valid(e, n, L) /\ RecvPos(e, s) <= RecvPos(e, n)
  /\ s.state # "Open" => n.state # "Open"

\* A later socket has done all that the earlier one has.
LEMMA OnwardFurther ==
  ASSUME NEW e, NEW s, NEW n, NEW L, Onward(e, s, n, L), NEW k, NEW G \in Int
  PROVE  Further(e, s, k, G, L, n, k, G, L) /\ SendPos(e, n) = SendPos(e, s)
<1>1. SendPos(e, n) = SendPos(e, s)
  BY Zenon DEF Onward, SendPos
<1>2. G <= G
  OBVIOUS
<1> QED
  BY <1>1, <1>2, Zenon DEF Onward, Further

\* Later than a later one.
LEMMA OnwardTrans ==
  ASSUME NEW e \in Ends, NEW s \in Sockets, NEW t \in Sockets, NEW n \in Sockets, NEW L,
         Onward(e, s, t, L), Onward(e, t, n, L)
  PROVE  Onward(e, s, n, L)
<1>1. RecvPos(e, s) \in Nat /\ RecvPos(e, t) \in Nat /\ RecvPos(e, n) \in Nat
  BY SockPos
<1>2. RecvPos(e, s) <= RecvPos(e, t) /\ RecvPos(e, t) <= RecvPos(e, n) => RecvPos(e, s) <= RecvPos(e, n)
  BY <1>1
<1> QED
  BY <1>2, Zenon DEF Onward

\* A step of e that numbers nothing new.
LEMMA SockStep ==
  ASSUME TypeInv, TypeInv', StreamInv, NEW e \in Ends, LocalTo(e), Calm(e), NEW n, sock'[e] = n,
         unsent'[e] = unsent[e], sent'[e] = sent[e], got'[e] = got[e],
         Onward(e, sock[e], n, Lim(Peer(e))), OwnOf(e, n), CrossOf(e, n), EndOf(e, n, got[e]),
         n.state = "LastAck" => prog'[e] = <<>>,
         \A g \in net' \ net : "RST" \in g.flags \/ (g.to = Peer(e) /\ GoodOf(e, n, g))
  PROVE  StreamInv'
<1> DEFINE p == Peer(e)
<1>1. p \in Ends /\ p # e /\ Peer(p) = e
  BY PeerFacts
<1>2. /\ sock'[p] = sock[p] /\ unsent'[p] = unsent[p] /\ sent'[p] = sent[p] /\ got'[p] = got[p]
      /\ Gone(p)' = Gone(p) /\ Lim(p)' = Lim(p) /\ Fin(p)' = Fin(p) /\ Recv(p)' = Recv(p)
  BY <1>1, Still
<1> HIDE DEF p
<1>3. Lim(e) \in Int /\ Gone(e) \in Int /\ Gone(e) \in Nat
  BY Counts
<1>4. Gone(e)' = Gone(e)
  BY Zenon DEF Gone
<1>5. /\ Further(e, sock[e], sent[e], Gone(e), Lim(p), n, sent[e], Gone(e), Lim(p))
      /\ SendPos(e, n) = SendPos(e, sock[e])
  BY <1>3, OnwardFurther DEF p
<1>6. Lim(e)' = Lim(e)
  BY <1>5, Zenon DEF Lim
<1>7. Forward(e)
  <2>1. Lim(e) <= Lim(e)'
    BY <1>3, <1>6
  <2> QED
    BY <1>2, <1>4, <1>5, <2>1, Zenon DEF Forward, p
<1>8. OwnInv(e)'
  BY <1>2, Zenon DEF OwnInv, OwnOf, p
<1>9. Val(p)' = Val(p)
  BY <1>1, <1>2, <1>6, Zenon DEF Val
<1>10. CrossInv(e)'
  BY <1>2, <1>9, Zenon DEF CrossInv, CrossOf, p
<1>11. LastCall(e)'
  BY Zenon DEF LastCall
<1>12. ASSUME NEW g \in net' \ net
       PROVE  Sent(Peer(g.to), g)'
  <2>1. CASE "RST" \in g.flags
    BY <2>1, Zenon DEF Sent, Good
  <2>2. CASE g.to = p /\ GoodOf(e, n, g)
    BY <1>1, <1>2, <1>4, <2>2, Zenon DEF Sent, GoodOf, p
  <2> QED
    BY <2>1, <2>2, Zenon DEF p
<1>13. EndInv(e)'
  BY <1>2, Zenon DEF EndInv, EndOf, p
<1> QED
  BY <1>7, <1>8, <1>10, <1>11, <1>12, <1>13, StreamStep

\* A socket that has ended before has received all.
LEMMA EndSame ==
  ASSUME StreamInv, NEW e \in Ends, Calm(e), NEW n, n.state = "Closed" => sock[e].state = "Closed",
         n.receive_queue = sock[e].receive_queue
  PROVE  EndOf(e, n, got[e])
<1>1. EndInv(e) /\ aborted \subseteq aborted'
  BY Zenon DEF StreamInv, Calm
<1> QED
  BY <1>1, Zenon DEF EndOf, EndInv

\* The entries of queue r are segments of queue q.
Within(r, q) == \A j \in DOMAIN r : \E i \in DOMAIN q : r[j].seg = q[i].seg

\* An entry of the retransmission queue.
LEMMA EntryType ==
  ASSUME NEW s \in Sockets, NEW i \in DOMAIN s.retransmit_queue
  PROVE  s.retransmit_queue[i].seg \in Segments
<1>1. s.retransmit_queue \in Seq(Tracked)
  BY DEF Sockets
<1>2. s.retransmit_queue[i] \in Tracked
  BY <1>1
<1> QED
  BY <1>2 DEF Tracked

\* The queue of a later socket.
LEMMA QueueOn ==
  ASSUME NEW e \in Ends, NEW s \in Sockets, NEW n \in Sockets, NEW u \in Segments, NEW k \in Nat,
         NEW L \in Int, Onward(e, s, n, L), Within(n.retransmit_queue, s.retransmit_queue),
         Queue(e, s, u, k, L)
  PROVE  Queue(e, n, u, k, L)
<1> DEFINE q == s.retransmit_queue
           r == n.retransmit_queue
           G == k - Len(u.data)
<1>1. G \in Int /\ k \in Int
  BY SegmentPos
<1>2. Further(e, s, k, G, L, n, k, G, L)
  <2> HIDE DEF G
  <2> QED
    BY <1>1, OnwardFurther
<1>3. ASSUME NEW j \in DOMAIN r
      PROVE  \/ r[j].seg = u /\ u # NoSegment
             \/ r[j].seg.to = Peer(e) /\ "RST" \notin r[j].seg.flags /\ Good(e, n, k, G, L, r[j].seg)
  <2>1. PICK i \in DOMAIN q : r[j].seg = q[i].seg
    BY Zenon DEF Within
  <2>2. q[i].seg \in Segments
    BY EntryType
  <2>3. \/ q[i].seg = u /\ u # NoSegment
        \/ q[i].seg.to = Peer(e) /\ "RST" \notin q[i].seg.flags /\ Good(e, s, k, G, L, q[i].seg)
    BY Zenon DEF Queue
  <2> HIDE DEF G
  <2>4. Good(e, s, k, G, L, q[i].seg) => Good(e, n, k, G, L, q[i].seg)
    BY <1>1, <1>2, <2>2, GoodMono
  <2> QED
    BY <2>1, <2>3, <2>4, Zenon
<1> QED
  BY <1>3, Zenon DEF Queue

\* The segment under way stays as it is.
LEMMA FreshOn ==
  ASSUME NEW e \in Ends, NEW s \in Sockets, NEW n \in Sockets, NEW u \in Segments, NEW k,
         NEW L, Onward(e, s, n, L), Fresh(e, s, k, L, u)
  PROVE  Fresh(e, n, k, L, u)
<1>1. RecvPos(e, s) \in Nat /\ RecvPos(e, n) \in Nat /\ Pos(Peer(e), u.ack) \in Nat
  BY SockPos, SegmentPos
<1>2. Valid(e, s, L) /\ Pos(Peer(e), u.ack) <= RecvPos(e, s)
  BY Zenon DEF Fresh
<1>3. Valid(e, n, L) /\ RecvPos(e, s) <= RecvPos(e, n) /\ SendPos(e, n) = SendPos(e, s)
  BY <1>2, Zenon DEF Onward, SendPos
<1>4. Pos(Peer(e), u.ack) <= RecvPos(e, n)
  BY <1>1, <1>2, <1>3
<1> QED
  BY <1>3, <1>4, Zenon DEF Fresh

\* All that the invariant sees but the retransmission queue stays.
SameStream(n, s) ==
  /\ n.state = s.state /\ n.send_seq = s.send_seq /\ n.recv_seq = s.recv_seq
  /\ n.receive_queue = s.receive_queue /\ n.out_of_order_queue = s.out_of_order_queue
  /\ n.pending_fin_seq = s.pending_fin_seq /\ n.registered = s.registered

\* The same places, in a state that is not earlier.
LEMMA SameOnward ==
  ASSUME NEW e \in Ends, NEW s \in Sockets, NEW n \in Sockets, NEW L,
         n.send_seq = s.send_seq, n.recv_seq = s.recv_seq,
         s.state \notin {"Open", "SynSent"} => n.state \notin {"Open", "SynSent"},
         s.state # "Open" => n.state # "Open"
  PROVE  Onward(e, s, n, L) /\ RecvPos(e, n) = RecvPos(e, s) /\ SendPos(e, n) = SendPos(e, s)
<1>1. RecvPos(e, n) = RecvPos(e, s) /\ SendPos(e, n) = SendPos(e, s)
  BY Zenon DEF RecvPos, SendPos
<1>2. RecvPos(e, s) <= RecvPos(e, n)
  BY <1>1, SockPos
<1> QED
  BY <1>1, <1>2, Zenon DEF Onward, Valid

\* The own part, when the stream stays.
LEMMA OwnSame ==
  ASSUME NEW e \in Ends, NEW s \in Sockets, NEW n \in Sockets, NEW u \in Segments, NEW k \in Nat,
         NEW h, NEW L \in Int, NEW G, NEW kp, NEW fin, SameStream(n, s),
         Within(n.retransmit_queue, s.retransmit_queue), Own(e, s, u, k, h, L, G, kp, fin)
  PROVE  Own(e, n, u, k, h, L, G, kp, fin) /\ Onward(e, s, n, L)
<1>1. Onward(e, s, n, L) /\ RecvPos(e, n) = RecvPos(e, s) /\ SendPos(e, n) = SendPos(e, s)
  BY SameOnward, Zenon DEF SameStream
<1>2. Queue(e, n, u, k, L)
  BY <1>1, QueueOn, Zenon DEF Own
<1>3. Numbers(e, n, u, k, h, L)
  <2>1. Fresh(e, s, k, L, u) => Fresh(e, n, k, L, u)
    BY <1>1, FreshOn
  <2> QED
    BY <1>1, <2>1, Zenon DEF Own, Numbers, SameStream
<1>4. Reception(e, n, h, G, kp, fin)
  BY <1>1, Zenon DEF Own, Reception, SameStream
<1>5. n.state \notin {"Open", "SynSent", "Closed"} => Valid(e, n, L)
  BY <1>1, Zenon DEF Own, Valid, SameStream
<1> QED
  BY <1>1, <1>2, <1>3, <1>4, <1>5, Zenon DEF Own

\* The first bytes of a stream.
LEMMA BytesIs ==
  ASSUME NEW c \in Seq(Nat), NEW l \in Nat, Len(c) = l
  PROVE  c = Bytes(l) <=> \A i \in 1..l : c[i] = i
<1>1. c = [i \in 1..l |-> c[i]]
  <2>1. DOMAIN c = 1..l /\ c \in [1..l -> Nat]
    OBVIOUS
  <2> QED
    BY <2>1, Zenon
<1>2. (\A i \in 1..l : c[i] = i) => [i \in 1..l |-> c[i]] = [i \in 1..l |-> i]
  BY Zenon
<1>3. c = [i \in 1..l |-> i] => \A i \in 1..l : c[i] = i
  BY Zenon
<1> QED
  BY <1>1, <1>2, <1>3, Zenon DEF Bytes

\* What has been read is a prefix too.
LEMMA BytesPrefix ==
  ASSUME NEW h \in Seq(Nat), NEW q \in Seq(Nat), h \o q = Bytes(Len(h \o q))
  PROVE  h \o <<>> = Bytes(Len(h \o <<>>))
<1>1. PICK l \in Nat, k \in Nat : l = Len(h) /\ k = Len(q)
  OBVIOUS
<1>2. PICK c : c = h \o q
  BY Zenon
<1>3. IsConcat(Nat, c, h, q, l, k)
  BY <1>1, <1>2, ConcatIs
<1>4. c \in Seq(Nat) /\ Len(c) = l + k /\ \A i \in 1..(l + k) : c[i] = IF i <= l THEN h[i] ELSE q[i - l]
  BY <1>3, Zenon DEF IsConcat
<1>5. \A i \in 1..(l + k) : c[i] = i
  <2>1. l + k \in Nat
    OBVIOUS
  <2>2. c = Bytes(l + k)
    BY <1>2, <1>4, Zenon
  <2>3. c = Bytes(l + k) <=> \A i \in 1..(l + k) : c[i] = i
    BY <1>4, <2>1, BytesIs, Zenon
  <2> QED
    BY <2>2, <2>3, Zenon
<1>6. \A i \in 1..l : h[i] = i
  BY <1>4, <1>5
<1>7. h = Bytes(l)
  BY <1>1, <1>6, BytesIs
<1>8. h \o <<>> = h
  OBVIOUS
<1> QED
  BY <1>1, <1>7, <1>8, Zenon

\* A connection that has ended.
LEMMA OwnClosed ==
  ASSUME NEW e \in Ends, NEW s \in Sockets, NEW n \in Sockets, NEW u \in Segments, NEW k \in Nat,
         NEW h \in Seq(Nat), NEW L \in Int, NEW G, NEW kp, NEW fin, Onward(e, s, n, L),
         n.state = "Closed", s.state # "Open", Within(n.retransmit_queue, s.retransmit_queue),
         n.receive_queue \in {s.receive_queue, <<>>},
         n.out_of_order_queue \in {s.out_of_order_queue, <<>>},
         n.pending_fin_seq \in {s.pending_fin_seq, NoFin}, Own(e, s, u, k, h, L, G, kp, fin)
  PROVE  Own(e, n, u, k, h, L, G, kp, fin)
<1>1. Queue(e, n, u, k, L)
  BY QueueOn, Zenon DEF Own
<1>2. Numbers(e, n, u, k, h, L)
  <2>1. Fresh(e, s, k, L, u) => Fresh(e, n, k, L, u)
    BY FreshOn
  <2>2. SendPos(e, n) = SendPos(e, s)
    BY Zenon DEF Onward, SendPos
  <2>3. SendPos(e, s) = k + 1 \/ SendPos(e, s) = k + 2
    BY Zenon DEF Own, Numbers
  <2>4. u # NoSegment => Fresh(e, s, k, L, u)
    BY Zenon DEF Own, Numbers
  <2>5. /\ n.state # "Open" /\ n.state \notin Unfinished \ {"Open"}
        /\ n.state \notin {"FinWait1", "FinWait2", "LastAck"}
        /\ n.state \notin {"Open", "SynSent", "SynReceived"}
    BY DEF Unfinished
  <2> QED
    BY <2>1, <2>2, <2>3, <2>4, <2>5, Zenon DEF Numbers
<1>3. Reception(e, n, h, G, kp, fin)
  <2>1. Reception(e, s, h, G, kp, fin)
    BY Zenon DEF Own
  <2>2. h \o n.receive_queue = Bytes(Len(h \o n.receive_queue))
    <3>1. h \o s.receive_queue = Bytes(Len(h \o s.receive_queue))
      BY <2>1, Zenon DEF Reception
    <3>2. s.receive_queue \in Seq(Nat)
      BY DEF Sockets
    <3>3. h \o <<>> = Bytes(Len(h \o <<>>))
      BY <3>1, <3>2, BytesPrefix
    <3> QED
      BY <3>1, <3>3, Zenon
  <2>3. \A i \in DOMAIN n.out_of_order_queue :
          Carries(Pos(Peer(e), n.out_of_order_queue[i].seq), n.out_of_order_queue[i].data, G)
    <3>1. CASE n.out_of_order_queue = s.out_of_order_queue
      BY <2>1, <3>1, Zenon DEF Reception
    <3>2. CASE n.out_of_order_queue = <<>>
      <4>1. DOMAIN <<>> = {}
        OBVIOUS
      <4> QED
        BY <3>2, <4>1, Zenon
    <3> QED
      BY <3>1, <3>2, Zenon
  <2>4. n.pending_fin_seq # NoFin => Pos(Peer(e), n.pending_fin_seq) = kp + 1 /\ fin
    BY <2>1, Zenon DEF Reception
  <2>5. /\ n.state \notin {"SynReceived", "Established", "FinWait1", "FinWait2"}
        /\ n.state \notin {"CloseWait", "LastAck"}
    OBVIOUS
  <2> QED
    BY <2>2, <2>3, <2>4, <2>5, Zenon DEF Reception
<1> QED
  BY <1>1, <1>2, <1>3, Zenon DEF Own

\* A closed socket need not remember anything.
LEMMA CrossClosed ==
  ASSUME NEW s, NEW n, NEW k, NEW v, NEW r, n.state = "Closed", Remembers(s, k, v, r)
  PROVE  Remembers(n, k, v, r)
<1>1. /\ ~(n.state \notin {"Open", "SynSent", "SynReceived", "Closed"})
      /\ ~(n.state \notin {"Open", "SynSent", "Closed"})
  OBVIOUS
<1> QED
  BY <1>1, Zenon DEF Remembers

\* Steps that end a connection of e.
LEMMA ClosedStep ==
  ASSUME TypeInv, TypeInv', StreamInv, NEW e \in Ends, LocalTo(e), Calm(e), NEW n, sock'[e] = n,
         unsent'[e] = unsent[e], sent'[e] = sent[e], got'[e] = got[e],
         \A g \in net' \ net : "RST" \in g.flags \/ (g.to = Peer(e) /\ GoodOf(e, n, g)),
         n.state = "Closed", sock[e].state # "Open", Onward(e, sock[e], n, Lim(Peer(e))),
         Within(n.retransmit_queue, sock[e].retransmit_queue),
         n.receive_queue \in {sock[e].receive_queue, <<>>},
         n.out_of_order_queue \in {sock[e].out_of_order_queue, <<>>},
         n.pending_fin_seq \in {sock[e].pending_fin_seq, NoFin},
         e \in aborted' \/ (sock[e].state = "Closed" /\ n.receive_queue = sock[e].receive_queue)
  PROVE  StreamInv'
<1>1. /\ sock[e] \in Sockets /\ unsent[e] \in Segments /\ sent[e] \in Nat /\ got[e] \in Seq(Nat)
      /\ Lim(Peer(e)) \in Int
  BY Counts, PeerFacts
<1>2. n \in Sockets
  BY CountsNext
<1>3. OwnOf(e, sock[e]) /\ CrossOf(e, sock[e])
  BY Zenon DEF StreamInv, OwnInv, OwnOf, CrossInv, CrossOf
<1>4. OwnOf(e, n)
  BY <1>1, <1>2, <1>3, OwnClosed DEF OwnOf
<1>5. CrossOf(e, n)
  BY <1>3, CrossClosed DEF CrossOf
<1>6. n.state = "LastAck" => prog'[e] = <<>>
  OBVIOUS
<1>7. EndOf(e, n, got[e])
  <2>1. CASE e \in aborted'
    BY <2>1, Zenon DEF EndOf
  <2>2. CASE sock[e].state = "Closed" /\ n.receive_queue = sock[e].receive_queue
    BY <2>2, EndSame
  <2> QED
    BY <2>1, <2>2
<1> QED
  BY <1>4, <1>5, <1>6, <1>7, SockStep

\* A queue is within itself, and fewer segments are.
LEMMA WithinFacts ==
  ASSUME NEW r, NEW q
  PROVE  /\ Within(q, q)
         /\ Fewer(r, q) => Within(r, q)
         /\ Marked(r, q) => Within(r, q)
         /\ r = <<>> => Within(r, q)
<1>1. DOMAIN <<>> = {}
  OBVIOUS
<1> QED
  BY <1>1, Zenon DEF Within, Fewer, Marked

-----------------------------------------------------------------------------
(* Steps that leave the streams as they are *)

\* A socket that keeps its stream and every segment it tracks.
LEMMA SameStep ==
  ASSUME TypeInv, TypeInv', StreamInv, NEW e \in Ends, LocalTo(e), Calm(e), NEW n, sock'[e] = n,
         unsent'[e] = unsent[e], sent'[e] = sent[e], got'[e] = got[e],
         prog'[e] = prog[e] \/ prog[e] # <<>>,
         SameStream(n, sock[e]), Within(n.retransmit_queue, sock[e].retransmit_queue),
         Within(sock[e].retransmit_queue, n.retransmit_queue),
         \A g \in net' \ net : "RST" \in g.flags \/ (g.to = Peer(e) /\ GoodOf(e, n, g))
  PROVE  StreamInv'
<1>1. /\ sock[e] \in Sockets /\ unsent[e] \in Segments /\ sent[e] \in Nat /\ Lim(Peer(e)) \in Int
  BY Counts, PeerFacts
<1>2. n \in Sockets
  BY CountsNext
<1>3. OwnOf(e, sock[e]) /\ CrossOf(e, sock[e]) /\ LastCall(e)
  BY Zenon DEF StreamInv, OwnInv, OwnOf, CrossInv, CrossOf
<1>4. OwnOf(e, n) /\ Onward(e, sock[e], n, Lim(Peer(e)))
  BY <1>1, <1>2, <1>3, OwnSame DEF OwnOf
<1>5. \A b : Holds(sock[e], b) => Holds(n, b)
  BY Zenon DEF Holds, Within
<1>6. CrossOf(e, n)
  BY <1>3, <1>5, Zenon DEF CrossOf, Remembers, SameStream
<1>7. n.state = "LastAck" => prog'[e] = <<>>
  BY <1>3, Zenon DEF LastCall, SameStream
<1>8. EndOf(e, n, got[e])
  BY EndSame, Zenon DEF SameStream
<1> QED
  BY <1>4, <1>6, <1>7, <1>8, SockStep

\* The socket is not touched, and nothing is sent.
LEMMA IdleStep ==
  ASSUME TypeInv, TypeInv', StreamInv, NEW e \in Ends, LocalTo(e), Calm(e), sock'[e] = sock[e],
         unsent'[e] = unsent[e], sent'[e] = sent[e], got'[e] = got[e],
         prog'[e] = prog[e] \/ prog[e] # <<>>, \A g \in net' \ net : "RST" \in g.flags
  PROVE  StreamInv'
<1>1. SameStream(sock[e], sock[e]) /\ Within(sock[e].retransmit_queue, sock[e].retransmit_queue)
  BY WithinFacts, Zenon DEF SameStream
<1> QED
  BY <1>1, SameStep

\* Calls that return and change nothing.
LEMMA ReturnsStream ==
  ASSUME TypeInv, StreamInv, NEW e \in Ends,
         ReadEof(e) \/ (e = Client /\ ConnectAgain) \/ (e = Server /\ Accept),
         Calm(e)
  PROVE  StreamInv'
<1>1. TypeInv' /\ LocalTo(e) /\ sock'[e] = sock[e]
  BY ReturnsType
<1>2. prog[e] # <<>> /\ UNCHANGED <<net, unsent, sent, got>>
  BY Zenon DEF ReadEof, ConnectAgain, Accept, At
<1>3. net' \ net = {} /\ unsent'[e] = unsent[e] /\ sent'[e] = sent[e] /\ got'[e] = got[e]
  BY <1>2, Zenon
<1> QED
  BY <1>1, <1>2, <1>3, IdleStep, Zenon

\* A send begins, or gives up.
LEMMA SendBeginStream ==
  ASSUME TypeInv, StreamInv, NEW e \in Ends, SendBegin(e) \/ SendTimeout(e),
         Calm(e)
  PROVE  StreamInv'
<1>1. TypeInv' /\ LocalTo(e) /\ sock'[e] = sock[e]
  BY SendBeginType, SendTimeoutType
<1>2. (prog'[e] = prog[e] \/ prog[e] # <<>>) /\ UNCHANGED <<net, unsent, sent, got>>
  BY Zenon DEF SendBegin, SendTimeout, At
<1>3. net' \ net = {} /\ unsent'[e] = unsent[e] /\ sent'[e] = sent[e] /\ got'[e] = got[e]
  BY <1>2, Zenon
<1> QED
  BY <1>1, <1>2, <1>3, IdleStep, Zenon

\* A reset carries nothing.
LEMMA RcvUnmatchedStream ==
  ASSUME TypeInv, StreamInv, NEW m \in net, RcvUnmatched(m),
         Calm(m.to)
  PROVE  StreamInv'
<1>1. /\ TypeInv' /\ LocalTo(m.to) /\ sock'[m.to] = sock[m.to]
      /\ \A g \in net' \ net : "RST" \in g.flags
  BY RcvUnmatchedType
<1>2. UNCHANGED <<appVars, sent, got>>
  BY Zenon DEF RcvUnmatched, Receive
<1>3. unsent'[m.to] = unsent[m.to] /\ sent'[m.to] = sent[m.to] /\ got'[m.to] = got[m.to]
      /\ prog'[m.to] = prog[m.to]
  BY <1>2, Zenon DEF appVars
<1>4. m.to \in Ends
  BY NetType
<1> QED
  BY <1>1, <1>3, <1>4, IdleStep

\* Only the pending error is taken.
LEMMA SendRefusedStream ==
  ASSUME TypeInv, StreamInv, NEW e \in Ends, SendRefused(e),
         Calm(e)
  PROVE  StreamInv'
<1> DEFINE n == [sock[e] EXCEPT !.so_error = "none"]
<1>1. TypeInv' /\ LocalTo(e) /\ sock'[e] = n
  BY SendRefusedType
<1>2. (prog'[e] = prog[e] \/ prog[e] # <<>>) /\ UNCHANGED <<net, unsent, sent, got>>
  BY Zenon DEF SendRefused, At
<1>3. net' \ net = {} /\ unsent'[e] = unsent[e] /\ sent'[e] = sent[e] /\ got'[e] = got[e]
  BY <1>2, Zenon
<1>4. SameStream(n, sock[e]) /\ n.retransmit_queue = sock[e].retransmit_queue
  <2>1. sock[e] \in Sockets
    BY EndTypes
  <2> QED
    BY <2>1 DEF Sockets, SameStream
<1> HIDE DEF n
<1>5. Within(n.retransmit_queue, sock[e].retransmit_queue) /\ Within(sock[e].retransmit_queue, n.retransmit_queue)
  BY <1>4, WithinFacts, Zenon
<1>6. \A g \in net' \ net : "RST" \in g.flags \/ (g.to = Peer(e) /\ GoodOf(e, n, g))
  BY <1>3, Zenon
<1> QED
  BY <1>1, <1>2, <1>3, <1>4, <1>5, <1>6, SameStep

\* A marked queue.
LEMMA MarkedSame ==
  ASSUME NEW s \in Sockets, NEW r, Marked(r, s.retransmit_queue)
  PROVE  LET n == [s EXCEPT !.retransmit_queue = r]
         IN /\ SameStream(n, s) /\ Within(n.retransmit_queue, s.retransmit_queue)
            /\ Within(s.retransmit_queue, n.retransmit_queue) /\ n.retransmit_queue = r
<1> DEFINE n == [s EXCEPT !.retransmit_queue = r]
<1>1. SameStream(n, s) /\ n.retransmit_queue = r
  BY DEF Sockets, SameStream
<1> HIDE DEF n
<1>2. Within(r, s.retransmit_queue) /\ Within(s.retransmit_queue, r)
  BY Zenon DEF Marked, Within
<1> QED
  BY <1>1, <1>2, Zenon DEF n

\* Marks are not part of the stream.
LEMMA PmtuUpdateStream ==
  ASSUME TypeInv, StreamInv, NEW e \in Ends, PmtuUpdate(e),
         Calm(e)
  PROVE  StreamInv'
<1>1. PICK r : /\ Marked(r, sock[e].retransmit_queue)
               /\ SetSock(e, [sock[e] EXCEPT !.retransmit_queue = r])
  BY PmtuIs
<1>2. TypeInv' /\ LocalTo(e)
  BY PmtuUpdateType
<1>3. UNCHANGED <<net, appVars, sent, got>>
  BY Zenon DEF PmtuUpdate
<1>4. net' \ net = {} /\ unsent'[e] = unsent[e] /\ sent'[e] = sent[e] /\ got'[e] = got[e] /\ prog'[e] = prog[e]
  BY <1>3, Zenon DEF appVars
<1>5. sock[e] \in Sockets /\ sock \in [Ends -> Sockets]
  BY EndTypes DEF TypeInv
<1> DEFINE n == [sock[e] EXCEPT !.retransmit_queue = r]
<1>6. sock'[e] = n
  BY <1>1, <1>5, Zenon DEF SetSock
<1>7. /\ SameStream(n, sock[e]) /\ Within(n.retransmit_queue, sock[e].retransmit_queue)
      /\ Within(sock[e].retransmit_queue, n.retransmit_queue)
  BY <1>1, <1>5, MarkedSame
<1> HIDE DEF n
<1>8. \A g \in net' \ net : "RST" \in g.flags \/ (g.to = Peer(e) /\ GoodOf(e, n, g))
  BY <1>4, Zenon
<1> QED
  BY <1>2, <1>4, <1>6, <1>7, <1>8, SameStep

\* Both streams fit in half of the sequence space.
LEMMA ShortFacts ==
  ASSUME TypeInv, ShortStreams, NEW e \in Ends
  PROVE  /\ sent[e] \in Nat /\ Gone(e) \in Nat /\ Gone(e) <= sent[e]
         /\ SeqSpace \in Nat /\ SeqSpace \div 2 \in Nat /\ SeqSpace \div 2 <= SeqSpace
         /\ sent[e] + 2 < SeqSpace \div 2
<1>1. sent[e] \in Nat /\ Gone(e) \in Nat /\ Gone(e) <= sent[e]
  BY Counts
<1>2. sent[e] + 2 < SeqSpace \div 2
  BY Zenon DEF ShortStreams
<1>3. SeqSpace \in Nat /\ SeqSpace \div 2 \in Nat /\ SeqSpace \div 2 <= SeqSpace
  <2>1. PICK x \in Nat, y \in Nat : x = SeqSpace /\ y = SeqSpace \div 2 /\ 2 * y <= x
    BY HalfFacts, SpaceFacts
  <2>2. y <= x
    BY <2>1
  <2> QED
    BY <2>1, <2>2
<1> QED
  BY <1>1, <1>2, <1>3

\* A piece of a good segment is good.
LEMMA PieceGood ==
  ASSUME NEW e \in Ends, NEW s, NEW k, NEW G \in Nat, G < SeqSpace, NEW L,
         NEW g \in Segments, Good(e, s, k, G, L, g), NEW c, NEW i, PieceOf(c, g, i)
  PROVE  Good(e, s, k, G, L, c)
<1>1. /\ c \in Segments /\ c.ack = g.ack /\ c.flags = g.flags
      /\ i \in 1..Len(g.data) /\ c.seq = Add(g.seq, i - 1)
      /\ Len(c.data) >= 1 /\ i + Len(c.data) - 1 <= Len(g.data)
      /\ \A j \in 1..Len(c.data) : c.data[j] = g.data[i + j - 1]
  BY Zenon DEF PieceOf
<1>2. /\ Pos(e, g.seq) \in Nat /\ Len(g.data) \in Nat /\ (g.data = <<>> <=> Len(g.data) = 0)
  BY SegmentPos
<1>3. Len(c.data) \in Nat /\ (c.data = <<>> <=> Len(c.data) = 0)
  BY <1>1, SegmentPos
<1>4. g.data # <<>> /\ c.data # <<>>
  BY <1>1, <1>2, <1>3
<1>5. CASE "RST" \in g.flags
  BY <1>1, <1>5, Zenon DEF Good
<1>6. CASE "RST" \notin g.flags
  <2>1. /\ g.flags \in {{"SYN"}, {"SYN", "ACK"}, {"ACK"}, {"FIN", "ACK"}}
        /\ g.flags = {"SYN"} => e = Client
        /\ "SYN" \notin g.flags /\ "FIN" \notin g.flags
        /\ "ACK" \in g.flags => Valid(e, s, L) /\ 1 <= Pos(Peer(e), g.ack) /\ Pos(Peer(e), g.ack) <= RecvPos(e, s)
        /\ Carries(Pos(e, g.seq), g.data, G)
    BY <1>4, <1>6, Zenon DEF Good
  <2>2. PICK x \in Nat, l \in Nat, y \in Nat : x = Pos(e, g.seq) /\ l = Len(g.data) /\ y = Len(c.data)
    BY <1>2, <1>3
  <2>3. x >= 1 /\ x + l - 1 <= G /\ \A j \in 1..l : g.data[j] = x + j - 1
    BY <2>1, <2>2, Zenon DEF Carries
  <2>4. i \in 1..l /\ y >= 1 /\ i + y - 1 <= l /\ i - 1 \in Int
    BY <1>1, <2>2
  <2>5. 0 <= x + (i - 1) /\ x + (i - 1) < SeqSpace
    BY <2>3, <2>4, SpaceFacts
  <2>6. Pos(e, c.seq) = x + (i - 1)
    <3>1. g.seq \in Seqs
      BY DEF Segments
    <3> QED
      BY <1>1, <2>2, <2>4, <2>5, <3>1, PosAdd
  <2>7. Carries(x + (i - 1), c.data, G)
    <3>1. x + (i - 1) >= 1 /\ x + (i - 1) + y - 1 <= G
      BY <2>3, <2>4
    <3>2. ASSUME NEW j \in 1..y
          PROVE  c.data[j] = x + (i - 1) + j - 1
      <4>1. i + j - 1 \in 1..l /\ x + (i + j - 1) - 1 = x + (i - 1) + j - 1
        BY <2>4
      <4>2. c.data[j] = g.data[i + j - 1]
        BY <1>1, <2>2, Zenon
      <4> QED
        BY <2>3, <4>1, <4>2, Zenon
    <3> QED
      BY <2>2, <3>1, <3>2, Zenon DEF Carries
  <2> QED
    BY <1>1, <2>1, <2>6, <2>7, Zenon DEF Good
<1> QED
  BY <1>5, <1>6

\* connect gives up.
LEMMA ConnectTimeoutStream ==
  ASSUME TypeInv, StreamInv, ConnectTimeout,
         Calm(Client)
  PROVE  StreamInv'
<1> DEFINE e == Client
           s == sock[e]
           n == [s EXCEPT !.state = "Closed", !.registered = FALSE, !.so_error = "ETIMEDOUT"]
<1>1. TypeInv' /\ LocalTo(e) /\ e \in Ends
  BY ConnectTimeoutType DEF Ends
<1>2. UNCHANGED <<net, unsent, sent, got>> /\ s.state # "Open" /\ SetSock(e, n)
  BY Zenon DEF ConnectTimeout
<1>3. unsent'[e] = unsent[e] /\ sent'[e] = sent[e] /\ got'[e] = got[e] /\ e \in aborted'
  BY <1>2, Zenon DEF ConnectTimeout
<1>4. s \in Sockets /\ sock \in [Ends -> Sockets]
  BY <1>1, EndTypes DEF TypeInv
<1>5. sock'[e] = n
  BY <1>1, <1>2, <1>4, Zenon DEF SetSock
<1>6. /\ n.state = "Closed" /\ n.send_seq = s.send_seq /\ n.recv_seq = s.recv_seq
      /\ n.receive_queue = s.receive_queue /\ n.out_of_order_queue = s.out_of_order_queue
      /\ n.retransmit_queue = s.retransmit_queue /\ n.pending_fin_seq = s.pending_fin_seq
  BY <1>4 DEF Sockets
<1>7. n \in Sockets
  BY <1>1, <1>5, CountsNext
<1>11. Calm(e)
  BY Zenon
<1> HIDE DEF n, e
<1>8. Onward(e, s, n, Lim(Peer(e)))
  BY <1>1, <1>4, <1>6, <1>7, SameOnward
<1>9. \A g \in net' \ net : "RST" \in g.flags \/ (g.to = Peer(e) /\ GoodOf(e, n, g))
  BY <1>2, Zenon
<1>10. Within(n.retransmit_queue, s.retransmit_queue) /\ s.state # "Open"
  BY <1>2, <1>6, WithinFacts
<1> QED
  BY <1>1, <1>3, <1>5, <1>6, <1>8, <1>9, <1>10, <1>11, ClosedStep

\* connect returns.
LEMMA ConnectDoneStream ==
  ASSUME TypeInv, StreamInv, ConnectDone, Calm(Client)
  PROVE  StreamInv'
<1> DEFINE e == Client
<1>1. TypeInv' /\ LocalTo(e) /\ e \in Ends
      /\ sock'[e] \in {sock[e], [sock[e] EXCEPT !.so_error = "none"]}
  BY ConnectDoneType DEF Ends
<1>2. prog[e] # <<>> /\ UNCHANGED <<net, unsent, sent, got>>
  BY Zenon DEF ConnectDone, At
<1>3. net' \ net = {} /\ unsent'[e] = unsent[e] /\ sent'[e] = sent[e] /\ got'[e] = got[e]
  BY <1>2, Zenon
<1>4. PICK n : n = sock'[e]
  BY Zenon
<1>5. SameStream(n, sock[e]) /\ n.retransmit_queue = sock[e].retransmit_queue
  <2>1. sock[e] \in Sockets
    BY <1>1, EndTypes
  <2>2. n = sock[e] \/ n = [sock[e] EXCEPT !.so_error = "none"]
    BY <1>1, <1>4, Zenon
  <2> QED
    BY <2>1, <2>2 DEF Sockets, SameStream
<1>6. Within(n.retransmit_queue, sock[e].retransmit_queue) /\ Within(sock[e].retransmit_queue, n.retransmit_queue)
  BY <1>5, WithinFacts, Zenon
<1>7. \A g \in net' \ net : "RST" \in g.flags \/ (g.to = Peer(e) /\ GoodOf(e, n, g))
  BY <1>3, Zenon
<1> HIDE DEF e
<1>8. Calm(e)
  BY Zenon DEF e
<1> QED
  BY <1>1, <1>2, <1>3, <1>4, <1>5, <1>6, <1>7, <1>8, SameStep

\* A closed connection is dropped.
LEMMA PollClosedStream ==
  ASSUME TypeInv, StreamInv, NEW e \in Ends, PollClosed(e),
         Calm(e)
  PROVE  StreamInv'
<1> DEFINE s == sock[e]
           n == PolledSock(s)
<1>1. TypeInv' /\ LocalTo(e) /\ sock'[e] = n
  BY PollClosedType
<1>2. UNCHANGED <<net, appVars, sent, got>> /\ s.state = "Closed"
  BY Zenon DEF PollClosed
<1>3. unsent'[e] = unsent[e] /\ sent'[e] = sent[e] /\ got'[e] = got[e]
  BY <1>2, Zenon DEF appVars
<1>4. s \in Sockets
  BY EndTypes
<1>6. /\ n.state = "Closed" /\ n.send_seq = s.send_seq /\ n.recv_seq = s.recv_seq
      /\ n.receive_queue = s.receive_queue /\ n.out_of_order_queue = s.out_of_order_queue
      /\ n.retransmit_queue = <<>> /\ n.pending_fin_seq = s.pending_fin_seq
  BY <1>2, <1>4 DEF Sockets, PolledSock
<1>7. n \in Sockets
  BY <1>1, CountsNext
<1> HIDE DEF n
<1>8. Onward(e, s, n, Lim(Peer(e)))
  BY <1>4, <1>6, <1>7, SameOnward
<1>9. \A g \in net' \ net : "RST" \in g.flags \/ (g.to = Peer(e) /\ GoodOf(e, n, g))
  BY <1>2, Zenon
<1>10. Within(n.retransmit_queue, s.retransmit_queue) /\ s.state # "Open"
  BY <1>2, <1>6, WithinFacts
<1> QED
  BY <1>1, <1>2, <1>3, <1>6, <1>8, <1>9, <1>10, ClosedStep

\* A reset closes the connection.
LEMMA RcvResetStream ==
  ASSUME TypeInv, StreamInv, NEW m \in net, RcvReset(m),
         Calm(m.to)
  PROVE  StreamInv'
<1> DEFINE e == m.to
           s == sock[e]
           n == ResetSock(s)
<1>1. TypeInv' /\ LocalTo(e) /\ sock'[e] = n /\ e \in Ends
  BY RcvResetType, NetType
<1>2. UNCHANGED <<net, appVars, sent, got>> /\ s.registered /\ e \in aborted'
  BY Zenon DEF RcvReset
<1>11. Calm(e)
  BY Zenon
<1>3. unsent'[e] = unsent[e] /\ sent'[e] = sent[e] /\ got'[e] = got[e]
  BY <1>2, Zenon DEF appVars
<1>4. s \in Sockets
  BY <1>1, EndTypes
<1>5. s.state # "Open"
  BY <1>1, <1>2, Zenon DEF StreamInv, OwnInv, Own, Numbers
<1>6. /\ n.state = "Closed" /\ n.send_seq = s.send_seq /\ n.recv_seq = s.recv_seq
      /\ n.receive_queue = <<>> /\ n.out_of_order_queue = <<>>
      /\ n.retransmit_queue = s.retransmit_queue /\ n.pending_fin_seq = NoFin
  BY <1>4 DEF Sockets, ResetSock
<1>7. n \in Sockets
  BY <1>1, CountsNext
<1> HIDE DEF n, e
<1>8. Onward(e, s, n, Lim(Peer(e)))
  BY <1>1, <1>4, <1>6, <1>7, SameOnward
<1>9. \A g \in net' \ net : "RST" \in g.flags \/ (g.to = Peer(e) /\ GoodOf(e, n, g))
  BY <1>2, Zenon
<1>10. Within(n.retransmit_queue, s.retransmit_queue)
  BY <1>6, WithinFacts
<1> QED
  BY <1>1, <1>2, <1>3, <1>5, <1>6, <1>8, <1>9, <1>10, <1>11, ClosedStep

-----------------------------------------------------------------------------
(* Reception *)

\* A tracked segment with data, of k numbered bytes.
LEMMA EntryIs ==
  ASSUME NEW e \in Ends, NEW s \in Sockets, NEW u \in Segments, NEW k \in Nat, Len(u.data) <= k, NEW h,
         NEW L, Numbers(e, s, u, k, h, L), Queue(e, s, u, k, L),
         NEW i \in DOMAIN s.retransmit_queue, s.retransmit_queue[i].seg.data # <<>>
  PROVE  LET g == s.retransmit_queue[i].seg
         IN g.flags = {"ACK"} /\ Carries(Pos(e, g.seq), g.data, k)
<1>1. PICK g \in Segments : g = s.retransmit_queue[i].seg
  BY EntryType
<1>2. CASE g = u /\ u # NoSegment
  BY <1>1, <1>2, Zenon DEF Numbers, Fresh
<1>3. CASE "RST" \notin g.flags /\ Good(e, s, k, k - Len(u.data), L, g)
  <2>1. /\ g.flags \in {{"SYN"}, {"SYN", "ACK"}, {"ACK"}, {"FIN", "ACK"}}
        /\ "SYN" \notin g.flags /\ "FIN" \notin g.flags
        /\ Carries(Pos(e, g.seq), g.data, k - Len(u.data))
    BY <1>1, <1>3, Zenon DEF Good
  <2>2. g.flags = {"ACK"}
    BY <2>1
  <2>3. Pos(e, g.seq) \in Int /\ Len(g.data) \in Nat /\ Len(u.data) \in Nat
    BY SegmentPos
  <2>4. k - Len(u.data) \in Int /\ k \in Int /\ k - Len(u.data) <= k
    BY <2>3
  <2>5. Carries(Pos(e, g.seq), g.data, k)
    BY <2>1, <2>3, <2>4, CarriesMono
  <2> QED
    BY <1>1, <2>2, <2>5, Zenon
<1> QED
  BY <1>1, <1>2, <1>3, Zenon DEF Queue

\* An acknowledgement that has come to e: its peer has received as much.
LEMMA AckIs ==
  ASSUME TypeInv, StreamInv, NEW m \in net, "RST" \notin m.flags, "ACK" \in m.flags
  PROVE  LET e == m.to
             p == Peer(m.to)
         IN /\ Val(p) /\ 1 <= Pos(e, m.ack) /\ Pos(e, m.ack) <= Recv(p)
            /\ Pos(e, m.ack) \in Nat /\ m.ack \in Seqs
<1> DEFINE e == m.to
           p == Peer(m.to)
<1>1. e \in Ends /\ p \in Ends /\ Peer(p) = e /\ m.ack \in Seqs
  BY NetType, PeerFacts
<1>2. Good(p, sock[p], sent[p], Gone(p), Lim(e), m)
  BY <1>1, Zenon DEF StreamInv, Sent
<1>3. Valid(p, sock[p], Lim(e)) /\ 1 <= Pos(e, m.ack) /\ Pos(e, m.ack) <= RecvPos(p, sock[p])
  BY <1>1, <1>2, Zenon DEF Good
<1>4. Pos(e, m.ack) \in Nat
  BY <1>1, PosFacts
<1> QED
  BY <1>1, <1>3, <1>4, Zenon DEF Val, Recv

\* The acknowledgement retires no byte that the peer has not received.
LEMMA AckedStream ==
  ASSUME TypeInv, ShortStreams, StreamInv, NEW m \in net, "RST" \notin m.flags
  PROVE  /\ OwnOf(m.to, Acked(m)) /\ CrossOf(m.to, Acked(m))
         /\ Onward(m.to, sock[m.to], Acked(m), Lim(Peer(m.to)))
<1> DEFINE e == m.to
           p == Peer(e)
           s == sock[e]
           q == s.retransmit_queue
           a == Acked(m)
           r == a.retransmit_queue
<1>1. e \in Ends /\ p \in Ends /\ Peer(p) = e
  BY NetType, PeerFacts
<1>2. /\ s \in Sockets /\ unsent[e] \in Segments /\ sent[e] \in Nat /\ Lim(p) \in Int /\ Recv(p) \in Nat
      /\ Len(unsent[e].data) <= sent[e]
  BY <1>1, Counts DEF TypeInv, Windows
<1>3. a \in Sockets /\ AckedFrom(a, s)
      /\ r = IF "ACK" \in m.flags THEN AckRetransmitQueue(q, m.ack) ELSE q
  BY AckedIs
<1>4. SameStream(a, s) /\ Within(r, q)
  BY <1>3, WithinFacts, Zenon DEF AckedFrom, SameStream
<1>5. OwnOf(e, s) /\ CrossOf(e, s)
  BY <1>1, Zenon DEF StreamInv, OwnInv, OwnOf, CrossInv, CrossOf
<1>6. OwnOf(e, a) /\ Onward(e, s, a, Lim(p))
  <2> HIDE DEF a
  <2> QED
    BY <1>1, <1>2, <1>3, <1>4, <1>5, OwnSame DEF OwnOf
<1>7. ASSUME NEW b \in Nat \ {0}, Recv(p) <= b, b <= sent[e], Holds(s, b)
      PROVE  Holds(a, b)
  <2>1. CASE "ACK" \notin m.flags
    <3>1. r = q
      BY <1>3, <2>1, Zenon
    <3> QED
      BY <1>7, <3>1, Zenon DEF Holds
  <2>2. CASE "ACK" \in m.flags
    <3>1. PICK i \in DOMAIN q : b \in ToSet(q[i].seg.data)
      BY <1>7, Zenon DEF Holds
    <3>2. PICK g \in Segments : g = q[i].seg
      BY <1>2, EntryType
    <3>3. /\ g.data \in Seq(Nat) /\ Len(g.data) \in Nat /\ Pos(e, g.seq) \in Nat /\ g.seq \in Seqs
          /\ (g.data = <<>> <=> Len(g.data) = 0)
      BY <1>1, <3>2, SegmentPos DEF Segments
    <3>4. PICK j \in 1..Len(g.data) : b = g.data[j]
      <4>1. DOMAIN g.data = 1..Len(g.data)
        BY <3>3
      <4> QED
        BY <3>1, <3>2, <4>1, Zenon DEF ToSet
    <3>5. g.data # <<>>
      BY <3>3, <3>4
    <3>6. g.flags = {"ACK"} /\ Carries(Pos(e, g.seq), g.data, sent[e])
      <4>1. Numbers(e, s, unsent[e], sent[e], got[e], Lim(p)) /\ Queue(e, s, unsent[e], sent[e], Lim(p))
        BY <1>5, Zenon DEF OwnOf, Own
      <4> QED
        BY <1>1, <1>2, <3>2, <3>5, <4>1, EntryIs
    <3>7. PICK x \in Nat, l \in Nat : x = Pos(e, g.seq) /\ l = Len(g.data)
      BY <3>3
    <3>8. x >= 1 /\ x + l - 1 <= sent[e] /\ b = x + j - 1 /\ j \in 1..l
      BY <3>4, <3>6, <3>7, Zenon DEF Carries
    <3>9. /\ sent[e] \in Nat /\ SeqSpace \in Nat /\ SeqSpace \div 2 \in Nat /\ SeqSpace \div 2 <= SeqSpace
          /\ sent[e] + 2 < SeqSpace \div 2
      BY <1>1, ShortFacts
    <3>10. x + l < SeqSpace /\ x + l < SeqSpace \div 2 /\ 0 <= x + l /\ x + l > b
      BY <3>8, <3>9
    <3>11. PICK f \in Seqs : f = SegmentEndSeq(g) /\ Pos(e, f) = x + l
      <4>1. SegmentEndSeq(g) \in Seqs /\ SegmentEndSeq(g) = Add(g.seq, Len(g.data))
        BY <3>6, EndType, Zenon
      <4>2. l \in Int
        OBVIOUS
      <4>3. Pos(e, Add(g.seq, l)) = x + l
        BY <1>1, <3>3, <3>7, <3>10, <4>2, PosAdd
      <4> QED
        BY <3>7, <4>1, <4>3, Zenon
    <3>12. Pos(e, m.ack) \in Nat /\ Pos(e, m.ack) <= Recv(p) /\ m.ack \in Seqs
      BY <2>2, AckIs
    <3>13. Pos(e, f) > Pos(e, m.ack) /\ Pos(e, f) < SeqSpace \div 2 /\ Pos(e, m.ack) < SeqSpace \div 2
      BY <1>2, <1>7, <3>10, <3>11, <3>12, <3>9
    <3>14. SeqAfter(f, m.ack)
      BY <1>1, <3>12, <3>13, Compare
    <3>15. q \in Seq(Tracked)
      BY <1>2 DEF Sockets
    <3>16. r = AckRetransmitQueue(q, m.ack)
      BY <1>3, <2>2, Zenon
    <3>17. \E y \in DOMAIN r : r[y] = q[i]
      <4>1. i \in DOMAIN q /\ SeqAfter(SegmentEndSeq(q[i].seg), m.ack)
        BY <3>2, <3>11, <3>14, Zenon
      <4> HIDE DEF q, r
      <4>2. \E y \in DOMAIN AckRetransmitQueue(q, m.ack) : AckRetransmitQueue(q, m.ack)[y] = q[i]
        BY <3>15, <4>1, AckQueueIs
      <4> QED
        BY <3>16, <4>2, Zenon
    <3> QED
      BY <3>1, <3>17, Zenon DEF Holds
  <2> QED
    BY <2>1, <2>2
<1>8. CrossOf(e, a)
  <2>1. a.state = s.state
    BY <1>4, Zenon DEF SameStream
  <2>2. Remembers(s, sent[e], Val(p), Recv(p))
    BY <1>5, Zenon DEF CrossOf
  <2> HIDE DEF a, s
  <2>3. Remembers(a, sent[e], Val(p), Recv(p))
    BY <1>7, <2>1, <2>2, Zenon DEF Remembers
  <2> QED
    BY <2>3, Zenon DEF CrossOf
<1> QED
  BY <1>6, <1>8

-----------------------------------------------------------------------------
(* What ingest_payload delivers *)

\* The first n bytes of a stream are h, then q.
Stream(h, q, n) == h \o q = Bytes(n)

\* The bytes d come from place r on.
Placed(d, r) == \A i \in 1..Len(d) : d[i] = r + i - 1

\* Bytes in their places go to the end of the stream.
LEMMA Extend ==
  ASSUME NEW h \in Seq(Nat), NEW q \in Seq(Nat), NEW d \in Seq(Nat), NEW r \in Nat, r >= 1,
         Stream(h, q, r - 1), Placed(d, r)
  PROVE  Stream(h, q \o d, r - 1 + Len(d))
<1>1. PICK a \in Nat, b \in Nat, c \in Nat : a = Len(h) /\ b = Len(q) /\ c = Len(d)
  OBVIOUS
<1>2. PICK x : x = h \o q
  BY Zenon
<1>3. x \in Seq(Nat) /\ Len(x) = a + b /\ \A i \in 1..(a + b) : x[i] = IF i <= a THEN h[i] ELSE q[i - a]
  <2>1. IsConcat(Nat, x, h, q, a, b)
    BY <1>1, <1>2, ConcatIs
  <2> QED
    BY <2>1, Zenon DEF IsConcat
<1>4. a + b = r - 1
  <2>1. Len(Bytes(r - 1)) = r - 1
    BY DEF Bytes
  <2> QED
    BY <1>2, <1>3, <2>1, Zenon DEF Stream
<1>5. \A i \in 1..(a + b) : x[i] = i
  <2>1. a + b \in Nat
    OBVIOUS
  <2>2. x = Bytes(a + b)
    BY <1>2, <1>4, Zenon DEF Stream
  <2> QED
    BY <1>3, <2>1, <2>2, BytesIs, Zenon
<1>6. PICK y : y = q \o d
  BY Zenon
<1>7. y \in Seq(Nat) /\ Len(y) = b + c /\ \A i \in 1..(b + c) : y[i] = IF i <= b THEN q[i] ELSE d[i - b]
  <2>1. IsConcat(Nat, y, q, d, b, c)
    BY <1>1, <1>6, ConcatIs
  <2> QED
    BY <2>1, Zenon DEF IsConcat
<1>8. PICK z : z = h \o y
  BY Zenon
<1>9. /\ z \in Seq(Nat) /\ Len(z) = a + (b + c)
      /\ \A i \in 1..(a + (b + c)) : z[i] = IF i <= a THEN h[i] ELSE y[i - a]
  <2>1. b + c \in Nat
    OBVIOUS
  <2>2. IsConcat(Nat, z, h, y, a, b + c)
    BY <1>1, <1>7, <1>8, <2>1, ConcatIs
  <2> QED
    BY <2>2, Zenon DEF IsConcat
<1>10. a + (b + c) \in Nat /\ a + (b + c) = r - 1 + c
  BY <1>4
<1>11. ASSUME NEW i \in 1..(a + (b + c)) PROVE z[i] = i
  <2>1. CASE i <= a
    <3>1. i \in 1..(a + b)
      BY <2>1
    <3> QED
      BY <1>3, <1>5, <1>9, <2>1, <3>1, Zenon
  <2>2. CASE i > a /\ i - a <= b
    <3>1. i - a \in 1..(b + c) /\ i \in 1..(a + b) /\ ~(i <= a)
      BY <2>2
    <3> QED
      BY <1>3, <1>5, <1>7, <1>9, <2>2, <3>1, Zenon
  <2>3. CASE i > a /\ i - a > b
    <3>1. i - a \in 1..(b + c) /\ ~(i <= a) /\ ~(i - a <= b) /\ i - a - b \in 1..c
      BY <2>3
    <3>2. z[i] = d[i - a - b]
      BY <1>7, <1>9, <3>1, Zenon
    <3>3. d[i - a - b] = r + (i - a - b) - 1
      BY <1>1, <3>1, Zenon DEF Placed
    <3>4. r + (i - a - b) - 1 = i
      BY <1>4
    <3> QED
      BY <3>2, <3>3, <3>4, Zenon
  <2> QED
    BY <2>1, <2>2, <2>3
<1>12. z = Bytes(a + (b + c))
  BY <1>9, <1>10, <1>11, BytesIs, Zenon
<1> QED
  BY <1>1, <1>6, <1>8, <1>10, <1>12, Zenon DEF Stream

\* The bytes before the place of x, of a stream of which G have left, are h and q.
Intake(p, h, x, q, G) ==
  /\ x \in Seqs /\ q \in Seq(Nat) /\ Pos(p, x) >= 1 /\ Pos(p, x) <= G + 1
  /\ Stream(h, q, Pos(p, x) - 1)

\* Nothing in reach is half of the sequence space away.
Near(G) == G \in Nat /\ G + 2 < SeqSpace \div 2

\* What comes at the right time is delivered, but for what was delivered before.
LEMMA TakeNew ==
  ASSUME NEW p \in Ends, NEW h \in Seq(Nat), NEW x, NEW q, NEW G, Near(G), Intake(p, h, x, q, G),
         NEW seq \in Seqs, NEW d \in Seq(Nat), Carries(Pos(p, seq), d, G),
         ~SeqAfter(seq, x), SeqAfter(Add(seq, Len(d)), x)
  PROVE  LET new == Trimmed(seq, d, x)
         IN Intake(p, h, Add(x, Len(new)), q \o new, G) /\ Pos(p, x) <= Pos(p, Add(x, Len(new)))
<1>1. /\ G \in Nat /\ G + 2 < SeqSpace \div 2 /\ SeqSpace \in Nat /\ SeqSpace \div 2 \in Nat
      /\ SeqSpace \div 2 <= SeqSpace
  BY SpaceFacts, HalfFacts DEF Near
<1>2. x \in Seqs /\ q \in Seq(Nat) /\ Pos(p, x) >= 1 /\ Pos(p, x) <= G + 1 /\ Stream(h, q, Pos(p, x) - 1)
  BY Zenon DEF Intake
<1>3. PICK P \in Nat, r \in Nat, l \in Nat : P = Pos(p, seq) /\ r = Pos(p, x) /\ l = Len(d)
  BY <1>2, PosFacts
<1>4. P >= 1 /\ P + l - 1 <= G /\ \A i \in 1..l : d[i] = P + i - 1
  BY <1>3, Zenon DEF Carries
<1>5. P < SeqSpace \div 2 /\ r < SeqSpace \div 2 /\ P + l < SeqSpace \div 2 /\ P + l < SeqSpace /\ 0 <= P + l
  BY <1>1, <1>2, <1>3, <1>4
<1>6. PICK f \in Seqs : f = Add(seq, l) /\ Pos(p, f) = P + l
  <2>1. l \in Int
    OBVIOUS
  <2>2. Add(seq, l) \in Seqs
    BY <2>1, AddType
  <2>3. Pos(p, Add(seq, l)) = P + l
    BY <1>3, <1>5, <2>1, PosAdd
  <2> QED
    BY <2>2, <2>3, Zenon
<1>7. P <= r
  <2>1. SeqAfter(seq, x) <=> P > r
    BY <1>2, <1>3, <1>5, Compare
  <2> QED
    BY <2>1
<1>8. P + l > r
  <2>1. SeqAfter(f, x) <=> P + l > r
    BY <1>2, <1>3, <1>5, <1>6, Compare
  <2>2. SeqAfter(f, x)
    BY <1>3, <1>6, Zenon
  <2> QED
    BY <2>1, <2>2
<1>9. Mod(x - seq) = r - P
  BY <1>2, <1>3, <1>7, Distance
<1>10. PICK m \in Nat : m = r - P /\ m <= l
  BY <1>7, <1>8
<1>11. Trimmed(seq, d, x) = SubSeq(d, m + 1, l)
  <2>1. (x - seq) % SeqSpace = m
    BY <1>9, <1>10 DEF Mod
  <2> QED
    BY <1>3, <2>1, Zenon DEF Trimmed
<1>12. PICK new \in Seq(Nat) : new = Trimmed(seq, d, x) /\ Len(new) = l - m /\ \A i \in 1..(l - m) : new[i] = d[m + i]
  <2>1. /\ SubSeq(d, m + 1, l) \in Seq(Nat)
        /\ Len(SubSeq(d, m + 1, l)) = l - m
        /\ \A i \in 1..(l - m) : SubSeq(d, m + 1, l)[i] = d[m + i]
    <3>1. m <= Len(d)
      BY <1>3, <1>10
    <3>2. /\ SubSeq(d, m + 1, Len(d)) \in Seq(Nat)
          /\ Len(SubSeq(d, m + 1, Len(d))) = Len(d) - m
          /\ \A i \in 1..(Len(d) - m) : SubSeq(d, m + 1, Len(d))[i] = d[m + i]
      BY <3>1, TailFrom
    <3> QED
      BY <1>3, <3>2, Zenon
  <2> QED
    BY <1>11, <2>1, Zenon
<1>13. Placed(new, r)
  <2>1. ASSUME NEW i \in 1..(l - m) PROVE new[i] = r + i - 1
    <3>1. m + i \in 1..l /\ P + (m + i) - 1 = r + i - 1
      BY <1>10
    <3> QED
      BY <1>4, <1>12, <3>1, Zenon
  <2> QED
    BY <1>12, <2>1, Zenon DEF Placed
<1>14. Len(new) \in Int /\ r + Len(new) = P + l /\ Len(new) \in Nat
  BY <1>10, <1>12
<1>15. Stream(h, q \o new, r - 1 + Len(new))
  <2>1. r >= 1 /\ Stream(h, q, r - 1) /\ q \in Seq(Nat)
    BY <1>2, <1>3, Zenon
  <2> QED
    BY <1>13, <2>1, Extend
<1>16. Pos(p, Add(x, Len(new))) = r + Len(new) /\ Add(x, Len(new)) \in Seqs
  <2>1. 0 <= Pos(p, x) + Len(new) /\ Pos(p, x) + Len(new) < SeqSpace
    BY <1>3, <1>5, <1>14
  <2>2. Add(x, Len(new)) \in Seqs
    BY <1>2, <1>14, AddType
  <2> QED
    BY <1>2, <1>3, <1>14, <2>1, <2>2, PosAdd
<1>17. q \o new \in Seq(Nat)
  BY <1>2, <1>12
<1>18. r + Len(new) >= 1 /\ r + Len(new) <= G + 1 /\ r <= r + Len(new) /\ r + Len(new) - 1 = r - 1 + Len(new)
  <2>1. PICK n \in Nat : n = Len(new)
    BY <1>14
  <2>2. r + n = P + l
    BY <1>14, <2>1, Zenon
  <2>3. r + n >= 1 /\ r + n <= G + 1 /\ r <= r + n /\ r + n - 1 = r - 1 + n
    BY <1>1, <1>4, <2>2
  <2> QED
    BY <2>1, <2>3, Zenon
<1>19. Intake(p, h, Add(x, Len(new)), q \o new, G) /\ Pos(p, x) <= Pos(p, Add(x, Len(new)))
  <2>1. PICK v, w : v = Add(x, Len(new)) /\ w = q \o new
    BY Zenon
  <2>2. Pos(p, v) = r + Len(new) /\ v \in Seqs /\ w \in Seq(Nat) /\ Stream(h, w, r - 1 + Len(new))
    BY <1>15, <1>16, <1>17, <2>1, Zenon
  <2>3. Pos(p, v) >= 1 /\ Pos(p, v) <= G + 1 /\ Pos(p, x) <= Pos(p, v)
    BY <1>3, <1>18, <2>2, Zenon
  <2>4. Stream(h, w, Pos(p, v) - 1)
    <3>1. Pos(p, v) - 1 = r - 1 + Len(new)
      <4>1. PICK n \in Nat : n = Len(new)
        BY <1>14
      <4>2. Pos(p, v) = r + n
        BY <2>2, <4>1, Zenon
      <4>3. Pos(p, v) - 1 = r - 1 + n
        BY <4>2
      <4> QED
        BY <4>1, <4>3, Zenon
    <3> QED
      BY <2>2, <3>1, Zenon
  <2>5. Intake(p, h, v, w, G)
    BY <2>2, <2>3, <2>4, Zenon DEF Intake
  <2> QED
    BY <2>1, <2>3, <2>5, Zenon
<1> QED
  BY <1>12, <1>19, Zenon

\* Entries that carry bytes of the stream.
Pending(p, q, G) == \A j \in DOMAIN q : Carries(Pos(p, q[j].seq), q[j].data, G)

\* The state of the loop.
Takes(p, h, acc, G, x) ==
  Intake(p, h, acc.recv, acc.queue, G) /\ Pos(p, x) <= Pos(p, acc.recv) /\ Pending(p, acc.rest, G)

\* One more entry that carries bytes of the stream.
LEMMA PendingAppend ==
  ASSUME NEW p, NEW q \in Seq(Pieces), NEW g \in Pieces, NEW G, Pending(p, q, G), Carries(Pos(p, g.seq), g.data, G)
  PROVE  Pending(p, Append(q, g), G)
<1>1. PICK r : r = Append(q, g)
  BY Zenon
<1>2. /\ DOMAIN r = 1..(Len(q) + 1) /\ Len(q) \in Nat /\ DOMAIN q = 1..Len(q)
      /\ \A i \in 1..Len(q) : r[i] = q[i]
      /\ r[Len(q) + 1] = g
  BY <1>1
<1>3. ASSUME NEW j \in DOMAIN r PROVE Carries(Pos(p, r[j].seq), r[j].data, G)
  <2>1. j \in DOMAIN q \/ j = Len(q) + 1
    BY <1>2
  <2>2. CASE j \in DOMAIN q
    BY <1>2, <2>2, Zenon DEF Pending
  <2>3. CASE j = Len(q) + 1
    BY <1>2, <2>3, Zenon
  <2> QED
    BY <2>1, <2>2, <2>3
<1> QED
  BY <1>1, <1>3, Zenon DEF Pending

\* One turn more.
LEMMA DrainTurnTakes ==
  ASSUME NEW p \in Ends, NEW h \in Seq(Nat), NEW acc \in Accs, NEW G, Near(G), NEW x \in Seqs, Takes(p, h, acc, G, x),
         NEW g \in Pieces, Carries(Pos(p, g.seq), g.data, G)
  PROVE  Takes(p, h, DrainTurn(acc, g), G, x)
<1>1. g.seq \in Seqs /\ g.data \in Seq(Nat) /\ acc.recv \in Seqs /\ acc.rest \in Seq(Pieces)
  BY DEF Pieces, Accs
<1>2. Intake(p, h, acc.recv, acc.queue, G) /\ Pos(p, x) <= Pos(p, acc.recv) /\ Pending(p, acc.rest, G)
  BY Zenon DEF Takes
<1>3. Pending(p, Append(acc.rest, g), G)
  BY <1>1, <1>2, PendingAppend
<1> DEFINE new == Trimmed(g.seq, g.data, acc.recv)
           a1 == [acc EXCEPT !.rest = Append(@, g)]
           a2 == [acc EXCEPT !.stop = TRUE, !.rest = Append(@, g)]
           a3 == [acc EXCEPT !.recv = Add(@, Len(new)), !.queue = @ \o new]
<1>4. Takes(p, h, a1, G, x)
  <2>1. a1.recv = acc.recv /\ a1.queue = acc.queue /\ a1.rest = Append(acc.rest, g)
    BY DEF Accs
  <2> QED
    BY <1>2, <1>3, <2>1, Zenon DEF Takes
<1>5. Takes(p, h, a2, G, x)
  <2>1. a2.recv = acc.recv /\ a2.queue = acc.queue /\ a2.rest = Append(acc.rest, g)
    BY DEF Accs
  <2> QED
    BY <1>2, <1>3, <2>1, Zenon DEF Takes
<1>6. ASSUME ~SeqAfter(g.seq, acc.recv), SeqAfter(Add(g.seq, Len(g.data)), acc.recv)
      PROVE  Takes(p, h, a3, G, x)
  <2>1. a3.recv = Add(acc.recv, Len(new)) /\ a3.queue = acc.queue \o new /\ a3.rest = acc.rest
    <3> HIDE DEF new
    <3> QED
      BY DEF Accs
  <2>2. Intake(p, h, Add(acc.recv, Len(new)), acc.queue \o new, G) /\ Pos(p, acc.recv) <= Pos(p, Add(acc.recv, Len(new)))
    BY <1>1, <1>2, <1>6, TakeNew
  <2> HIDE DEF a3, new
  <2>3. Pos(p, x) <= Pos(p, a3.recv)
    <3>1. a3.recv \in Seqs
      BY <2>1, <2>2, Zenon DEF Intake
    <3>2. Pos(p, x) \in Nat /\ Pos(p, acc.recv) \in Nat /\ Pos(p, a3.recv) \in Nat
      BY <1>1, <3>1, PosFacts
    <3>3. Pos(p, acc.recv) <= Pos(p, a3.recv)
      BY <2>1, <2>2, Zenon
    <3> QED
      BY <1>2, <3>2, <3>3
  <2> QED
    BY <1>2, <2>1, <2>2, <2>3, Zenon DEF Takes
<1>7. \/ DrainTurn(acc, g) = a1 \/ DrainTurn(acc, g) = a2 \/ DrainTurn(acc, g) = acc
      \/ DrainTurn(acc, g) = a3 /\ ~SeqAfter(g.seq, acc.recv) /\ SeqAfter(Add(g.seq, Len(g.data)), acc.recv)
  BY Zenon DEF DrainTurn
<1> HIDE DEF a1, a2, a3
<1> QED
  BY <1>4, <1>5, <1>6, <1>7, Zenon

\* Socket s has taken the stream of p, at least up to x.
Taken(p, h, s, G, x) ==
  /\ Intake(p, h, s.recv_seq, s.receive_queue, G) /\ Pos(p, x) <= Pos(p, s.recv_seq)
  /\ Pending(p, s.out_of_order_queue, G)

\* drain_out_of_order delivers the stream.
LEMMA DrainStream ==
  ASSUME NEW p \in Ends, NEW h \in Seq(Nat), NEW s \in Sockets, NEW G, Near(G), NEW x \in Seqs, Taken(p, h, s, G, x)
  PROVE  Taken(p, h, DrainOutOfOrder(s), G, x)
<1>1. PICK q \in Seq(Pieces), n \in Nat : q = s.out_of_order_queue /\ n = Len(q)
  BY DEF Sockets
<1>2. PICK f : DrainsTo(f, s, q, n)
  BY <1>1, DrainIs
<1>3. /\ \A k \in 0..n : f[k] = IF k = 0 THEN DrainStart(s) ELSE DrainTurn(f[k - 1], q[k])
      /\ \A k \in 0..n : f[k] \in Accs
  BY <1>2, Zenon DEF DrainsTo, Draining, Drained
<1>4. Intake(p, h, s.recv_seq, s.receive_queue, G) /\ Pos(p, x) <= Pos(p, s.recv_seq) /\ Pending(p, q, G)
  BY <1>1, Zenon DEF Taken
<1> DEFINE Bad == {k \in 0..n : ~Takes(p, h, f[k], G, x)}
<1>5. Bad = {}
  <2>1. SUFFICES ASSUME Bad # {} PROVE FALSE
    OBVIOUS
  <2>2. PICK k \in Bad : \A m \in Bad : k <= m
    <3>1. Bad \in SUBSET Nat
      OBVIOUS
    <3> QED
      BY <2>1, <3>1, LeastNumber, Zenon
  <2>3. k \in 0..n /\ ~Takes(p, h, f[k], G, x)
    BY <2>2, Zenon
  <2>4. CASE k = 0
    <3>1. f[k] = DrainStart(s)
      BY <1>3, <2>3, <2>4, Zenon
    <3>2. DrainStart(s).recv = s.recv_seq /\ DrainStart(s).queue = s.receive_queue /\ DrainStart(s).rest = <<>>
      BY DEF DrainStart
    <3>3. Pending(p, <<>>, G)
      BY DEF Pending
    <3>4. Takes(p, h, DrainStart(s), G, x)
      BY <1>4, <3>2, <3>3, Zenon DEF Takes
    <3> QED
      BY <2>3, <3>1, <3>4, Zenon
  <2>5. CASE k # 0
    <3>1. k \in 1..n /\ k - 1 \in 0..n /\ ~(k <= k - 1)
      BY <2>3, <2>5
    <3>2. Takes(p, h, f[k - 1], G, x)
      BY <3>1, <2>2, Zenon
    <3>3. q[k] \in Pieces /\ k \in DOMAIN q
      BY <1>1, <3>1
    <3>4. f[k] = DrainTurn(f[k - 1], q[k])
      BY <1>3, <2>3, <2>5, Zenon
    <3>5. Carries(Pos(p, q[k].seq), q[k].data, G) /\ f[k - 1] \in Accs
      BY <1>3, <1>4, <3>1, <3>3, Zenon DEF Pending
    <3>6. Takes(p, h, DrainTurn(f[k - 1], q[k]), G, x)
      BY <3>2, <3>3, <3>5, DrainTurnTakes
    <3> QED
      BY <2>3, <3>4, <3>6, Zenon
  <2> QED
    BY <2>4, <2>5
<1>6. Takes(p, h, f[n], G, x) /\ f[n] \in Accs
  <2>1. n \in 0..n
    OBVIOUS
  <2> QED
    BY <1>3, <1>5, <2>1, Zenon
<1>7. PICK t : t = DrainOutOfOrder(s)
  BY Zenon
<1>8. t = [s EXCEPT !.recv_seq = f[n].recv, !.receive_queue = f[n].queue, !.out_of_order_queue = f[n].rest]
  BY <1>2, <1>7, Zenon DEF DrainsTo
<1>9. t.recv_seq = f[n].recv /\ t.receive_queue = f[n].queue /\ t.out_of_order_queue = f[n].rest
  BY <1>8 DEF Sockets
<1> QED
  BY <1>6, <1>7, <1>9, Zenon DEF Takes, Taken

\* ingest_payload takes from a segment of the stream what is new, and no more.
LEMMA IngestStream ==
  ASSUME NEW p \in Ends, NEW h \in Seq(Nat), NEW s \in Sockets,
         Len(s.out_of_order_queue) <= TCP_MAX_OUT_OF_ORDER_SEGMENTS, NEW G, Near(G),
         NEW x \in Seqs, Taken(p, h, s, G, x), NEW seq \in Seqs, NEW d \in Seq(Nat),
         d # <<>> => Carries(Pos(p, seq), d, G)
  PROVE  Taken(p, h, IngestPayload(s, seq, d), G, x)
<1>1. s.recv_seq \in Seqs /\ s.receive_queue \in Seq(Nat) /\ s.out_of_order_queue \in Seq(Pieces)
  BY DEF Sockets
<1>2. Intake(p, h, s.recv_seq, s.receive_queue, G) /\ Pos(p, x) <= Pos(p, s.recv_seq) /\ Pending(p, s.out_of_order_queue, G)
  BY Zenon DEF Taken
<1>3. CASE d = <<>> \/ (~SeqAfter(seq, s.recv_seq) /\ ~SeqAfter(Add(seq, Len(d)), s.recv_seq))
  <2>1. IngestPayload(s, seq, d) = s
    BY <1>3, Zenon DEF IngestPayload
  <2> QED
    BY <2>1, Zenon
<1>4. CASE d # <<>> /\ SeqAfter(seq, s.recv_seq)
  <2>1. PICK r \in Seq(Pieces) :
          /\ r = InsertOutOfOrder(s.out_of_order_queue, seq, d)
          /\ \A j \in DOMAIN r : r[j] = [seq |-> seq, data |-> d] \/ \E i \in DOMAIN s.out_of_order_queue : r[j] = s.out_of_order_queue[i]
    BY <1>1, InsertIs
  <2>2. Pending(p, r, G)
    <3>1. ASSUME NEW j \in DOMAIN r PROVE Carries(Pos(p, r[j].seq), r[j].data, G)
      <4>1. CASE r[j] = [seq |-> seq, data |-> d]
        <5>1. r[j].seq = seq /\ r[j].data = d
          BY <4>1
        <5> QED
          BY <1>4, <5>1, Zenon
      <4>2. CASE \E i \in DOMAIN s.out_of_order_queue : r[j] = s.out_of_order_queue[i]
        BY <1>2, <4>2, Zenon DEF Pending
      <4> QED
        BY <2>1, <4>1, <4>2, Zenon
    <3> QED
      BY <3>1, Zenon DEF Pending
  <2>3. PICK t : t = IngestPayload(s, seq, d)
    BY Zenon
  <2>4. t = [s EXCEPT !.out_of_order_queue = r]
    BY <1>4, <2>1, <2>3, Zenon DEF IngestPayload
  <2>5. t.recv_seq = s.recv_seq /\ t.receive_queue = s.receive_queue /\ t.out_of_order_queue = r
    BY <2>4 DEF Sockets
  <2> QED
    BY <1>2, <2>2, <2>3, <2>5, Zenon DEF Taken
<1>5. CASE d # <<>> /\ ~SeqAfter(seq, s.recv_seq) /\ SeqAfter(Add(seq, Len(d)), s.recv_seq)
  <2>1. PICK new : new = Trimmed(seq, d, s.recv_seq)
    BY Zenon
  <2>2. /\ Intake(p, h, Add(s.recv_seq, Len(new)), s.receive_queue \o new, G)
        /\ Pos(p, s.recv_seq) <= Pos(p, Add(s.recv_seq, Len(new)))
    <3>1. Carries(Pos(p, seq), d, G)
      BY <1>5
    <3>2. /\ Intake(p, h, Add(s.recv_seq, Len(Trimmed(seq, d, s.recv_seq))), s.receive_queue \o Trimmed(seq, d, s.recv_seq), G)
          /\ Pos(p, s.recv_seq) <= Pos(p, Add(s.recv_seq, Len(Trimmed(seq, d, s.recv_seq))))
      BY <1>1, <1>2, <1>5, <3>1, TakeNew
    <3> QED
      BY <2>1, <3>2, Zenon
  <2>3. PICK rv \in Seqs, qu \in Seq(Nat) : rv = Add(s.recv_seq, Len(new)) /\ qu = s.receive_queue \o new
    BY <2>2, Zenon DEF Intake
  <2>4. PICK t : t = [s EXCEPT !.recv_seq = rv, !.receive_queue = qu]
    BY Zenon
  <2>5. /\ t \in Sockets /\ t.recv_seq = rv /\ t.receive_queue = qu
        /\ t.out_of_order_queue = s.out_of_order_queue
    BY <2>4 DEF Sockets
  <2>6. Pos(p, x) <= Pos(p, rv)
    <3>1. Pos(p, x) \in Nat /\ Pos(p, s.recv_seq) \in Nat /\ Pos(p, rv) \in Nat
      BY <1>1, PosFacts
    <3>2. Pos(p, s.recv_seq) <= Pos(p, rv)
      BY <2>2, <2>3, Zenon
    <3> QED
      BY <1>2, <3>1, <3>2
  <2>7. Taken(p, h, t, G, x)
    BY <1>2, <2>2, <2>3, <2>5, <2>6, Zenon DEF Taken
  <2>8. IngestPayload(s, seq, d) = DrainOutOfOrder(t)
    BY <1>5, <2>1, <2>3, <2>4, Zenon DEF IngestPayload, NewPayload
  <2>9. Taken(p, h, DrainOutOfOrder(t), G, x)
    BY <2>5, <2>7, DrainStream
  <2> QED
    BY <2>8, <2>9, Zenon
<1> QED
  BY <1>3, <1>4, <1>5

-----------------------------------------------------------------------------
(* A segment moves a socket *)

\* The socket of e may become n.
Moves(e, n) ==
  /\ n \in Sockets /\ Windows(n, unsent[e], sent[e])
  /\ OwnOf(e, n) /\ CrossOf(e, n) /\ Onward(e, sock[e], n, Lim(Peer(e)))

\* The numbers of an end of an open connection.
LEMMA LimFacts ==
  ASSUME TypeInv, StreamInv, NEW e \in Ends
  PROVE  /\ sock[e].state = "Open" => Lim(e) <= 0
         /\ sock[e].state # "Open" => Lim(e) >= Gone(e) + 1
         /\ Fin(e) => Lim(e) = sent[e] + 2 /\ unsent[e] = NoSegment /\ Gone(e) = sent[e]
<1>1. /\ unsent[e] \in Segments /\ sent[e] \in Nat /\ Len(unsent[e].data) \in Nat
      /\ SendPos(e, sock[e]) \in Nat
  BY Counts
<1>2. PICK u \in Nat, k \in Nat, v \in Nat : u = Len(unsent[e].data) /\ k = sent[e] /\ v = SendPos(e, sock[e])
  BY <1>1
<1>3. Gone(e) = k - u /\ Lim(e) = v - u
  BY <1>2, Zenon DEF Gone, Lim
<1>4. /\ sock[e].state = "Open" => v = 0
      /\ sock[e].state # "Open" => v = k + 1 \/ v = k + 2
      /\ unsent[e] # NoSegment => v = k + 1
  BY <1>2, Zenon DEF StreamInv, OwnInv, Own, Numbers, Fresh
<1>5. ASSUME v = k + 2
      PROVE  Lim(e) = k + 2 /\ unsent[e] = NoSegment /\ Gone(e) = k
  <2>1. unsent[e] = NoSegment
    BY <1>4, <1>5
  <2>2. u = 0
    <3>1. Len(<<>>) = 0
      OBVIOUS
    <3> QED
      BY <1>2, <2>1, <3>1, NoSegmentIs, Zenon
  <2> QED
    BY <1>3, <1>5, <2>1, <2>2
<1>6. sock[e].state = "Open" => Lim(e) <= 0
  BY <1>3, <1>4
<1>7. sock[e].state # "Open" => Lim(e) >= Gone(e) + 1
  BY <1>3, <1>4
<1> QED
  BY <1>2, <1>5, <1>6, <1>7, Zenon DEF Fin

\* What a segment of the stream of p carries.
LEMMA DataIs ==
  ASSUME TypeInv, ShortStreams, StreamInv, NEW m \in net, "RST" \notin m.flags
  PROVE  LET p == Peer(m.to)
         IN /\ m.data # <<>> => Carries(Pos(p, m.seq), m.data, Gone(p))
            /\ "FIN" \in m.flags => /\ Pos(p, FinSeq(m)) = sent[p] + 1 /\ Fin(p) /\ FinSeq(m) \in Seqs
            /\ "SYN" \in m.flags => /\ Pos(p, m.seq) = 0 /\ Pos(p, Add(m.seq, 1)) = 1 /\ Add(m.seq, 1) \in Seqs
                                    /\ sock[p].state # "Open"
<1> DEFINE p == Peer(m.to)
<1>1. m.to \in Ends /\ p \in Ends /\ m.seq \in Seqs /\ m.data \in Seq(Nat)
  BY NetType, PeerFacts
<1>2. Good(p, sock[p], sent[p], Gone(p), Lim(Peer(p)), m)
  BY Zenon DEF StreamInv, Sent
<1>3. /\ "SYN" \in m.flags => m.data = <<>> /\ Pos(p, m.seq) = 0 /\ sock[p].state # "Open"
      /\ "FIN" \in m.flags => m.data = <<>> /\ Pos(p, m.seq) = sent[p] + 1 /\ SendPos(p, sock[p]) = sent[p] + 2
      /\ m.data # <<>> => Carries(Pos(p, m.seq), m.data, Gone(p))
  BY <1>2, Zenon DEF Good
<1>4. /\ sent[p] \in Nat /\ SeqSpace \in Nat /\ SeqSpace \div 2 \in Nat /\ SeqSpace \div 2 <= SeqSpace
      /\ sent[p] + 2 < SeqSpace \div 2
  BY <1>1, ShortFacts
<1> HIDE DEF p
<1>5. ASSUME "FIN" \in m.flags
      PROVE  Pos(p, FinSeq(m)) = sent[p] + 1 /\ Fin(p) /\ FinSeq(m) \in Seqs
  <2>1. FinSeq(m) = Add(m.seq, 0)
    <3>1. Len(<<>>) = 0
      OBVIOUS
    <3> QED
      BY <1>3, <1>5, <3>1, Zenon DEF FinSeq
  <2>2. Add(m.seq, 0) \in Seqs
    BY <1>1, AddType
  <2>3. 0 <= Pos(p, m.seq) + 0 /\ Pos(p, m.seq) + 0 < SeqSpace /\ Pos(p, m.seq) + 0 = sent[p] + 1
    BY <1>3, <1>4, <1>5
  <2>4. Pos(p, Add(m.seq, 0)) = Pos(p, m.seq) + 0
    BY <1>1, <2>3, PosAdd
  <2> QED
    BY <1>3, <1>5, <2>1, <2>2, <2>3, <2>4, Zenon DEF Fin
<1>6. ASSUME "SYN" \in m.flags
      PROVE  Pos(p, Add(m.seq, 1)) = 1 /\ Add(m.seq, 1) \in Seqs
  <2>1. 0 <= Pos(p, m.seq) + 1 /\ Pos(p, m.seq) + 1 < SeqSpace /\ Pos(p, m.seq) + 1 = 1
    BY <1>3, <1>4, <1>6
  <2> QED
    BY <1>1, <2>1, PosAdd, AddType
<1> QED
  BY <1>3, <1>5, <1>6, Zenon DEF p

\* The sending side of a later socket.
LEMMA SendOn ==
  ASSUME NEW e \in Ends, NEW s \in Sockets, NEW n \in Sockets, NEW u \in Segments, NEW k \in Nat,
         NEW h, NEW L \in Int, Onward(e, s, n, L), Within(n.retransmit_queue, s.retransmit_queue),
         Numbers(e, s, u, k, h, L), Queue(e, s, u, k, L), s.state # "Open",
         n.state \in Unfinished => s.state \in Unfinished,
         n.state \in {"FinWait1", "FinWait2", "LastAck"} => s.state \in {"FinWait1", "FinWait2", "LastAck"},
         n.state \in {"SynSent", "SynReceived"} =>
           s.state \in {"SynSent", "SynReceived"} /\ n.receive_queue = s.receive_queue
  PROVE  Numbers(e, n, u, k, h, L) /\ Queue(e, n, u, k, L)
<1>1. SendPos(e, n) = SendPos(e, s) /\ n.state # "Open"
  BY Zenon DEF Onward, SendPos
<1>2. Queue(e, n, u, k, L)
  BY QueueOn
<1>3. u # NoSegment => Fresh(e, n, k, L, u)
  <2>1. u # NoSegment => Fresh(e, s, k, L, u)
    BY Zenon DEF Numbers
  <2> QED
    BY <2>1, FreshOn
<1>4. /\ n.state \in Unfinished \ {"Open"} => SendPos(e, n) = k + 1
      /\ n.state \in {"FinWait1", "FinWait2", "LastAck"} => SendPos(e, n) = k + 2
      /\ SendPos(e, n) = k + 1 \/ SendPos(e, n) = k + 2
  BY <1>1, Zenon DEF Numbers
<1>5. n.state \in {"Open", "SynSent", "SynReceived"} =>
        k = 0 /\ u = NoSegment /\ h = <<>> /\ n.receive_queue = <<>>
  BY <1>1, Zenon DEF Numbers
<1> QED
  BY <1>1, <1>2, <1>3, <1>4, <1>5, Zenon DEF Numbers

\* The cross condition sees the state and the retransmission queue.
LEMMA CrossSame ==
  ASSUME NEW s, NEW n, NEW k, NEW v, NEW r, n.retransmit_queue = s.retransmit_queue,
         n.state = s.state \/ (v /\ s.state \notin {"Open", "SynSent", "Closed"})
                           \/ (v /\ s.state = "SynSent" /\ k = 0),
         r \in Nat, k \in Nat, Remembers(s, k, v, r)
  PROVE  Remembers(n, k, v, r)
<1>1. \A b : Holds(n, b) <=> Holds(s, b)
  BY Zenon DEF Holds
<1>2. CASE n.state = s.state
  BY <1>1, <1>2, Zenon DEF Remembers
<1>3. CASE v /\ s.state \notin {"Open", "SynSent", "Closed"}
  BY <1>1, <1>3, Zenon DEF Remembers
<1>4. CASE v /\ s.state = "SynSent" /\ k = 0
  <2>1. \A b \in Nat \ {0} : ~(b <= k)
    BY <1>4
  <2> QED
    BY <1>4, <2>1, Zenon DEF Remembers
<1> QED
  BY <1>2, <1>3, <1>4

\* The parts of a move.
LEMMA MovesIs ==
  ASSUME TypeInv, NEW e \in Ends, NEW s, Moves(e, s)
  PROVE  /\ s \in Sockets /\ unsent[e] \in Segments /\ sent[e] \in Nat /\ got[e] \in Seq(Nat)
         /\ Peer(e) \in Ends /\ Lim(Peer(e)) \in Int /\ Gone(Peer(e)) \in Nat /\ sent[Peer(e)] \in Nat
         /\ sock[e] \in Sockets /\ Recv(Peer(e)) \in Nat
         /\ Numbers(e, s, unsent[e], sent[e], got[e], Lim(Peer(e)))
         /\ Queue(e, s, unsent[e], sent[e], Lim(Peer(e)))
         /\ Reception(e, s, got[e], Gone(Peer(e)), sent[Peer(e)], Fin(Peer(e)))
         /\ s.state \notin {"Open", "SynSent", "Closed"} => Valid(e, s, Lim(Peer(e)))
         /\ RecvPos(e, s) \in Nat /\ s.recv_seq \in Seqs
<1>1. s \in Sockets /\ OwnOf(e, s)
  BY Zenon DEF Moves
<1>2. /\ unsent[e] \in Segments /\ sent[e] \in Nat /\ got[e] \in Seq(Nat)
      /\ Peer(e) \in Ends /\ sock[e] \in Sockets
  BY Counts
<1>3. Lim(Peer(e)) \in Int /\ Gone(Peer(e)) \in Nat /\ sent[Peer(e)] \in Nat /\ Recv(Peer(e)) \in Nat
  BY <1>2, Counts
<1>4. RecvPos(e, s) \in Nat /\ s.recv_seq \in Seqs
  BY <1>1, SockPos
<1> QED
  BY <1>1, <1>2, <1>3, <1>4, Zenon DEF OwnOf, Own

\* A move, and another.
LEMMA MovesOn ==
  ASSUME TypeInv, NEW e \in Ends, NEW s, Moves(e, s), NEW n \in Sockets, Windows(n, unsent[e], sent[e]),
         OwnOf(e, n), CrossOf(e, n), Onward(e, s, n, Lim(Peer(e)))
  PROVE  Moves(e, n)
<1>1. s \in Sockets /\ sock[e] \in Sockets /\ Onward(e, sock[e], s, Lim(Peer(e)))
  BY MovesIs, Zenon DEF Moves
<1>2. Onward(e, sock[e], n, Lim(Peer(e)))
  BY <1>1, OnwardTrans
<1> QED
  BY <1>2, Zenon DEF Moves

\* A move that keeps the retransmission queue.
LEMMA MoveTo ==
  ASSUME TypeInv, NEW e \in Ends, NEW s, Moves(e, s), NEW n \in Sockets, Windows(n, unsent[e], sent[e]),
         Onward(e, s, n, Lim(Peer(e))), n.retransmit_queue = s.retransmit_queue, s.state # "Open",
         n.state \in Unfinished => s.state \in Unfinished,
         n.state \in {"FinWait1", "FinWait2", "LastAck"} => s.state \in {"FinWait1", "FinWait2", "LastAck"},
         n.state \in {"SynSent", "SynReceived"} =>
           s.state \in {"SynSent", "SynReceived"} /\ n.receive_queue = s.receive_queue,
         Reception(e, n, got[e], Gone(Peer(e)), sent[Peer(e)], Fin(Peer(e))),
         n.state \notin {"Open", "SynSent", "Closed"} => Valid(e, n, Lim(Peer(e))),
         \/ n.state = s.state
         \/ Val(Peer(e)) /\ s.state \notin {"Open", "SynSent", "Closed"}
         \/ Val(Peer(e)) /\ s.state = "SynSent" /\ sent[e] = 0
  PROVE  Moves(e, n)
<1>1. /\ s \in Sockets /\ unsent[e] \in Segments /\ sent[e] \in Nat /\ Lim(Peer(e)) \in Int
      /\ Recv(Peer(e)) \in Nat
      /\ Numbers(e, s, unsent[e], sent[e], got[e], Lim(Peer(e)))
      /\ Queue(e, s, unsent[e], sent[e], Lim(Peer(e)))
  BY MovesIs
<1>2. Within(n.retransmit_queue, s.retransmit_queue)
  BY WithinFacts, Zenon
<1>3. Numbers(e, n, unsent[e], sent[e], got[e], Lim(Peer(e))) /\ Queue(e, n, unsent[e], sent[e], Lim(Peer(e)))
  BY <1>1, <1>2, SendOn
<1>4. OwnOf(e, n)
  BY <1>3, Zenon DEF OwnOf, Own
<1>5. CrossOf(e, n)
  <2>1. Remembers(s, sent[e], Val(Peer(e)), Recv(Peer(e)))
    BY Zenon DEF Moves, CrossOf
  <2> QED
    BY <1>1, <2>1, CrossSame DEF CrossOf
<1> QED
  BY <1>4, <1>5, MovesOn

\* The acknowledged socket is a move.
LEMMA AckedMoves ==
  ASSUME TypeInv, ShortStreams, StreamInv, NEW m \in net, "RST" \notin m.flags
  PROVE  Moves(m.to, Acked(m)) /\ Acked(m).state = sock[m.to].state
<1>1. Acked(m) \in Sockets /\ Windows(Acked(m), unsent[m.to], sent[m.to]) /\ AckedFrom(Acked(m), sock[m.to])
  BY AckedIs
<1>2. /\ OwnOf(m.to, Acked(m)) /\ CrossOf(m.to, Acked(m))
      /\ Onward(m.to, sock[m.to], Acked(m), Lim(Peer(m.to)))
  BY AckedStream
<1> QED
  BY <1>1, <1>2, Zenon DEF Moves, AckedFrom

\* States in which data is taken.
Open4Data == {"Established", "FinWait1", "FinWait2"}

\* What has been received and what has been delivered are the same.
LEMMA IntakeIs ==
  ASSUME NEW p \in Ends, NEW h \in Seq(Nat), NEW x \in Seqs, NEW q \in Seq(Nat), NEW G \in Nat, Pos(p, x) >= 1
  PROVE  Intake(p, h, x, q, G) <=>
           /\ h \o q = Bytes(Len(h \o q)) /\ Len(h \o q) = Pos(p, x) - 1 /\ Pos(p, x) <= G + 1
<1>1. PICK r \in Nat : r = Pos(p, x) /\ r - 1 \in Nat
  BY PosFacts
<1>2. Len(Bytes(r - 1)) = r - 1
  BY <1>1 DEF Bytes
<1>3. Intake(p, h, x, q, G) => h \o q = Bytes(r - 1) /\ r <= G + 1
  BY <1>1, Zenon DEF Intake, Stream
<1>4. h \o q = Bytes(r - 1) /\ r <= G + 1 => Intake(p, h, x, q, G)
  BY <1>1, Zenon DEF Intake, Stream
<1>5. h \o q = Bytes(r - 1) <=> h \o q = Bytes(Len(h \o q)) /\ Len(h \o q) = r - 1
  BY <1>2, Zenon
<1> QED
  BY <1>1, <1>3, <1>4, <1>5, Zenon

\* The payload of a segment is a move.
LEMMA IngestMoves ==
  ASSUME TypeInv, ShortStreams, StreamInv, NEW m \in net, "RST" \notin m.flags,
         NEW s, Moves(m.to, s), s.state \in Open4Data
  PROVE  LET n == IngestPayload(s, m.seq, m.data)
         IN Moves(m.to, n) /\ n.state = s.state
<1>1. PICK e \in Ends : e = m.to
  BY NetType
<1>2. PICK p \in Ends : p = Peer(e)
  BY PeerFacts
<1>3. /\ s \in Sockets /\ got[e] \in Seq(Nat) /\ Lim(p) \in Int /\ Gone(p) \in Nat
      /\ Reception(e, s, got[e], Gone(p), sent[p], Fin(p)) /\ RecvPos(e, s) \in Nat
      /\ s.recv_seq \in Seqs /\ Valid(e, s, Lim(p))
  <2>1. Moves(e, s)
    BY <1>1
  <2>2. /\ s \in Sockets /\ got[e] \in Seq(Nat) /\ Lim(p) \in Int /\ Gone(p) \in Nat
        /\ Reception(e, s, got[e], Gone(p), sent[p], Fin(p)) /\ RecvPos(e, s) \in Nat
        /\ s.recv_seq \in Seqs
        /\ s.state \notin {"Open", "SynSent", "Closed"} => Valid(e, s, Lim(p))
    BY <1>2, <2>1, MovesIs
  <2> QED
    BY <2>2 DEF Open4Data
<1>4. s.receive_queue \in Seq(Nat) /\ Len(s.out_of_order_queue) <= TCP_MAX_OUT_OF_ORDER_SEGMENTS
  <2>1. Windows(s, unsent[e], sent[e])
    BY <1>1, Zenon DEF Moves
  <2> QED
    BY <1>3, <2>1 DEF Sockets, Windows
<1>5. PICK n : n = IngestPayload(s, m.seq, m.data)
  BY Zenon
<1>6. n \in Sockets /\ SameButInput(n, s) /\ Windows(n, unsent[e], sent[e])
  BY <1>1, <1>3, <1>5, Ingested DEF Moves
<1>7. m.seq \in Seqs /\ m.data \in Seq(Nat) /\ (m.data # <<>> => Carries(Pos(p, m.seq), m.data, Gone(p)))
  BY <1>1, <1>2, NetType, DataIs
<1>8. Near(Gone(p))
  BY ShortFacts DEF Near
<1>9. Pos(p, s.recv_seq) >= 1 /\ RecvPos(e, s) = Pos(p, s.recv_seq)
  BY <1>2, <1>3, Zenon DEF Valid, RecvPos
<1>10. Taken(p, got[e], s, Gone(p), s.recv_seq)
  <2>1. Intake(p, got[e], s.recv_seq, s.receive_queue, Gone(p))
    <3>1. /\ got[e] \o s.receive_queue = Bytes(Len(got[e] \o s.receive_queue))
          /\ Len(got[e] \o s.receive_queue) = Pos(p, s.recv_seq) - 1 /\ Pos(p, s.recv_seq) <= Gone(p) + 1
      BY <1>3, <1>9, Zenon DEF Reception, Open4Data
    <3>2. ASSUME NEW h \in Seq(Nat), NEW x \in Seqs, NEW q \in Seq(Nat), NEW G \in Nat, Pos(p, x) >= 1,
                 h \o q = Bytes(Len(h \o q)), Len(h \o q) = Pos(p, x) - 1, Pos(p, x) <= G + 1
          PROVE  Intake(p, h, x, q, G)
      BY <3>2, IntakeIs, Zenon
    <3> QED
      BY <1>3, <1>4, <1>9, <3>1, <3>2, Zenon
  <2>2. Pos(p, s.recv_seq) <= Pos(p, s.recv_seq)
    BY <1>3, <1>9
  <2>3. Pending(p, s.out_of_order_queue, Gone(p))
    BY <1>2, <1>3, Zenon DEF Reception, Pending
  <2> QED
    BY <2>1, <2>2, <2>3, Zenon DEF Taken
<1>11. Taken(p, got[e], n, Gone(p), s.recv_seq)
  BY <1>3, <1>4, <1>5, <1>7, <1>8, <1>10, IngestStream
<1>12. /\ n.recv_seq \in Seqs /\ n.receive_queue \in Seq(Nat)
       /\ RecvPos(e, n) = Pos(p, n.recv_seq) /\ RecvPos(e, n) \in Nat
       /\ RecvPos(e, n) >= 1 /\ RecvPos(e, n) <= Gone(p) + 1 /\ RecvPos(e, s) <= RecvPos(e, n)
  BY <1>2, <1>6, <1>9, <1>11, SockPos DEF Taken, Intake, RecvPos
<1>13. Lim(p) >= Gone(p) + 1
  <2>1. RecvPos(e, s) >= 1 /\ RecvPos(e, s) <= Lim(p)
    BY <1>3, Zenon DEF Valid
  <2>2. ~(Lim(p) <= 0)
    BY <1>3, <2>1
  <2> QED
    BY <2>2, LimFacts
<1>14. Valid(e, n, Lim(p)) /\ n.state = s.state /\ n.send_seq = s.send_seq /\ n.retransmit_queue = s.retransmit_queue
       /\ n.pending_fin_seq = s.pending_fin_seq
  <2>1. n.state = s.state /\ n.send_seq = s.send_seq /\ n.retransmit_queue = s.retransmit_queue
        /\ n.pending_fin_seq = s.pending_fin_seq
    BY <1>6, Zenon DEF SameButInput
  <2>2. RecvPos(e, n) <= Lim(p)
    BY <1>3, <1>12, <1>13
  <2>3. 1 <= RecvPos(e, n)
    BY <1>12
  <2> QED
    BY <1>3, <2>1, <2>2, <2>3, Zenon DEF Valid
<1>15. Onward(e, s, n, Lim(p))
  BY <1>12, <1>14, Zenon DEF Onward
<1>16. Reception(e, n, got[e], Gone(p), sent[p], Fin(p))
  <2>1. Intake(p, got[e], n.recv_seq, n.receive_queue, Gone(p)) /\ Pending(p, n.out_of_order_queue, Gone(p))
    BY <1>11, Zenon DEF Taken
  <2>2. /\ got[e] \o n.receive_queue = Bytes(Len(got[e] \o n.receive_queue))
        /\ Len(got[e] \o n.receive_queue) = Pos(p, n.recv_seq) - 1
    <3>1. ASSUME NEW h \in Seq(Nat), NEW x \in Seqs, NEW q \in Seq(Nat), NEW G \in Nat, Pos(p, x) >= 1, Intake(p, h, x, q, G)
          PROVE  h \o q = Bytes(Len(h \o q)) /\ Len(h \o q) = Pos(p, x) - 1
      <4>1. Intake(p, h, x, q, G) <=>
              /\ h \o q = Bytes(Len(h \o q)) /\ Len(h \o q) = Pos(p, x) - 1 /\ Pos(p, x) <= G + 1
        BY <3>1, IntakeIs
      <4> QED
        BY <3>1, <4>1
    <3>2. Pos(p, n.recv_seq) >= 1
      BY <1>12, Zenon
    <3> QED
      BY <1>3, <1>12, <2>1, <3>1, <3>2, Zenon
  <2>3. \A i \in DOMAIN n.out_of_order_queue :
          Carries(Pos(p, n.out_of_order_queue[i].seq), n.out_of_order_queue[i].data, Gone(p))
    BY <2>1, Zenon DEF Pending
  <2>4. n.pending_fin_seq # NoFin => Pos(p, n.pending_fin_seq) = sent[p] + 1 /\ Fin(p)
    BY <1>2, <1>3, <1>14, Zenon DEF Reception
  <2>5. n.state \notin {"CloseWait", "LastAck"}
    BY <1>14 DEF Open4Data
  <2> QED
    BY <1>2, <1>12, <2>2, <2>3, <2>4, <2>5, Zenon DEF Reception
<1>17. Moves(e, n)
  <2>1. s.state # "Open" /\ n.state \notin {"SynSent", "SynReceived"} /\ Moves(e, s)
    BY <1>1, <1>14 DEF Open4Data
  <2> QED
    BY <1>2, <1>6, <1>14, <1>15, <1>16, <2>1, MoveTo
<1> QED
  BY <1>1, <1>5, <1>14, <1>17, Zenon

\* The peer's FIN is the next place of socket s of e.
FinNext(e, s) == RecvPos(e, s) = sent[Peer(e)] + 1 /\ Fin(Peer(e))

\* One place further, for the FIN.
LEMMA FinPlace ==
  ASSUME TypeInv, ShortStreams, StreamInv, NEW e \in Ends, NEW s, Moves(e, s), FinNext(e, s),
         NEW n \in Sockets, n.recv_seq = Add(s.recv_seq, 1), n.send_seq = s.send_seq,
         s.state \notin {"Open", "SynSent", "Closed"}, n.state \notin {"Open", "SynSent", "Closed"} \/ n.state = "Closed"
  PROVE  /\ RecvPos(e, n) = sent[Peer(e)] + 2 /\ Valid(e, n, Lim(Peer(e)))
         /\ Onward(e, s, n, Lim(Peer(e)))
<1>1. PICK p \in Ends : p = Peer(e)
  BY PeerFacts
<1>2. /\ sent[p] \in Nat /\ SeqSpace \in Nat /\ SeqSpace \div 2 \in Nat /\ SeqSpace \div 2 <= SeqSpace
      /\ sent[p] + 2 < SeqSpace \div 2
  BY ShortFacts
<1>3. Lim(p) = sent[p] + 2
  BY <1>1, LimFacts DEF FinNext
<1>4. s.recv_seq \in Seqs /\ RecvPos(e, s) = Pos(p, s.recv_seq) /\ RecvPos(e, s) = sent[p] + 1
  BY <1>1, MovesIs DEF RecvPos, FinNext
<1>5. RecvPos(e, n) = sent[p] + 2
  <2>1. PICK x \in Seqs : x = s.recv_seq /\ Pos(p, x) = sent[p] + 1
    BY <1>4, Zenon
  <2>2. 0 <= Pos(p, x) + 1 /\ Pos(p, x) + 1 < SeqSpace /\ Pos(p, x) + 1 = sent[p] + 2
    BY <1>2, <2>1
  <2>3. Pos(p, Add(x, 1)) = Pos(p, x) + 1
    BY <2>2, PosAdd
  <2>4. RecvPos(e, n) = Pos(p, Add(x, 1))
    BY <1>1, <2>1, Zenon DEF RecvPos
  <2> QED
    BY <2>2, <2>3, <2>4, Zenon
<1>6. 1 <= RecvPos(e, n) /\ RecvPos(e, n) <= Lim(p) /\ RecvPos(e, s) <= RecvPos(e, n)
  BY <1>2, <1>3, <1>4, <1>5
<1>7. n.state \notin {"Open", "SynSent"}
  OBVIOUS
<1>8. Valid(e, n, Lim(p))
  BY <1>6, <1>7, Zenon DEF Valid
<1>9. Onward(e, s, n, Lim(p))
  BY <1>6, <1>7, <1>8, Zenon DEF Onward
<1> QED
  BY <1>1, <1>5, <1>8, <1>9, Zenon

\* The FIN is taken in an established connection.
LEMMA HalfMoves ==
  ASSUME TypeInv, ShortStreams, StreamInv, NEW e \in Ends, NEW s, Moves(e, s), FinNext(e, s),
         s.state = "Established", Val(Peer(e))
  PROVE  Moves(e, HalfSock(s)) /\ HalfSock(s).state = "CloseWait" /\ Valid(e, HalfSock(s), Lim(Peer(e)))
<1>1. PICK p \in Ends : p = Peer(e)
  BY PeerFacts
<1>2. /\ s \in Sockets /\ got[e] \in Seq(Nat) /\ sent[p] \in Nat /\ RecvPos(e, s) \in Nat
      /\ Reception(e, s, got[e], Gone(p), sent[p], Fin(p)) /\ Windows(s, unsent[e], sent[e])
  <2>1. Windows(s, unsent[e], sent[e])
    BY Zenon DEF Moves
  <2> QED
    BY <1>1, <2>1, MovesIs
<1>3. PICK n \in Sockets : n = HalfSock(s) /\ Windows(n, unsent[e], sent[e])
  BY <1>2, FinTakenType
<1>4. /\ n.state = "CloseWait" /\ n.send_seq = s.send_seq /\ n.recv_seq = Add(s.recv_seq, 1)
      /\ n.pending_fin_seq = NoFin /\ n.receive_queue = s.receive_queue
      /\ n.out_of_order_queue = s.out_of_order_queue /\ n.retransmit_queue = s.retransmit_queue
  BY <1>2, <1>3 DEF HalfSock, Sockets
<1>5. RecvPos(e, n) = sent[p] + 2 /\ Valid(e, n, Lim(p)) /\ Onward(e, s, n, Lim(p))
  BY <1>1, <1>4, FinPlace
<1>6. Reception(e, n, got[e], Gone(p), sent[p], Fin(p))
  <2>1. Len(got[e] \o s.receive_queue) = RecvPos(e, s) - 1 /\ RecvPos(e, s) = sent[p] + 1 /\ Fin(p)
    BY <1>1, <1>2, Zenon DEF Reception, FinNext
  <2>2. Len(got[e] \o n.receive_queue) = sent[p]
    <3>1. RecvPos(e, s) - 1 = sent[p]
      BY <1>2, <2>1
    <3> QED
      BY <1>4, <2>1, <3>1, Zenon
  <2> QED
    BY <1>2, <1>4, <1>5, <2>1, <2>2, Zenon DEF Reception
<1>7. Moves(e, n)
  <2>1. /\ s.state # "Open" /\ n.state \notin {"FinWait1", "FinWait2", "LastAck", "SynSent", "SynReceived"}
        /\ s.state \in Unfinished /\ s.state \notin {"Open", "SynSent", "Closed"}
    BY <1>4 DEF Unfinished
  <2> QED
    BY <1>1, <1>3, <1>4, <1>5, <1>6, <2>1, MoveTo
<1> QED
  BY <1>1, <1>3, <1>4, <1>5, <1>7, Zenon

\* It is taken after the own FIN.
LEMMA DoneMoves ==
  ASSUME TypeInv, ShortStreams, StreamInv, NEW e \in Ends, NEW s, Moves(e, s), FinNext(e, s),
         s.state \in {"FinWait1", "FinWait2"}
  PROVE  Moves(e, DoneSock(s)) /\ DoneSock(s).state = "Closed" /\ Valid(e, DoneSock(s), Lim(Peer(e)))
<1>1. PICK p \in Ends : p = Peer(e)
  BY PeerFacts
<1>2. /\ s \in Sockets /\ got[e] \in Seq(Nat) /\ Lim(p) \in Int /\ unsent[e] \in Segments /\ sent[e] \in Nat
      /\ Windows(s, unsent[e], sent[e])
  <2>1. Windows(s, unsent[e], sent[e])
    BY Zenon DEF Moves
  <2> QED
    BY <1>1, <2>1, MovesIs
<1>3. PICK n \in Sockets : n = DoneSock(s) /\ Windows(n, unsent[e], sent[e])
  BY <1>2, FinTakenType
<1>4. /\ n.state = "Closed" /\ n.send_seq = s.send_seq /\ n.recv_seq = Add(s.recv_seq, 1)
      /\ n.pending_fin_seq = s.pending_fin_seq /\ n.receive_queue = s.receive_queue
      /\ n.out_of_order_queue = s.out_of_order_queue /\ n.retransmit_queue = s.retransmit_queue
  BY <1>2, <1>3 DEF DoneSock, Sockets
<1>5. RecvPos(e, n) = sent[p] + 2 /\ Valid(e, n, Lim(p)) /\ Onward(e, s, n, Lim(p))
  BY <1>1, <1>4, FinPlace
<1>6. OwnOf(e, n)
  <2>1. Own(e, s, unsent[e], sent[e], got[e], Lim(p), Gone(p), sent[p], Fin(p))
    BY <1>1, Zenon DEF Moves, OwnOf
  <2>2. Within(n.retransmit_queue, s.retransmit_queue) /\ s.state # "Open"
    BY <1>4, WithinFacts, Zenon
  <2>3. Own(e, n, unsent[e], sent[e], got[e], Lim(p), Gone(p), sent[p], Fin(p))
    BY <1>2, <1>4, <1>5, <2>1, <2>2, OwnClosed
  <2> QED
    BY <1>1, <2>3, Zenon DEF OwnOf
<1>7. CrossOf(e, n)
  <2>1. Remembers(s, sent[e], Val(p), Recv(p))
    BY <1>1, Zenon DEF Moves, CrossOf
  <2>2. Remembers(n, sent[e], Val(p), Recv(p))
    BY <1>4, <2>1, CrossClosed
  <2> QED
    BY <1>1, <2>2, Zenon DEF CrossOf
<1>8. Moves(e, n)
  BY <1>1, <1>3, <1>5, <1>6, <1>7, MovesOn
<1> QED
  BY <1>1, <1>3, <1>4, <1>5, <1>8, Zenon

\* It ends the stream.
LEMMA DoneEnd ==
  ASSUME TypeInv, NEW e \in Ends, NEW s, Moves(e, s), FinNext(e, s), s.state \in {"FinWait1", "FinWait2"}
  PROVE  EndOf(e, DoneSock(s), got[e])
<1>1. PICK p \in Ends : p = Peer(e)
  BY PeerFacts
<1>2. /\ s \in Sockets /\ sent[p] \in Nat /\ RecvPos(e, s) \in Nat
      /\ Reception(e, s, got[e], Gone(p), sent[p], Fin(p))
  BY <1>1, MovesIs
<1>3. DoneSock(s).receive_queue = s.receive_queue
  BY <1>2 DEF DoneSock, Sockets
<1>4. Len(got[e] \o s.receive_queue) = RecvPos(e, s) - 1 /\ RecvPos(e, s) = sent[p] + 1 /\ Fin(p)
  BY <1>1, <1>2, Zenon DEF Reception, FinNext
<1>5. RecvPos(e, s) - 1 = sent[p]
  BY <1>2, <1>4
<1> QED
  BY <1>1, <1>3, <1>4, <1>5, Zenon DEF EndOf

\* A FIN ahead of the data is remembered, one behind it forgotten.
LEMMA KeptFinMoves ==
  ASSUME TypeInv, ShortStreams, StreamInv, NEW m \in net, "RST" \notin m.flags,
         NEW s, Moves(m.to, s), s.state = "Established"
  PROVE  Moves(m.to, KeptFin(m, s)) /\ KeptFin(m, s).state = "Established"
         /\ Valid(m.to, KeptFin(m, s), Lim(Peer(m.to)))
<1>1. PICK e \in Ends : e = m.to
  BY NetType
<1>2. PICK p \in Ends : p = Peer(e)
  BY PeerFacts
<1>3. /\ s \in Sockets /\ Reception(e, s, got[e], Gone(p), sent[p], Fin(p)) /\ Windows(s, unsent[e], sent[e])
      /\ Valid(e, s, Lim(p))
  <2>1. Windows(s, unsent[e], sent[e]) /\ s.state \notin {"Open", "SynSent", "Closed"}
    BY <1>1, Zenon DEF Moves
  <2>2. Moves(e, s)
    BY <1>1
  <2> QED
    BY <1>2, <2>1, <2>2, MovesIs
<1>4. PICK n : n = KeptFin(m, s)
  BY Zenon
<1>5. /\ n \in Sockets /\ SameButFin(n, s) /\ Windows(n, unsent[e], sent[e])
      /\ n.pending_fin_seq \in {s.pending_fin_seq, NoFin} \/ ("FIN" \in m.flags /\ n.pending_fin_seq = FinSeq(m))
  BY <1>1, <1>3, <1>4, KeptFinType
<1>6. n.pending_fin_seq # NoFin => Pos(p, n.pending_fin_seq) = sent[p] + 1 /\ Fin(p)
  <2>1. s.pending_fin_seq # NoFin => Pos(p, s.pending_fin_seq) = sent[p] + 1 /\ Fin(p)
    BY <1>2, <1>3, Zenon DEF Reception
  <2>2. "FIN" \in m.flags => Pos(p, FinSeq(m)) = sent[p] + 1 /\ Fin(p)
    BY <1>1, <1>2, DataIs
  <2> QED
    BY <1>5, <2>1, <2>2, Zenon
<1>7. /\ n.state = s.state /\ n.send_seq = s.send_seq /\ n.recv_seq = s.recv_seq
      /\ n.receive_queue = s.receive_queue /\ n.out_of_order_queue = s.out_of_order_queue
      /\ n.retransmit_queue = s.retransmit_queue
  BY <1>5, Zenon DEF SameButFin
<1>8. Onward(e, s, n, Lim(p)) /\ RecvPos(e, n) = RecvPos(e, s)
  BY <1>3, <1>5, <1>7, SameOnward
<1>9. Reception(e, n, got[e], Gone(p), sent[p], Fin(p)) /\ Valid(e, n, Lim(p))
  BY <1>2, <1>3, <1>6, <1>7, <1>8, Zenon DEF Reception, Valid
<1>10. Moves(e, n)
  <2>1. s.state # "Open" /\ n.state \notin {"SynSent", "SynReceived"} /\ Moves(e, s)
    BY <1>1, <1>7
  <2> QED
    BY <1>2, <1>5, <1>7, <1>8, <1>9, <2>1, MoveTo
<1> QED
  BY <1>1, <1>2, <1>4, <1>7, <1>9, <1>10, Zenon

-----------------------------------------------------------------------------
(* The steps of dispatch_tcp_segment *)

\* A connection that takes data knows of its peer.
LEMMA MovesVal ==
  ASSUME NEW e, NEW s, Moves(e, s), s.state \in Open4Data
  PROVE  Val(Peer(e))
<1>1. s.state \notin {"Open", "SynSent", "SynReceived", "Closed"}
  BY DEF Open4Data
<1> QED
  BY <1>1, Zenon DEF Moves, CrossOf, Remembers

\* The acknowledgement that a socket sends is good.
LEMMA AckOfGood ==
  ASSUME NEW e \in Ends, NEW n \in Sockets, Valid(e, n, Lim(Peer(e)))
  PROVE  AckOf(e, n) \in Segments /\ AckOf(e, n).to = Peer(e) /\ GoodOf(e, n, AckOf(e, n))
<1>1. PICK g : g = AckOf(e, n)
  BY Zenon
<1>2. g \in Segments /\ g.to = Peer(e) /\ g.ack = n.recv_seq /\ g.flags = {"ACK"} /\ g.data = <<>>
  BY <1>1, AckOfType
<1>3. "SYN" \notin g.flags /\ "FIN" \notin g.flags /\ g.flags # {"SYN"}
  BY <1>2
<1>4. 1 <= Pos(Peer(e), g.ack) /\ Pos(Peer(e), g.ack) <= RecvPos(e, n)
  <2>1. RecvPos(e, n) \in Nat
    BY SockPos
  <2>2. 1 <= RecvPos(e, n) /\ RecvPos(e, n) <= RecvPos(e, n)
    BY <2>1 DEF Valid
  <2> QED
    BY <1>2, <2>2, Zenon DEF RecvPos
<1>5. GoodOf(e, n, g)
  BY <1>2, <1>3, <1>4, Zenon DEF GoodOf, Good
<1> QED
  BY <1>1, <1>2, <1>5, Zenon

\* A segment that moves the socket, with good replies.
LEMMA ReceiveStep ==
  ASSUME TypeInv, StreamInv, NEW m \in net, NEW n, Moves(m.to, n), NEW replies,
         Receive(m, n, replies), n.state = "LastAck" => sock[m.to].state = "LastAck",
         \A g \in replies : g \in Segments /\ g.to = Peer(m.to) /\ GoodOf(m.to, n, g),
         Calm(m.to), EndOf(m.to, n, got[m.to])
  PROVE  StreamInv'
<1>1. PICK e \in Ends : e = m.to
  BY NetType
<1>2. n \in Sockets /\ Windows(n, unsent[m.to], sent[m.to]) /\ OwnOf(e, n) /\ CrossOf(e, n)
      /\ Onward(e, sock[e], n, Lim(Peer(e)))
  BY <1>1, Zenon DEF Moves
<1>3. replies \subseteq Segments
  BY Zenon
<1>4. TypeInv' /\ LocalTo(e) /\ sock'[e] = n
  BY <1>1, <1>2, <1>3, ReceiveType
<1>5. UNCHANGED <<appVars, sent, got>> /\ net' = net \cup replies
  BY Zenon DEF Receive
<1>6. unsent'[e] = unsent[e] /\ sent'[e] = sent[e] /\ got'[e] = got[e] /\ prog'[e] = prog[e]
  BY <1>5, Zenon DEF appVars
<1>7. \A g \in net' \ net : "RST" \in g.flags \/ (g.to = Peer(e) /\ GoodOf(e, n, g))
  BY <1>1, <1>5, Zenon
<1>8. n.state = "LastAck" => prog'[e] = <<>>
  BY <1>1, <1>6, Zenon DEF StreamInv, LastCall
<1>9. Calm(e) /\ EndOf(e, n, got[e])
  BY <1>1, Zenon
<1> QED
  BY <1>2, <1>4, <1>6, <1>7, <1>8, <1>9, SockStep

\* The FIN that has been waiting, or that of the segment, is the next place.
LEMMA FinNextIs ==
  ASSUME TypeInv, ShortStreams, StreamInv, NEW m \in net, "RST" \notin m.flags,
         NEW s, Moves(m.to, s), s.pending_fin_seq = s.recv_seq \/ FinIsNext(m, s)
  PROVE  FinNext(m.to, s)
<1>1. PICK e \in Ends : e = m.to
  BY NetType
<1>2. PICK p \in Ends : p = Peer(e)
  BY PeerFacts
<1>3. s.recv_seq \in Seqs /\ Reception(e, s, got[e], Gone(p), sent[p], Fin(p))
  <2>1. Moves(e, s)
    BY <1>1
  <2> QED
    BY <1>2, <2>1, MovesIs
<1>4. CASE s.pending_fin_seq = s.recv_seq
  <2>1. s.recv_seq # NoFin
    BY <1>3, SpaceFacts DEF Seqs, NoFin
  <2>2. Pos(p, s.recv_seq) = sent[p] + 1 /\ Fin(p)
    BY <1>2, <1>3, <1>4, <2>1, Zenon DEF Reception
  <2> QED
    BY <1>1, <1>2, <2>2, Zenon DEF FinNext, RecvPos
<1>5. CASE FinIsNext(m, s)
  <2>1. "FIN" \in m.flags /\ FinSeq(m) = s.recv_seq
    BY <1>5, Zenon DEF FinIsNext
  <2>2. Pos(p, FinSeq(m)) = sent[p] + 1 /\ Fin(p)
    BY <1>1, <1>2, <2>1, DataIs
  <2> QED
    BY <1>1, <1>2, <2>1, <2>2, Zenon DEF FinNext, RecvPos
<1> QED
  BY <1>4, <1>5

\* Data and FIN of an established connection.
LEMMA RcvEstablishedStream ==
  ASSUME TypeInv, ShortStreams, StreamInv, NEW m \in net, RcvEstablished(m),
         Calm(m.to)
  PROVE  StreamInv'
<1>1. PICK e \in Ends : e = m.to
  BY NetType
<1>2. "RST" \notin m.flags /\ sock[e].state = "Established"
  BY <1>1, Zenon DEF RcvEstablished, Matched
<1>3. PICK a : a = Acked(m) /\ Moves(e, a) /\ a.state = "Established"
  BY <1>1, <1>2, AckedMoves
<1>4. PICK s : s = IngestPayload(a, m.seq, m.data) /\ Moves(e, s) /\ s.state = "Established"
  <2>1. a.state \in Open4Data
    BY <1>3 DEF Open4Data
  <2>2. LET n == IngestPayload(a, m.seq, m.data) IN Moves(e, n) /\ n.state = "Established"
    BY <1>1, <1>2, <1>3, <2>1, IngestMoves
  <2> QED
    BY <2>2, Zenon
<1> DEFINE fin == HalfSock(s)
           new == KeptFin(m, s)
           rs == IF m.data # <<>> \/ "FIN" \in m.flags THEN {AckOf(e, new)} ELSE {}
<1>5. \/ (s.pending_fin_seq = s.recv_seq \/ FinIsNext(m, s)) /\ Receive(m, fin, {AckOf(e, fin)})
      \/ Receive(m, new, rs)
  BY <1>1, <1>3, <1>4, Zenon DEF RcvEstablished, HalfSock, KeptFin
<1> HIDE DEF fin, new
<1>6. CASE (s.pending_fin_seq = s.recv_seq \/ FinIsNext(m, s)) /\ Receive(m, fin, {AckOf(e, fin)})
  <2>1. FinNext(e, s)
    BY <1>1, <1>2, <1>4, <1>6, FinNextIs
  <2>2. Val(Peer(e))
    BY <1>4, MovesVal DEF Open4Data
  <2>3. Moves(e, fin) /\ fin.state = "CloseWait" /\ Valid(e, fin, Lim(Peer(e)))
    BY <1>4, <2>1, <2>2, HalfMoves DEF fin
  <2>4. fin \in Sockets
    BY <2>3, Zenon DEF Moves
  <2>5. AckOf(e, fin) \in Segments /\ AckOf(e, fin).to = Peer(e) /\ GoodOf(e, fin, AckOf(e, fin))
    BY <2>3, <2>4, AckOfGood
  <2>6. \A g \in {AckOf(e, fin)} : g \in Segments /\ g.to = Peer(m.to) /\ GoodOf(m.to, fin, g)
    BY <1>1, <2>5, Zenon
  <2>7. fin.state # "LastAck" /\ EndOf(m.to, fin, got[m.to])
    BY <2>3 DEF EndOf
  <2>8. Receive(m, fin, {AckOf(e, fin)}) /\ Moves(m.to, fin)
    BY <1>1, <1>6, <2>3, Zenon
  <2> QED
    BY <2>6, <2>7, <2>8, ReceiveStep
<1>7. CASE Receive(m, new, rs)
  <2>1. Moves(m.to, s)
    BY <1>1, <1>4, Zenon
  <2>2. Moves(m.to, new) /\ new.state = "Established" /\ Valid(e, new, Lim(Peer(e)))
    BY <1>1, <1>2, <1>4, <2>1, KeptFinMoves DEF new
  <2>4. new \in Sockets
    BY <2>2, Zenon DEF Moves
  <2>5. AckOf(e, new) \in Segments /\ AckOf(e, new).to = Peer(e) /\ GoodOf(e, new, AckOf(e, new))
    BY <2>2, <2>4, AckOfGood
  <2>6. \A g \in rs : g \in Segments /\ g.to = Peer(m.to) /\ GoodOf(m.to, new, g)
    BY <1>1, <2>5, Zenon
  <2>7. new.state # "LastAck" /\ EndOf(m.to, new, got[m.to])
    BY <2>2 DEF EndOf
  <2> HIDE DEF rs
  <2> QED
    BY <1>7, <2>2, <2>6, <2>7, ReceiveStep
<1> QED
  BY <1>5, <1>6, <1>7

\* Data and FIN after the own FIN.
LEMMA RcvHalfClosedStream ==
  ASSUME TypeInv, ShortStreams, StreamInv, NEW m \in net, "RST" \notin m.flags, NEW a, Moves(m.to, a),
         a.state \in {"FinWait1", "FinWait2"}, RcvHalfClosed(m, a),
         Calm(m.to)
  PROVE  StreamInv'
<1>1. PICK e \in Ends : e = m.to
  BY NetType
<1>4. PICK s : s = IngestPayload(a, m.seq, m.data) /\ Moves(e, s) /\ s.state \in {"FinWait1", "FinWait2"}
  <2>1. a.state \in Open4Data
    BY DEF Open4Data
  <2>2. LET n == IngestPayload(a, m.seq, m.data) IN Moves(e, n) /\ n.state = a.state
    BY <1>1, <2>1, IngestMoves
  <2> QED
    BY <2>2, Zenon
<1> DEFINE fin == DoneSock(s)
           rs == IF m.data # <<>> \/ "FIN" \in m.flags THEN {AckOf(e, s)} ELSE {}
<1>5. \/ FinIsNext(m, s) /\ Receive(m, fin, {AckOf(e, fin)})
      \/ Receive(m, s, rs)
  BY <1>1, <1>4, Zenon DEF RcvHalfClosed, DoneSock
<1> HIDE DEF fin
<1>6. CASE FinIsNext(m, s) /\ Receive(m, fin, {AckOf(e, fin)})
  <2>1. FinNext(e, s)
    BY <1>1, <1>4, <1>6, FinNextIs
  <2>3. Moves(e, fin) /\ fin.state = "Closed" /\ Valid(e, fin, Lim(Peer(e)))
    BY <1>4, <2>1, DoneMoves DEF fin
  <2>4. fin \in Sockets
    BY <2>3, Zenon DEF Moves
  <2>5. AckOf(e, fin) \in Segments /\ AckOf(e, fin).to = Peer(e) /\ GoodOf(e, fin, AckOf(e, fin))
    BY <2>3, <2>4, AckOfGood
  <2>6. \A g \in {AckOf(e, fin)} : g \in Segments /\ g.to = Peer(m.to) /\ GoodOf(m.to, fin, g)
    BY <1>1, <2>5, Zenon
  <2>7. fin.state # "LastAck"
    BY <2>3
  <2>8. Receive(m, fin, {AckOf(e, fin)}) /\ Moves(m.to, fin)
    BY <1>1, <1>6, <2>3, Zenon
  <2>9. EndOf(e, fin, got[e])
    BY <1>4, <2>1, DoneEnd DEF fin
  <2>10. EndOf(m.to, fin, got[m.to])
    BY <1>1, <2>9, Zenon
  <2> QED
    BY <2>6, <2>7, <2>8, <2>10, ReceiveStep
<1>7. CASE Receive(m, s, rs)
  <2>1. Moves(m.to, s) /\ s.state \notin {"Open", "SynSent", "Closed"} /\ s.state # "LastAck"
    BY <1>1, <1>4
  <2>3. EndOf(m.to, s, got[m.to])
    BY <2>1 DEF EndOf
  <2>2. s \in Sockets /\ Valid(e, s, Lim(Peer(e)))
    BY <1>1, <2>1, MovesIs
  <2>5. AckOf(e, s) \in Segments /\ AckOf(e, s).to = Peer(e) /\ GoodOf(e, s, AckOf(e, s))
    BY <2>2, AckOfGood
  <2>6. \A g \in rs : g \in Segments /\ g.to = Peer(m.to) /\ GoodOf(m.to, s, g)
    BY <1>1, <2>5, Zenon
  <2> HIDE DEF rs
  <2> QED
    BY <1>7, <2>1, <2>3, <2>6, ReceiveStep
<1> QED
  BY <1>5, <1>6, <1>7

\* A move in which only the state and the place of the received stream may change, and
\* the place does not.
LEMMA StateMoves ==
  ASSUME TypeInv, NEW e \in Ends, NEW s, Moves(e, s), NEW n \in Sockets, Windows(n, unsent[e], sent[e]),
         n.send_seq = s.send_seq, n.recv_seq = s.recv_seq, n.receive_queue = s.receive_queue,
         n.out_of_order_queue = s.out_of_order_queue, n.pending_fin_seq = s.pending_fin_seq,
         n.retransmit_queue = s.retransmit_queue,
         \/ s.state = "FinWait1" /\ n.state = "FinWait2"
         \/ s.state = "SynReceived" /\ n.state = "Established",
         Val(Peer(e))
  PROVE  Moves(e, n)
<1>1. /\ s \in Sockets /\ Reception(e, s, got[e], Gone(Peer(e)), sent[Peer(e)], Fin(Peer(e)))
      /\ s.state \notin {"Open", "SynSent", "Closed"} => Valid(e, s, Lim(Peer(e)))
  BY MovesIs
<1>2. /\ s.state \notin {"Open", "SynSent", "Closed"} /\ s.state # "Open"
      /\ n.state \notin {"Open", "SynSent", "Closed"} /\ n.state # "Open"
      /\ n.state \notin {"SynSent", "SynReceived"} /\ n.state \notin {"CloseWait", "LastAck"}
      /\ s.state \in {"SynReceived", "Established", "FinWait1", "FinWait2"}
  OBVIOUS
<1>3. Onward(e, s, n, Lim(Peer(e))) /\ RecvPos(e, n) = RecvPos(e, s)
  <2>1. s.state \notin {"Open", "SynSent"} => n.state \notin {"Open", "SynSent"}
    BY <1>2, Zenon
  <2> QED
    BY <1>1, <1>2, <2>1, SameOnward
<1>4. Valid(e, n, Lim(Peer(e)))
  BY <1>1, <1>2, <1>3, Zenon DEF Valid
<1>5. Reception(e, n, got[e], Gone(Peer(e)), sent[Peer(e)], Fin(Peer(e)))
  BY <1>1, <1>2, <1>3, Zenon DEF Reception
<1>6. /\ n.state \in Unfinished => s.state \in Unfinished
      /\ n.state \in {"FinWait1", "FinWait2", "LastAck"} => s.state \in {"FinWait1", "FinWait2", "LastAck"}
  BY DEF Unfinished
<1> QED
  BY <1>2, <1>3, <1>4, <1>5, <1>6, MoveTo

\* The acknowledgement of the own FIN, then the rest of the segment.
LEMMA RcvFinWaitStream ==
  ASSUME TypeInv, ShortStreams, StreamInv, NEW m \in net, RcvFinWait1(m) \/ RcvFinWait2(m),
         Calm(m.to)
  PROVE  StreamInv'
<1>1. PICK e \in Ends : e = m.to
  BY NetType
<1>2. "RST" \notin m.flags /\ sock[e].state \in {"FinWait1", "FinWait2"}
  BY <1>1, Zenon DEF RcvFinWait1, RcvFinWait2, Matched
<1>3. PICK a : a = Acked(m) /\ Moves(m.to, a) /\ a.state = sock[e].state
  BY <1>1, <1>2, AckedMoves
<1> DEFINE n == [a EXCEPT !.state = "FinWait2"]
<1>4. \/ a.state \in {"FinWait1", "FinWait2"} /\ RcvHalfClosed(m, a)
      \/ a.state = "FinWait1" /\ RcvHalfClosed(m, n) /\ "ACK" \in m.flags
  <2>1. CASE RcvFinWait2(m)
    BY <1>1, <1>2, <1>3, <2>1, Zenon DEF RcvFinWait2
  <2>2. CASE RcvFinWait1(m)
    <3>1. a.state = "FinWait1"
      BY <1>1, <1>3, <2>2, Zenon DEF RcvFinWait1, Matched
    <3> QED
      BY <1>3, <2>2, <3>1, Zenon DEF RcvFinWait1, FinAcked
  <2> QED
    BY <2>1, <2>2
<1>5. CASE a.state \in {"FinWait1", "FinWait2"} /\ RcvHalfClosed(m, a)
  BY <1>2, <1>3, <1>5, RcvHalfClosedStream
<1>6. CASE a.state = "FinWait1" /\ RcvHalfClosed(m, n) /\ "ACK" \in m.flags
  <2>1. n \in Sockets /\ Windows(n, unsent[e], sent[e]) /\ n.state = "FinWait2"
    BY <1>1, <1>3, <1>6, FinAckedType
  <2>2. a \in Sockets /\ Moves(e, a)
    BY <1>1, <1>3, Zenon DEF Moves
  <2>3. /\ n.send_seq = a.send_seq /\ n.recv_seq = a.recv_seq /\ n.receive_queue = a.receive_queue
        /\ n.out_of_order_queue = a.out_of_order_queue /\ n.pending_fin_seq = a.pending_fin_seq
        /\ n.retransmit_queue = a.retransmit_queue
    BY <2>2 DEF Sockets
  <2>4. Val(Peer(e))
    BY <1>1, <1>2, <1>6, AckIs
  <2> HIDE DEF n
  <2>5. Moves(e, n)
    BY <1>6, <2>1, <2>2, <2>3, <2>4, StateMoves
  <2>6. Moves(m.to, n) /\ n.state \in {"FinWait1", "FinWait2"} /\ RcvHalfClosed(m, n)
    BY <1>1, <1>6, <2>1, <2>5
  <2> QED
    BY <1>2, <2>6, RcvHalfClosedStream
<1> QED
  BY <1>4, <1>5, <1>6

\* The last acknowledgement.
LEMMA RcvLastAckStream ==
  ASSUME TypeInv, ShortStreams, StreamInv, NEW m \in net, RcvLastAck(m),
         Calm(m.to)
  PROVE  StreamInv'
<1>1. PICK e \in Ends : e = m.to
  BY NetType
<1>2. "RST" \notin m.flags /\ sock[e].state = "LastAck"
  BY <1>1, Zenon DEF RcvLastAck, Matched
<1>3. PICK a : a = Acked(m) /\ Moves(e, a) /\ a.state = "LastAck"
  BY <1>1, <1>2, AckedMoves
<1>4. Receive(m, GoneSock(a), {}) \/ Receive(m, a, {})
  BY <1>3, Zenon DEF RcvLastAck, GoneSock
<1>5. CASE Receive(m, a, {})
  <2>1. Moves(m.to, a) /\ (a.state = "LastAck" => sock[m.to].state = "LastAck")
    BY <1>1, <1>2, <1>3, Zenon
  <2>2. \A g \in {} : g \in Segments /\ g.to = Peer(m.to) /\ GoodOf(m.to, a, g)
    BY Zenon
  <2>3. EndOf(m.to, a, got[m.to])
    BY <1>3 DEF EndOf
  <2> QED
    BY <1>5, <2>1, <2>2, <2>3, ReceiveStep
<1>6. CASE Receive(m, GoneSock(a), {})
  <2>1. a \in Sockets /\ Windows(a, unsent[e], sent[e])
    BY <1>3, Zenon DEF Moves
  <2>2. PICK n \in Sockets : n = GoneSock(a) /\ Windows(n, unsent[e], sent[e])
    BY <2>1, GoneType
  <2>3. /\ n.state = "Closed" /\ n.send_seq = a.send_seq /\ n.recv_seq = a.recv_seq
        /\ n.receive_queue = a.receive_queue /\ n.out_of_order_queue = a.out_of_order_queue
        /\ n.pending_fin_seq = a.pending_fin_seq /\ n.retransmit_queue = a.retransmit_queue
    BY <2>1, <2>2 DEF GoneSock, Sockets
  <2>4. Onward(e, a, n, Lim(Peer(e)))
    BY <2>1, <2>3, SameOnward
  <2>5. /\ got[e] \in Seq(Nat) /\ Lim(Peer(e)) \in Int /\ unsent[e] \in Segments /\ sent[e] \in Nat
    BY <1>3, MovesIs
  <2>6. OwnOf(e, n)
    <3>1. Own(e, a, unsent[e], sent[e], got[e], Lim(Peer(e)), Gone(Peer(e)), sent[Peer(e)], Fin(Peer(e)))
      BY <1>3, Zenon DEF Moves, OwnOf
    <3>2. Within(n.retransmit_queue, a.retransmit_queue) /\ a.state # "Open"
      BY <1>3, <2>3, WithinFacts, Zenon
    <3>3. Own(e, n, unsent[e], sent[e], got[e], Lim(Peer(e)), Gone(Peer(e)), sent[Peer(e)], Fin(Peer(e)))
      BY <2>1, <2>3, <2>4, <2>5, <3>1, <3>2, OwnClosed
    <3> QED
      BY <3>3, Zenon DEF OwnOf
  <2>7. CrossOf(e, n)
    <3>1. Remembers(a, sent[e], Val(Peer(e)), Recv(Peer(e)))
      BY <1>3, Zenon DEF Moves, CrossOf
    <3>2. Remembers(n, sent[e], Val(Peer(e)), Recv(Peer(e)))
      BY <2>3, <3>1, CrossClosed
    <3> QED
      BY <3>2, Zenon DEF CrossOf
  <2>8. Moves(e, n)
    BY <1>3, <2>2, <2>4, <2>6, <2>7, MovesOn
  <2>9. Moves(m.to, n) /\ Receive(m, n, {}) /\ n.state # "LastAck"
    BY <1>1, <1>6, <2>2, <2>3, <2>8
  <2>10. \A g \in {} : g \in Segments /\ g.to = Peer(m.to) /\ GoodOf(m.to, n, g)
    BY Zenon
  <2>11. EndOf(m.to, n, got[m.to])
    <3>1. Reception(e, a, got[e], Gone(Peer(e)), sent[Peer(e)], Fin(Peer(e)))
      BY <1>3, MovesIs
    <3>2. Len(got[e] \o n.receive_queue) = sent[Peer(e)] /\ Fin(Peer(e))
      BY <1>3, <2>3, <3>1, Zenon DEF Reception
    <3> QED
      BY <1>1, <3>2, Zenon DEF EndOf
  <2> QED
    BY <2>9, <2>10, <2>11, ReceiveStep
<1> QED
  BY <1>4, <1>5, <1>6

\* A segment of which only the acknowledgement is used.
LEMMA RcvIgnoredStream ==
  ASSUME TypeInv, ShortStreams, StreamInv, NEW m \in net, RcvIgnored(m),
         Calm(m.to)
  PROVE  StreamInv'
<1>1. "RST" \notin m.flags /\ sock[m.to].state # "LastAck" /\ Receive(m, Acked(m), {})
  <2>1. PICK state \in {"CloseWait", "Closed"} : Matched(m, state)
    BY Zenon DEF RcvIgnored
  <2>2. "RST" \notin m.flags /\ sock[m.to].state = state
    BY <2>1, Zenon DEF Matched
  <2>3. sock[m.to].state # "LastAck"
    BY <2>1, <2>2
  <2> QED
    BY <2>2, <2>3, Zenon DEF RcvIgnored
<1>2. Moves(m.to, Acked(m)) /\ Acked(m).state = sock[m.to].state
  BY <1>1, AckedMoves
<1>3. \A g \in {} : g \in Segments /\ g.to = Peer(m.to) /\ GoodOf(m.to, Acked(m), g)
  BY Zenon
<1>4. EndOf(m.to, Acked(m), got[m.to])
  <2>1. m.to \in Ends /\ sock[m.to] \in Sockets
    BY NetType, Zenon DEF TypeInv
  <2>2. Acked(m).receive_queue = sock[m.to].receive_queue
    BY <2>1 DEF Acked, Sockets
  <2> QED
    BY <1>2, <2>1, <2>2, EndSame
<1> QED
  BY <1>1, <1>2, <1>3, <1>4, ReceiveStep

\* The SYN-ACK that an active open has waited for.
LEMMA OpenedMoves ==
  ASSUME TypeInv, ShortStreams, StreamInv, NEW m \in net, "RST" \notin m.flags,
         {"SYN", "ACK"} \subseteq m.flags, sock[m.to].state = "SynSent"
  PROVE  LET n == OpenedSock(m, Acked(m))
         IN Moves(m.to, n) /\ n.state = "Established" /\ Valid(m.to, n, Lim(Peer(m.to)))
<1>1. PICK e \in Ends : e = m.to
  BY NetType
<1>2. PICK p \in Ends : p = Peer(e)
  BY PeerFacts
<1>3. PICK a : a = Acked(m) /\ Moves(e, a) /\ a.state = "SynSent"
  BY <1>1, AckedMoves
<1>4. /\ a \in Sockets /\ got[e] \in Seq(Nat) /\ sent[e] \in Nat /\ Lim(p) \in Int /\ Gone(p) \in Nat
      /\ Numbers(e, a, unsent[e], sent[e], got[e], Lim(p))
      /\ Reception(e, a, got[e], Gone(p), sent[p], Fin(p))
  BY <1>2, <1>3, MovesIs
<1>5. PICK n \in Sockets : n = OpenedSock(m, a) /\ Windows(n, unsent[e], sent[e])
  BY <1>1, <1>3, OpenedType
<1>6. /\ Pos(p, Add(m.seq, 1)) = 1 /\ sock[p].state # "Open" /\ Val(p)
  BY <1>1, <1>2, DataIs, AckIs
<1>7. /\ n.state = "Established" /\ n.send_seq = a.send_seq /\ n.recv_seq = Add(m.seq, 1)
      /\ n.pending_fin_seq = a.pending_fin_seq /\ n.receive_queue = a.receive_queue
      /\ n.out_of_order_queue = a.out_of_order_queue /\ n.retransmit_queue = a.retransmit_queue
  BY <1>4, <1>5 DEF OpenedSock, Sockets
<1>8. RecvPos(e, n) = 1
  BY <1>2, <1>6, <1>7, Zenon DEF RecvPos
<1>9. Valid(e, n, Lim(p))
  <2>1. Lim(p) >= Gone(p) + 1
    BY <1>6, LimFacts
  <2>2. 1 <= RecvPos(e, n) /\ RecvPos(e, n) <= Lim(p)
    BY <1>4, <1>8, <2>1
  <2>3. n.state \notin {"Open", "SynSent"}
    BY <1>7
  <2> QED
    BY <2>2, <2>3, Zenon DEF Valid
<1>10. Onward(e, a, n, Lim(p))
  <2>1. ~Valid(e, a, Lim(p)) /\ n.state # "Open"
    BY <1>3, <1>7 DEF Valid
  <2> QED
    BY <1>7, <2>1, Zenon DEF Onward
<1>11. sent[e] = 0 /\ got[e] = <<>> /\ a.receive_queue = <<>>
  BY <1>3, <1>4 DEF Numbers
<1>12. Reception(e, n, got[e], Gone(p), sent[p], Fin(p))
  <2>1. got[e] \o n.receive_queue = <<>> /\ Len(<<>>) = 0 /\ 0 = 1 - 1 /\ 1 <= Gone(p) + 1
    BY <1>4, <1>7, <1>11
  <2>2. n.state \notin {"CloseWait", "LastAck"}
    BY <1>7
  <2>3. /\ Len(got[e] \o n.receive_queue) = RecvPos(e, n) - 1 /\ RecvPos(e, n) <= Gone(p) + 1
    BY <1>8, <2>1, Zenon
  <2>4. got[e] \o n.receive_queue = Bytes(Len(got[e] \o n.receive_queue))
    BY <1>4, <1>7, Zenon DEF Reception
  <2> QED
    BY <1>4, <1>7, <2>2, <2>3, <2>4, Zenon DEF Reception
<1>13. Moves(e, n)
  <2>1. /\ a.state # "Open" /\ n.state \notin {"FinWait1", "FinWait2", "LastAck"} /\ a.state \in Unfinished
        /\ n.state \notin {"SynSent", "SynReceived"}
    BY <1>3, <1>7 DEF Unfinished
  <2> QED
    BY <1>2, <1>3, <1>5, <1>6, <1>7, <1>9, <1>10, <1>11, <1>12, <2>1, MoveTo
<1> QED
  BY <1>1, <1>2, <1>3, <1>5, <1>7, <1>9, <1>13, Zenon

\* The answer to a SYN.
LEMMA RcvSynSentStream ==
  ASSUME TypeInv, ShortStreams, StreamInv, NEW m \in net, RcvSynSent(m),
         Calm(m.to)
  PROVE  StreamInv'
<1>1. PICK e \in Ends : e = m.to
  BY NetType
<1>2. "RST" \notin m.flags /\ sock[m.to].state = "SynSent"
  BY Zenon DEF RcvSynSent, Matched
<1>3. PICK a : a = Acked(m) /\ Moves(m.to, a) /\ a.state = "SynSent"
  BY <1>1, <1>2, AckedMoves
<1>4. PICK n : n = OpenedSock(m, a)
  BY Zenon
<1>5. ({"SYN", "ACK"} \subseteq m.flags /\ Receive(m, n, {AckOf(m.to, n)})) \/ Receive(m, a, {})
  BY <1>3, <1>4, Zenon DEF RcvSynSent, OpenedSock
<1>6. CASE {"SYN", "ACK"} \subseteq m.flags /\ Receive(m, n, {AckOf(m.to, n)})
  <2>1. Moves(m.to, n) /\ n.state = "Established" /\ Valid(m.to, n, Lim(Peer(m.to)))
    BY <1>2, <1>3, <1>4, <1>6, OpenedMoves
  <2>2. n \in Sockets /\ n.state # "LastAck" /\ m.to \in Ends /\ EndOf(m.to, n, got[m.to])
    BY <1>1, <2>1 DEF Moves, EndOf
  <2>3. AckOf(m.to, n) \in Segments /\ AckOf(m.to, n).to = Peer(m.to) /\ GoodOf(m.to, n, AckOf(m.to, n))
    BY <2>1, <2>2, AckOfGood
  <2>4. \A g \in {AckOf(m.to, n)} : g \in Segments /\ g.to = Peer(m.to) /\ GoodOf(m.to, n, g)
    BY <2>3, Zenon
  <2> QED
    BY <1>6, <2>1, <2>2, <2>4, ReceiveStep
<1>7. CASE Receive(m, a, {})
  <2>1. a.state # "LastAck" /\ EndOf(m.to, a, got[m.to])
    BY <1>3 DEF EndOf
  <2>2. \A g \in {} : g \in Segments /\ g.to = Peer(m.to) /\ GoodOf(m.to, a, g)
    BY Zenon
  <2> QED
    BY <1>3, <1>7, <2>1, <2>2, ReceiveStep
<1> QED
  BY <1>5, <1>6, <1>7

\* The SYN of a connection that is there already: the same place again.
LEMMA SynAgainMoves ==
  ASSUME TypeInv, ShortStreams, StreamInv, NEW m \in net, m.flags = {"SYN"}, sock[m.to].state = "SynReceived",
         NEW a, Moves(m.to, a), a.state = "SynReceived"
  PROVE  LET n == [a EXCEPT !.recv_seq = Add(m.seq, 1)]
             g == Segment(Peer(m.to), Add(a.send_seq, -1), Add(m.seq, 1), {"SYN", "ACK"}, <<>>)
         IN Moves(m.to, n) /\ n.state = "SynReceived" /\ g \in Segments /\ g.to = Peer(m.to) /\ GoodOf(m.to, n, g)
<1>1. PICK e \in Ends : e = m.to
  BY NetType
<1>2. PICK p \in Ends : p = Peer(e)
  BY PeerFacts
<1>3. /\ a \in Sockets /\ got[e] \in Seq(Nat) /\ sent[e] \in Nat
      /\ Numbers(e, a, unsent[e], sent[e], got[e], Lim(p)) /\ a.recv_seq \in Seqs /\ RecvPos(e, a) \in Nat
      /\ Reception(e, a, got[e], Gone(p), sent[p], Fin(p)) /\ Valid(e, a, Lim(p))
  <2>1. Moves(e, a) /\ a.state \notin {"Open", "SynSent", "Closed"}
    BY <1>1
  <2> QED
    BY <1>2, <2>1, MovesIs
<1>4. Pos(p, Add(m.seq, 1)) = 1 /\ Add(m.seq, 1) \in Seqs
  <2>1. "RST" \notin m.flags /\ "SYN" \in m.flags
    OBVIOUS
  <2> QED
    BY <1>1, <1>2, <2>1, DataIs
<1>5. sent[e] = 0 /\ got[e] = <<>> /\ a.receive_queue = <<>> /\ SendPos(e, a) = 1
  <2>1. sent[e] = 0 /\ got[e] = <<>> /\ a.receive_queue = <<>> /\ SendPos(e, a) = sent[e] + 1
    BY <1>3 DEF Numbers, Unfinished
  <2> QED
    BY <2>1
<1>6. RecvPos(e, a) = 1
  <2>1. Len(got[e] \o a.receive_queue) = RecvPos(e, a) - 1
    BY <1>3, Zenon DEF Reception
  <2>2. Len(got[e] \o a.receive_queue) = 0
    BY <1>5
  <2>3. PICK r \in Nat : r = RecvPos(e, a) /\ 0 = r - 1
    BY <1>3, <2>1, <2>2, Zenon
  <2> QED
    BY <2>3
<1>7. a.recv_seq = Add(m.seq, 1)
  <2>1. Pos(p, a.recv_seq) = 1
    BY <1>2, <1>6, Zenon DEF RecvPos
  <2>2. PICK x \in Seqs, y \in Seqs : x = a.recv_seq /\ y = Add(m.seq, 1)
    BY <1>3, <1>4
  <2>3. Pos(p, x) = Pos(p, y)
    BY <1>4, <2>1, <2>2, Zenon
  <2> QED
    BY <2>2, <2>3, PosOne
<1>8. [a EXCEPT !.recv_seq = Add(m.seq, 1)] = a
  BY <1>3, <1>7 DEF Sockets
<1>9. PICK g : g = Segment(Peer(m.to), Add(a.send_seq, -1), Add(m.seq, 1), {"SYN", "ACK"}, <<>>)
  BY Zenon
<1>10. Add(a.send_seq, -1) \in Seqs /\ Pos(e, Add(a.send_seq, -1)) = 0
  <2>1. PICK x \in Seqs : x = a.send_seq
    BY <1>3 DEF Sockets
  <2>2. Pos(e, x) = 1
    BY <1>5, <2>1, Zenon DEF SendPos
  <2>3. 0 <= Pos(e, x) + (-1) /\ Pos(e, x) + (-1) < SeqSpace /\ Pos(e, x) + (-1) = 0 /\ -1 \in Int
    BY <2>2, SpaceFacts
  <2>4. Pos(e, Add(x, -1)) = Pos(e, x) + (-1) /\ Add(x, -1) \in Seqs
    BY <2>3, PosAdd, AddType
  <2> QED
    BY <2>1, <2>3, <2>4, Zenon
<1>11. /\ g \in Segments /\ g.to = p /\ g.seq = Add(a.send_seq, -1) /\ g.ack = Add(m.seq, 1)
       /\ g.flags = {"SYN", "ACK"} /\ g.data = <<>>
  <2>1. /\ g.to = p /\ g.seq = Add(a.send_seq, -1) /\ g.ack = Add(m.seq, 1)
        /\ g.flags = {"SYN", "ACK"} /\ g.data = <<>>
    BY <1>1, <1>2, <1>9 DEF Segment
  <2>2. {"SYN", "ACK"} \in Flags /\ <<>> \in Seq(Nat) /\ Peer(m.to) \in Ends
    BY <1>1, <1>2 DEF Flags
  <2>3. g \in Segments
    BY <1>4, <1>9, <1>10, <2>2, SegmentIs
  <2> QED
    BY <2>1, <2>3
<1>12. GoodOf(e, a, g)
  <2>1. "FIN" \notin g.flags /\ g.flags # {"SYN"}
    BY <1>11
  <2>2. 1 <= Pos(p, g.ack) /\ Pos(p, g.ack) <= RecvPos(e, a)
    BY <1>4, <1>6, <1>11
  <2>3. a.state # "Open" /\ Pos(e, g.seq) = 0
    BY <1>10, <1>11
  <2> QED
    BY <1>2, <1>3, <1>11, <2>1, <2>2, <2>3, Zenon DEF GoodOf, Good
<1> QED
  BY <1>1, <1>2, <1>8, <1>9, <1>11, <1>12, Zenon

\* The segment that completes the handshake, or the SYN again.
LEMMA RcvSynReceivedStream ==
  ASSUME TypeInv, ShortStreams, StreamInv, NEW m \in net, RcvSynReceived(m),
         Calm(m.to)
  PROVE  StreamInv'
<1>1. PICK e \in Ends : e = m.to
  BY NetType
<1>2. "RST" \notin m.flags /\ sock[m.to].state = "SynReceived"
  BY Zenon DEF RcvSynReceived, Matched
<1>3. PICK a : a = Acked(m) /\ Moves(m.to, a) /\ a.state = "SynReceived"
  BY <1>1, <1>2, AckedMoves
<1> DEFINE n1 == [a EXCEPT !.state = "Established"]
           n2 == [a EXCEPT !.recv_seq = Add(m.seq, 1)]
           g == Segment(Peer(m.to), Add(a.send_seq, -1), Add(m.seq, 1), {"SYN", "ACK"}, <<>>)
<1>4. \/ "ACK" \in m.flags /\ Receive(m, n1, {})
      \/ m.flags = {"SYN"} /\ Receive(m, n2, {g})
      \/ Receive(m, a, {})
  BY <1>3, Zenon DEF RcvSynReceived
<1>5. CASE "ACK" \in m.flags /\ Receive(m, n1, {})
  <2>1. a \in Sockets /\ Windows(a, unsent[e], sent[e]) /\ Moves(e, a)
    BY <1>1, <1>3, Zenon DEF Moves
  <2>2. /\ n1 \in Sockets /\ n1.state = "Established"
        /\ n1.send_seq = a.send_seq /\ n1.recv_seq = a.recv_seq /\ n1.receive_queue = a.receive_queue
        /\ n1.out_of_order_queue = a.out_of_order_queue /\ n1.pending_fin_seq = a.pending_fin_seq
        /\ n1.retransmit_queue = a.retransmit_queue
    BY <2>1 DEF Sockets, States
  <2>3. Val(Peer(e))
    BY <1>1, <1>2, <1>5, AckIs
  <2> HIDE DEF n1
  <2>4. Windows(n1, unsent[e], sent[e])
    BY <1>3, <2>1, <2>2, WindowsOf DEF Unfinished, Windows
  <2>5. Moves(e, n1)
    BY <1>3, <2>1, <2>2, <2>3, <2>4, StateMoves
  <2>6. Moves(m.to, n1) /\ n1.state # "LastAck" /\ EndOf(m.to, n1, got[m.to])
    BY <1>1, <2>2, <2>5 DEF EndOf
  <2>7. \A x \in {} : x \in Segments /\ x.to = Peer(m.to) /\ GoodOf(m.to, n1, x)
    BY Zenon
  <2> QED
    BY <1>5, <2>6, <2>7, ReceiveStep
<1>6. CASE m.flags = {"SYN"} /\ Receive(m, n2, {g})
  <2>1. Moves(m.to, n2) /\ n2.state = "SynReceived" /\ g \in Segments /\ g.to = Peer(m.to) /\ GoodOf(m.to, n2, g)
    BY <1>2, <1>3, <1>6, SynAgainMoves
  <2> HIDE DEF n2, g
  <2>2. \A x \in {g} : x \in Segments /\ x.to = Peer(m.to) /\ GoodOf(m.to, n2, x)
    BY <2>1, Zenon
  <2>3. n2.state # "LastAck" /\ EndOf(m.to, n2, got[m.to])
    BY <2>1 DEF EndOf
  <2> QED
    BY <1>6, <2>1, <2>2, <2>3, ReceiveStep
<1>7. CASE Receive(m, a, {})
  <2>1. a.state # "LastAck" /\ EndOf(m.to, a, got[m.to])
    BY <1>3 DEF EndOf
  <2>2. \A x \in {} : x \in Segments /\ x.to = Peer(m.to) /\ GoodOf(m.to, a, x)
    BY Zenon
  <2> QED
    BY <1>3, <1>7, <2>1, <2>2, ReceiveStep
<1> QED
  BY <1>4, <1>5, <1>6, <1>7

-----------------------------------------------------------------------------
(* Steps that number more of the stream *)

\* The socket that a step sets.
LEMMA SetIs ==
  ASSUME TypeInv, NEW e \in Ends, NEW s, SetSock(e, s)
  PROVE  sock'[e] = s
<1>1. sock \in [Ends -> Sockets] /\ sock' = [sock EXCEPT ![e] = s]
  BY Zenon DEF TypeInv, SetSock
<1> QED
  BY <1>1

\* A step of e, by what it leaves behind.
LEMMA NewStep ==
  ASSUME TypeInv, TypeInv', StreamInv, NEW e \in Ends, LocalTo(e), Calm(e), NEW n, sock'[e] = n,
         NEW u, unsent'[e] = u, NEW k, sent'[e] = k, NEW h, got'[e] = h,
         Further(e, sock[e], sent[e], Gone(e), Lim(Peer(e)), n, k, k - Len(u.data), Lim(Peer(e))),
         Lim(e) <= SendPos(e, n) - Len(u.data),
         Own(e, n, u, k, h, Lim(Peer(e)), Gone(Peer(e)), sent[Peer(e)], Fin(Peer(e))),
         Remembers(n, k, Val(Peer(e)), Recv(Peer(e))), EndOf(e, n, h),
         n.state = "LastAck" => prog'[e] = <<>>,
         \A g \in net' \ net : "RST" \in g.flags \/ (g.to = Peer(e) /\ Good(e, n, k, k - Len(u.data), Lim(Peer(e)), g))
  PROVE  StreamInv'
<1> DEFINE p == Peer(e)
<1>1. p \in Ends /\ p # e /\ Peer(p) = e
  BY PeerFacts
<1>2. /\ sock'[p] = sock[p] /\ unsent'[p] = unsent[p] /\ sent'[p] = sent[p] /\ got'[p] = got[p]
      /\ Gone(p)' = Gone(p) /\ Lim(p)' = Lim(p) /\ Fin(p)' = Fin(p) /\ Recv(p)' = Recv(p)
  BY <1>1, Still
<1> HIDE DEF p
<1>3. Lim(e) \in Int
  BY Counts
<1>4. Gone(e)' = k - Len(u.data) /\ Lim(e)' = SendPos(e, n) - Len(u.data)
  BY Zenon DEF Gone, Lim
<1>5. Lim(e)' \in Int /\ Lim(e) <= Lim(e)' /\ sock[p] \in Sockets
  BY <1>1, <1>4, Counts, CountsNext
<1>7. Forward(e)
  BY <1>2, <1>4, <1>5, Zenon DEF Forward, p
<1>8. OwnInv(e)'
  BY <1>2, Zenon DEF OwnInv, p
<1>9. Val(p) => Val(p)'
  <2>1. Valid(p, sock[p], Lim(e)) => Valid(p, sock[p], Lim(e)')
    BY <1>1, <1>3, <1>5, ValidMono
  <2> QED
    BY <1>1, <1>2, <2>1, Zenon DEF Val
<1>10. CrossInv(e)'
  <2>1. Remembers(n, k, Val(p)', Recv(p))
    BY <1>9, Zenon DEF Remembers, p
  <2> QED
    BY <1>2, <2>1, Zenon DEF CrossInv, p
<1>11. LastCall(e)'
  BY Zenon DEF LastCall
<1>12. ASSUME NEW g \in net' \ net
       PROVE  Sent(Peer(g.to), g)'
  <2>1. CASE "RST" \in g.flags
    BY <2>1, Zenon DEF Sent, Good
  <2>2. CASE g.to = p /\ Good(e, n, k, k - Len(u.data), Lim(p), g)
    BY <1>1, <1>2, <1>4, <2>2, Zenon DEF Sent, p
  <2> QED
    BY <2>1, <2>2, Zenon DEF p
<1>13. EndInv(e)'
  BY <1>2, Zenon DEF EndInv, EndOf, p
<1> QED
  BY <1>7, <1>8, <1>10, <1>11, <1>12, <1>13, StreamStep

\* A socket that has not started.
LEMMA OpenFacts ==
  ASSUME TypeInv, StreamInv, NEW e \in Ends, sock[e].state = "Open"
  PROVE  /\ SendPos(e, sock[e]) = 0 /\ sent[e] = 0 /\ unsent[e] = NoSegment /\ got[e] = <<>>
         /\ sock[e].receive_queue = <<>> /\ sock[e].retransmit_queue = <<>>
         /\ Reception(e, sock[e], got[e], Gone(Peer(e)), sent[Peer(e)], Fin(Peer(e)))
<1>1. Own(e, sock[e], unsent[e], sent[e], got[e], Lim(Peer(e)), Gone(Peer(e)), sent[Peer(e)], Fin(Peer(e)))
  BY Zenon DEF StreamInv, OwnInv
<1>2. /\ SendPos(e, sock[e]) = 0 /\ sent[e] = 0 /\ unsent[e] = NoSegment /\ got[e] = <<>>
      /\ sock[e].receive_queue = <<>>
      /\ Reception(e, sock[e], got[e], Gone(Peer(e)), sent[Peer(e)], Fin(Peer(e)))
  BY <1>1 DEF Own, Numbers
<1>3. Windows(sock[e], unsent[e], sent[e])
  BY EndTypes, Zenon DEF Kept
<1> QED
  BY <1>2, <1>3, Zenon DEF Windows

\* The place after the SYN.
LEMMA FirstPlace ==
  ASSUME NEW e \in Ends, NEW x \in Seqs, Pos(e, x) = 0
  PROVE  Pos(e, Add(x, 1)) = 1 /\ Add(x, 1) \in Seqs
<1>1. 0 <= Pos(e, x) + 1 /\ Pos(e, x) + 1 < SeqSpace /\ Pos(e, x) + 1 = 1
  BY SpaceFacts
<1> QED
  BY <1>1, PosAdd, AddType

\* A connection starts.
LEMMA StartStep ==
  ASSUME TypeInv, TypeInv', StreamInv, NEW e \in Ends, LocalTo(e), NEW n, sock'[e] = n,
         unsent'[e] = unsent[e], sent'[e] = sent[e], got'[e] = got[e], sock[e].state = "Open",
         n.state \in {"SynSent", "SynReceived"}, n.send_seq = Add(sock[e].send_seq, 1),
         n.receive_queue = sock[e].receive_queue, n.out_of_order_queue = sock[e].out_of_order_queue,
         n.pending_fin_seq = sock[e].pending_fin_seq,
         \A i \in DOMAIN n.retransmit_queue :
           LET g == n.retransmit_queue[i].seg
           IN g.to = Peer(e) /\ "RST" \notin g.flags /\ Good(e, n, 0, 0, Lim(Peer(e)), g),
         n.state = "SynReceived" => RecvPos(e, n) = 1 /\ Valid(e, n, Lim(Peer(e))),
         \A g \in net' \ net : g.to = Peer(e) /\ Good(e, n, 0, 0, Lim(Peer(e)), g),
         Calm(e)
  PROVE  StreamInv'
<1> DEFINE s == sock[e]
           p == Peer(e)
<1>1. /\ SendPos(e, s) = 0 /\ sent[e] = 0 /\ unsent[e] = NoSegment /\ got[e] = <<>>
      /\ s.receive_queue = <<>>
      /\ Reception(e, s, got[e], Gone(p), sent[p], Fin(p))
  BY OpenFacts
<1>2. s \in Sockets /\ Lim(e) \in Int /\ p \in Ends /\ Gone(p) \in Nat /\ Gone(e) \in Nat
  BY PeerFacts, Counts
<1>3. SendPos(e, n) = 1
  <2>1. s.send_seq \in Seqs /\ Pos(e, s.send_seq) = 0
    BY <1>1, <1>2 DEF Sockets, SendPos
  <2> QED
    BY <2>1, FirstPlace DEF SendPos
<1>4. Len(NoSegment.data) = 0
  BY NoSegmentIs
<1>5. Gone(e) = 0 /\ Lim(e) = 0
  <2>1. Gone(e) = 0 - 0 /\ Lim(e) = 0 - 0
    BY <1>1, <1>4, Zenon DEF Gone, Lim
  <2> QED
    BY <2>1
<1>6. 0 - Len(NoSegment.data) = 0 /\ SendPos(e, n) - Len(NoSegment.data) = 1
  BY <1>3, <1>4
<1>7. n.state # "Open" /\ n.state \notin {"FinWait1", "FinWait2", "LastAck", "CloseWait", "Established", "Closed"}
      /\ n.state # "LastAck"
  OBVIOUS
<1>8. Further(e, s, 0, Gone(e), Lim(p), n, 0, 0, Lim(p))
  <2>1. ~Valid(e, s, Lim(p)) /\ ~(SendPos(e, s) = 0 + 2) /\ Gone(e) <= 0
    BY <1>1, <1>5 DEF Valid
  <2> QED
    BY <1>7, <2>1, Zenon DEF Further
<1>9. Numbers(e, n, NoSegment, 0, <<>>, Lim(p))
  <2>1. SendPos(e, n) = 0 + 1
    BY <1>3
  <2> QED
    BY <1>1, <1>7, <2>1, Zenon DEF Numbers
<1>10. Queue(e, n, NoSegment, 0, Lim(p))
  BY <1>6, Zenon DEF Queue
<1>11. Reception(e, n, <<>>, Gone(p), sent[p], Fin(p))
  <2>1. Reception(e, s, <<>>, Gone(p), sent[p], Fin(p))
    BY <1>1, Zenon
  <2>2. n.state = "SynReceived" =>
          Len(<<>> \o n.receive_queue) = RecvPos(e, n) - 1 /\ RecvPos(e, n) <= Gone(p) + 1
    <3>1. Len(<<>> \o n.receive_queue) = 0
      BY <1>1
    <3>2. 0 = 1 - 1 /\ 1 <= Gone(p) + 1
      BY <1>2
    <3> QED
      BY <3>1, <3>2, Zenon
  <2> QED
    BY <1>7, <2>1, <2>2, Zenon DEF Reception
<1>12. Own(e, n, NoSegment, 0, <<>>, Lim(p), Gone(p), sent[p], Fin(p))
  <2>1. n.state \notin {"Open", "SynSent", "Closed"} => Valid(e, n, Lim(p))
    BY Zenon
  <2> QED
    BY <1>9, <1>10, <1>11, <2>1, Zenon DEF Own
<1>13. Remembers(n, 0, Val(p), Recv(p))
  <2>1. ~(0 > 0) /\ \A b \in Nat \ {0} : ~(b <= 0)
    OBVIOUS
  <2> QED
    BY <1>7, <2>1, Zenon DEF Remembers
<1>14. \A g \in net' \ net : "RST" \in g.flags \/ (g.to = p /\ Good(e, n, 0, 0 - Len(NoSegment.data), Lim(p), g))
  BY <1>6, Zenon
<1>15. /\ unsent'[e] = NoSegment /\ sent'[e] = 0 /\ got'[e] = <<>>
       /\ Further(e, sock[e], sent[e], Gone(e), Lim(Peer(e)), n, 0, 0 - Len(NoSegment.data), Lim(Peer(e)))
       /\ n.state = "LastAck" => prog'[e] = <<>>
  BY <1>1, <1>6, <1>7, <1>8, Zenon
<1>16. Lim(e) <= SendPos(e, n) - Len(NoSegment.data)
  BY <1>5, <1>6
<1>17. EndOf(e, n, <<>>)
  BY <1>7 DEF EndOf
<1> QED
  BY <1>12, <1>13, <1>14, <1>15, <1>16, <1>17, NewStep

\* The SYN is sent.
LEMMA ConnectStream ==
  ASSUME TypeInv, StreamInv, Connect,
         Calm(Client)
  PROVE  StreamInv'
<1> DEFINE e == Client
           s == sock[e]
           syn == Segment(Server, s.send_seq, 0, {"SYN"}, <<>>)
           n == [s EXCEPT !.state = "SynSent", !.registered = TRUE,
                   !.send_seq = Add(@, 1), !.retransmit_queue = Track(@, syn)]
<1>1. e \in Ends /\ Server = Peer(e)
  BY PeerFacts, TcpAssumption DEF Ends
<1>2. TypeInv' /\ LocalTo(e)
  BY ConnectType
<1>3. s.state = "Open" /\ SetSock(e, n) /\ net' = net \cup {syn} /\ UNCHANGED <<unsent, sent, got>>
  BY Zenon DEF Connect, Syn
<1>4. sock'[e] = n
  BY <1>1, <1>3, SetIs
<1>5. s \in Sockets /\ s.retransmit_queue = <<>> /\ SendPos(e, s) = 0
  BY <1>1, <1>3, OpenFacts, Counts
<1>6. syn \in Segments
  <2>1. Server \in Ends /\ s.send_seq \in Seqs /\ 0 \in Seqs /\ {"SYN"} \in Flags /\ <<>> \in Seq(Nat)
    BY <1>1, <1>5, SpaceFacts DEF Sockets, Seqs, Flags, Ends
  <2> QED
    BY <2>1, SegmentIs
<1>7. syn.to = Peer(e) /\ syn.seq = s.send_seq /\ syn.flags = {"SYN"} /\ syn.data = <<>>
  BY <1>1 DEF Segment
<1> HIDE DEF syn
<1>8. PICK q : q = Track(s.retransmit_queue, syn) /\ DOMAIN q = 1..1 /\ q[1].seg = syn
  <2>1. <<>> \in Seq(Tracked) /\ Len(<<>>) = 0 /\ 0 <= TCP_SEND_WINDOW_SEGMENTS
    BY TcpAssumption
  <2>2. Track(<<>>, syn) \in Seq(Tracked) /\ Len(Track(<<>>, syn)) = 0 + 1 /\ Track(<<>>, syn)[0 + 1].seg = syn
    BY <1>6, <2>1, TrackIs
  <2>3. DOMAIN Track(<<>>, syn) = 1..1 /\ Track(<<>>, syn)[1].seg = syn
    BY <2>2
  <2> QED
    BY <1>5, <2>3, Zenon
<1>9. PICK ss \in Seqs : ss = Add(s.send_seq, 1)
  <2>1. s.send_seq \in Seqs
    BY <1>5 DEF Sockets
  <2> QED
    BY <2>1, AddType
<1>10. n = [s EXCEPT !.state = "SynSent", !.registered = TRUE, !.send_seq = ss, !.retransmit_queue = q]
  BY <1>8, <1>9, Zenon
<1> HIDE DEF n
<1>11. /\ n.state = "SynSent" /\ n.send_seq = ss /\ n.receive_queue = s.receive_queue
       /\ n.out_of_order_queue = s.out_of_order_queue /\ n.pending_fin_seq = s.pending_fin_seq
       /\ n.retransmit_queue = q
  BY <1>5, <1>10 DEF Sockets
<1>12. Good(e, n, 0, 0, Lim(Peer(e)), syn) /\ "RST" \notin syn.flags
  <2>1. "RST" \notin syn.flags /\ "FIN" \notin syn.flags /\ "ACK" \notin syn.flags /\ n.state # "Open"
    BY <1>7, <1>11
  <2>2. Pos(e, syn.seq) = 0
    BY <1>5, <1>7, Zenon DEF SendPos
  <2> QED
    BY <1>7, <2>1, <2>2, Zenon DEF Good
<1>13. ASSUME NEW i \in DOMAIN n.retransmit_queue
       PROVE  LET g == n.retransmit_queue[i].seg
              IN g.to = Peer(e) /\ "RST" \notin g.flags /\ Good(e, n, 0, 0, Lim(Peer(e)), g)
  <2>1. i = 1
    BY <1>8, <1>11
  <2> QED
    BY <1>7, <1>8, <1>11, <1>12, <2>1, Zenon
<1>14. \A g \in net' \ net : g.to = Peer(e) /\ Good(e, n, 0, 0, Lim(Peer(e)), g)
  BY <1>3, <1>7, <1>12, Zenon
<1>16. Calm(e)
  OBVIOUS
<1>15. unsent'[e] = unsent[e] /\ sent'[e] = sent[e] /\ got'[e] = got[e]
       /\ n.state # "SynReceived" /\ n.state \in {"SynSent", "SynReceived"} /\ n.send_seq = Add(sock[e].send_seq, 1)
  BY <1>3, <1>9, <1>11
<1> HIDE DEF e
<1> QED
  BY <1>1, <1>2, <1>3, <1>4, <1>11, <1>13, <1>14, <1>15, <1>16, StartStep

\* The SYN could not be sent: its number stays used.
LEMMA ConnectFailStream ==
  ASSUME TypeInv, StreamInv, ConnectFail,
         Calm(Client)
  PROVE  StreamInv'
<1> DEFINE e == Client
           s == sock[e]
           syn == Segment(Server, s.send_seq, 0, {"SYN"}, <<>>)
           n == [s EXCEPT !.state = "SynSent", !.registered = TRUE, !.send_seq = Add(@, 1)]
<1>1. e \in Ends /\ Server = Peer(e)
  BY PeerFacts, TcpAssumption DEF Ends
<1>2. TypeInv' /\ LocalTo(e)
  BY ConnectFailType
<1>3. s.state = "Open" /\ SetSock(e, n) /\ net' \subseteq net \cup {syn} /\ UNCHANGED <<unsent, sent, got>>
  BY Zenon DEF ConnectFail, Queued, Syn
<1>4. sock'[e] = n
  BY <1>1, <1>3, SetIs
<1>5. s \in Sockets /\ s.retransmit_queue = <<>> /\ SendPos(e, s) = 0
  BY <1>1, <1>3, OpenFacts, Counts
<1>7. syn.to = Peer(e) /\ syn.seq = s.send_seq /\ syn.flags = {"SYN"} /\ syn.data = <<>>
  BY <1>1 DEF Segment
<1> HIDE DEF syn
<1>9. PICK ss \in Seqs : ss = Add(s.send_seq, 1)
  <2>1. s.send_seq \in Seqs
    BY <1>5 DEF Sockets
  <2> QED
    BY <2>1, AddType
<1>10. n = [s EXCEPT !.state = "SynSent", !.registered = TRUE, !.send_seq = ss]
  BY <1>9, Zenon
<1> HIDE DEF n
<1>11. /\ n.state = "SynSent" /\ n.send_seq = ss /\ n.receive_queue = s.receive_queue
       /\ n.out_of_order_queue = s.out_of_order_queue /\ n.pending_fin_seq = s.pending_fin_seq
       /\ n.retransmit_queue = s.retransmit_queue
  BY <1>5, <1>10 DEF Sockets
<1>13. \A i \in DOMAIN n.retransmit_queue :
         LET g == n.retransmit_queue[i].seg
         IN g.to = Peer(e) /\ "RST" \notin g.flags /\ Good(e, n, 0, 0, Lim(Peer(e)), g)
  <2>1. DOMAIN n.retransmit_queue = {}
    BY <1>5, <1>11
  <2> QED
    BY <2>1, Zenon
<1>12. Good(e, n, 0, 0, Lim(Peer(e)), syn)
  <2>1. "FIN" \notin syn.flags /\ "ACK" \notin syn.flags /\ n.state # "Open"
    BY <1>7, <1>11
  <2>2. Pos(e, syn.seq) = 0
    BY <1>5, <1>7, Zenon DEF SendPos
  <2> QED
    BY <1>7, <2>1, <2>2, Zenon DEF Good
<1>14. \A g \in net' \ net : g.to = Peer(e) /\ Good(e, n, 0, 0, Lim(Peer(e)), g)
  BY <1>3, <1>7, <1>12, Zenon
<1>16. Calm(e)
  OBVIOUS
<1>15. unsent'[e] = unsent[e] /\ sent'[e] = sent[e] /\ got'[e] = got[e]
       /\ n.state # "SynReceived" /\ n.state \in {"SynSent", "SynReceived"} /\ n.send_seq = Add(sock[e].send_seq, 1)
  BY <1>3, <1>9, <1>11
<1> HIDE DEF e
<1> QED
  BY <1>1, <1>2, <1>3, <1>4, <1>11, <1>13, <1>14, <1>15, <1>16, StartStep

\* The child of a listener starts at the SYN.
LEMMA RcvListenStream ==
  ASSUME TypeInv, ShortStreams, StreamInv, NEW m \in net, RcvListen(m),
         Calm(m.to)
  PROVE  StreamInv'
<1> DEFINE e == Server
           p == Peer(e)
           s == sock[e]
           n == ChildSock(m)
           g == Segment(Client, Iss[Server], Add(m.seq, 1), {"SYN", "ACK"}, <<>>)
<1>1. m.to = e /\ s.state = "Open" /\ Receive(m, n, {g}) /\ m.flags = {"SYN"}
  BY Zenon DEF RcvListen, ChildSock
<1>2. TypeInv' /\ LocalTo(e) /\ sock'[e] = n
  BY <1>1, RcvListenType
<1>3. e \in Ends /\ p = Client /\ p \in Ends
  BY PeerFacts, TcpAssumption DEF Ends
<1>4. UNCHANGED <<appVars, sent, got>> /\ net' = net \cup {g}
  BY <1>1, Zenon DEF Receive
<1>5. s \in Sockets /\ s.retransmit_queue = <<>> /\ Lim(p) \in Int /\ Gone(p) \in Nat
  BY <1>1, <1>3, OpenFacts, Counts
<1>6. Pos(p, Add(m.seq, 1)) = 1 /\ Add(m.seq, 1) \in Seqs /\ sock[p].state # "Open"
  <2>1. "RST" \notin m.flags /\ "SYN" \in m.flags
    BY <1>1
  <2> QED
    BY <1>1, <2>1, DataIs
<1>7. PICK a \in Seqs, b \in Seqs : a = Add(s.send_seq, 1) /\ b = Add(m.seq, 1)
  <2>1. s.send_seq \in Seqs
    BY <1>5 DEF Sockets
  <2> QED
    BY <1>6, <2>1, AddType
<1>8. n = [s EXCEPT !.state = "SynReceived", !.registered = TRUE, !.send_seq = a, !.recv_seq = b]
  BY <1>7, Zenon DEF ChildSock
<1> HIDE DEF n
<1>11. /\ n.state = "SynReceived" /\ n.send_seq = a /\ n.recv_seq = b /\ n.receive_queue = s.receive_queue
       /\ n.out_of_order_queue = s.out_of_order_queue /\ n.pending_fin_seq = s.pending_fin_seq
       /\ n.retransmit_queue = s.retransmit_queue
  BY <1>5, <1>8 DEF Sockets
<1>12. RecvPos(e, n) = 1
  BY <1>6, <1>7, <1>11, Zenon DEF RecvPos
<1>13. Valid(e, n, Lim(p))
  <2>1. Lim(p) >= Gone(p) + 1
    BY <1>3, <1>6, LimFacts
  <2>2. 1 <= RecvPos(e, n) /\ RecvPos(e, n) <= Lim(p)
    BY <1>5, <1>12, <2>1
  <2>3. n.state \notin {"Open", "SynSent"}
    BY <1>11
  <2> QED
    BY <2>2, <2>3, Zenon DEF Valid
<1>14. \A i \in DOMAIN n.retransmit_queue :
         LET x == n.retransmit_queue[i].seg
         IN x.to = Peer(e) /\ "RST" \notin x.flags /\ Good(e, n, 0, 0, Lim(Peer(e)), x)
  <2>1. DOMAIN n.retransmit_queue = {}
    BY <1>5, <1>11
  <2> QED
    BY <2>1, Zenon
<1>15. g.to = p /\ Good(e, n, 0, 0, Lim(p), g)
  <2>1. g.to = Client /\ g.seq = Iss[Server] /\ g.ack = Add(m.seq, 1) /\ g.flags = {"SYN", "ACK"} /\ g.data = <<>>
    BY DEF Segment
  <2> HIDE DEF g
  <2>2. "FIN" \notin g.flags /\ g.flags # {"SYN"} /\ n.state # "Open"
    BY <1>11, <2>1
  <2>3. Pos(e, g.seq) = 0
    <3>1. Iss[Server] \in Seqs
      BY <1>3, SpaceFacts
    <3>2. Pos(e, Iss[Server]) = Iss[Server] - Iss[Server] /\ Iss[Server] \in Int
      BY <1>3, <3>1, PosFacts, SpaceFacts DEF Seqs
    <3> QED
      BY <2>1, <3>2
  <2>4. 1 <= Pos(p, g.ack) /\ Pos(p, g.ack) <= RecvPos(e, n)
    BY <1>6, <1>12, <2>1
  <2> QED
    BY <1>3, <1>13, <2>1, <2>2, <2>3, <2>4, Zenon DEF Good
<1>16. \A x \in net' \ net : x.to = Peer(e) /\ Good(e, n, 0, 0, Lim(Peer(e)), x)
  BY <1>4, <1>15, Zenon
<1>17. unsent'[e] = unsent[e] /\ sent'[e] = sent[e] /\ got'[e] = got[e]
       /\ n.state \in {"SynSent", "SynReceived"} /\ n.send_seq = Add(sock[e].send_seq, 1)
       /\ (n.state = "SynReceived" => RecvPos(e, n) = 1 /\ Valid(e, n, Lim(Peer(e))))
  BY <1>4, <1>7, <1>11, <1>12, <1>13 DEF appVars
<1>18. Calm(e)
  BY <1>1, Zenon
<1> HIDE DEF e, p
<1> QED
  BY <1>1, <1>2, <1>3, <1>11, <1>14, <1>16, <1>17, <1>18, StartStep

\* What a socket has received stays, when only its sending side changes.
LEMMA ReceptionSame ==
  ASSUME NEW e, NEW s, NEW n, n.recv_seq = s.recv_seq, n.receive_queue = s.receive_queue,
         n.out_of_order_queue = s.out_of_order_queue, n.pending_fin_seq = s.pending_fin_seq,
         n.state = s.state, NEW h, NEW G, NEW k, NEW fin, NEW L
  PROVE  /\ RecvPos(e, n) = RecvPos(e, s) /\ (Valid(e, s, L) <=> Valid(e, n, L))
         /\ Reception(e, s, h, G, k, fin) => Reception(e, n, h, G, k, fin)
<1>1. RecvPos(e, n) = RecvPos(e, s)
  BY Zenon DEF RecvPos
<1>2. Valid(e, s, L) <=> Valid(e, n, L)
  BY <1>1, Zenon DEF Valid
<1> QED
  BY <1>1, <1>2, Zenon DEF Reception

\* The parts of the invariant, for e.
LEMMA InvParts ==
  ASSUME TypeInv, StreamInv, NEW e \in Ends
  PROVE  LET p == Peer(e)
         IN /\ sock[e] \in Sockets /\ unsent[e] \in Segments /\ sent[e] \in Nat /\ got[e] \in Seq(Nat)
            /\ p \in Ends /\ Lim(p) \in Int /\ Gone(p) \in Nat /\ Gone(e) \in Nat /\ Lim(e) \in Int /\ Recv(p) \in Nat
            /\ Numbers(e, sock[e], unsent[e], sent[e], got[e], Lim(p))
            /\ Queue(e, sock[e], unsent[e], sent[e], Lim(p))
            /\ Reception(e, sock[e], got[e], Gone(p), sent[p], Fin(p))
            /\ Remembers(sock[e], sent[e], Val(p), Recv(p))
            /\ sock[e].state \notin {"Open", "SynSent", "Closed"} => Valid(e, sock[e], Lim(p))
            /\ Gone(e) = sent[e] - Len(unsent[e].data) /\ Lim(e) = SendPos(e, sock[e]) - Len(unsent[e].data)
            /\ Len(unsent[e].data) \in Nat /\ SendPos(e, sock[e]) \in Nat /\ Len(unsent[e].data) <= sent[e]
<1>1. /\ sock[e] \in Sockets /\ unsent[e] \in Segments /\ sent[e] \in Nat /\ got[e] \in Seq(Nat)
      /\ Peer(e) \in Ends /\ Gone(e) \in Nat /\ Lim(e) \in Int
      /\ Len(unsent[e].data) \in Nat /\ SendPos(e, sock[e]) \in Nat
  BY Counts
<1>2. Lim(Peer(e)) \in Int /\ Gone(Peer(e)) \in Nat /\ Recv(Peer(e)) \in Nat
  BY <1>1, Counts
<1>3. OwnInv(e) /\ CrossInv(e)
  BY Zenon DEF StreamInv
<1>4. Len(unsent[e].data) <= sent[e]
  BY DEF TypeInv, Windows
<1> QED
  BY <1>1, <1>2, <1>3, <1>4, Zenon DEF OwnInv, Own, CrossInv, Gone, Lim

\* The segment under way leaves.
LEMMA LeavesOwn ==
  ASSUME TypeInv, StreamInv, NEW e \in Ends, unsent[e] # NoSegment
  PROVE  LET p == Peer(e)
             s == sock[e]
             k == sent[e]
         IN /\ unsent[e].to = p /\ "RST" \notin unsent[e].flags /\ Good(e, s, k, k, Lim(p), unsent[e])
            /\ Own(e, s, NoSegment, k, got[e], Lim(p), Gone(p), sent[p], Fin(p))
            /\ Further(e, s, k, Gone(e), Lim(p), s, k, k, Lim(p)) /\ Lim(e) <= SendPos(e, s)
            /\ Len(NoSegment.data) = 0 /\ k - Len(NoSegment.data) = k
            /\ SendPos(e, s) - Len(NoSegment.data) = SendPos(e, s)
<1> DEFINE p == Peer(e)
           s == sock[e]
           u == unsent[e]
           k == sent[e]
<1>1. /\ s \in Sockets /\ u \in Segments /\ k \in Nat /\ got[e] \in Seq(Nat)
      /\ p \in Ends /\ Lim(p) \in Int /\ Gone(e) \in Nat /\ Lim(e) \in Int
      /\ Numbers(e, s, u, k, got[e], Lim(p)) /\ Queue(e, s, u, k, Lim(p))
      /\ Reception(e, s, got[e], Gone(p), sent[p], Fin(p)) /\ Remembers(s, k, Val(p), Recv(p))
      /\ s.state \notin {"Open", "SynSent", "Closed"} => Valid(e, s, Lim(p))
      /\ Gone(e) = k - Len(u.data) /\ Lim(e) = SendPos(e, s) - Len(u.data)
      /\ Len(u.data) \in Nat /\ SendPos(e, s) \in Nat
  BY InvParts
<1>5. Fresh(e, s, k, Lim(p), u)
  BY <1>1, Zenon DEF Numbers
<1>6. Len(NoSegment.data) = 0 /\ k - Len(NoSegment.data) = k /\ SendPos(e, s) - Len(NoSegment.data) = SendPos(e, s)
  BY <1>1, NoSegmentIs
<1>7. Further(e, s, k, k - Len(u.data), Lim(p), s, k, k, Lim(p))
  <2>1. k - Len(u.data) <= k /\ RecvPos(e, s) <= RecvPos(e, s)
    BY <1>1, SockPos
  <2> QED
    BY <2>1, Zenon DEF Further
<1>8. u.to = p /\ "RST" \notin u.flags /\ Good(e, s, k, k, Lim(p), u)
  <2>1. /\ u.to = p /\ u.flags = {"ACK"} /\ Carries(Pos(e, u.seq), u.data, k)
        /\ Valid(e, s, Lim(p)) /\ 1 <= Pos(Peer(e), u.ack) /\ Pos(Peer(e), u.ack) <= RecvPos(e, s)
    BY <1>5, Zenon DEF Fresh
  <2>2. "RST" \notin u.flags /\ "SYN" \notin u.flags /\ "FIN" \notin u.flags /\ u.flags # {"SYN"}
    BY <2>1
  <2> QED
    BY <2>1, <2>2, Zenon DEF Good
<1>9. Numbers(e, s, NoSegment, k, got[e], Lim(p))
  BY <1>1, Zenon DEF Numbers
<1>10. Queue(e, s, NoSegment, k, Lim(p))
  <2>1. ASSUME NEW i \in DOMAIN s.retransmit_queue
        PROVE  LET g == s.retransmit_queue[i].seg
               IN g.to = p /\ "RST" \notin g.flags /\ Good(e, s, k, k, Lim(p), g)
    <3>1. PICK g \in Segments : g = s.retransmit_queue[i].seg
      BY <1>1, EntryType
    <3>2. \/ g = u
          \/ g.to = p /\ "RST" \notin g.flags /\ Good(e, s, k, k - Len(u.data), Lim(p), g)
      BY <1>1, <3>1, Zenon DEF Queue
    <3>3. ASSUME Good(e, s, k, k - Len(u.data), Lim(p), g) PROVE Good(e, s, k, k, Lim(p), g)
      <4>1. k \in Int /\ k - Len(u.data) \in Int
        BY <1>1
      <4> HIDE DEF s, u, k, p
      <4> QED
        BY <1>1, <1>7, <3>3, <4>1, GoodMono
    <3> QED
      BY <1>8, <3>1, <3>2, <3>3, Zenon
  <2> QED
    BY <1>6, <2>1, Zenon DEF Queue
<1>11. Own(e, s, NoSegment, k, got[e], Lim(p), Gone(p), sent[p], Fin(p))
  BY <1>1, <1>9, <1>10, Zenon DEF Own
<1>12. Further(e, s, k, Gone(e), Lim(p), s, k, k, Lim(p))
  BY <1>1, <1>7, Zenon
<1>13. Lim(e) <= SendPos(e, s)
  BY <1>1
<1> QED
  BY <1>6, <1>8, <1>11, <1>12, <1>13, Zenon

\* The segment has left.
LEMMA SendOkStream ==
  ASSUME TypeInv, SendingInv, StreamInv, NEW e \in Ends, SendOk(e),
         Calm(e)
  PROVE  StreamInv'
<1> DEFINE p == Peer(e)
           s == sock[e]
           k == sent[e]
<1>1. /\ s \in Sockets /\ k \in Nat /\ Remembers(s, k, Val(p), Recv(p))
  BY InvParts
<1>2. TypeInv' /\ LocalTo(e) /\ sock'[e] = s
  BY SendOkType
<1>3. /\ sending[e] # NoSegment /\ net' = net \cup {sending[e]} /\ unsent' = [unsent EXCEPT ![e] = NoSegment]
      /\ UNCHANGED <<prog, sent, got>>
  BY Zenon DEF SendOk, SendReturns
<1>4. unsent'[e] = NoSegment /\ sent'[e] = k /\ got'[e] = got[e] /\ prog'[e] = prog[e]
  BY <1>3 DEF TypeInv
<1>5. EndOf(e, s, got[e])
  BY EndSame
<1>6. CASE unsent[e] = NoSegment
  <2>1. sending[e].to = Peer(e) /\ GoodOf(e, s, sending[e])
    BY <1>3, <1>6, Zenon DEF StreamInv, LeftInv, Sent, GoodOf
  <2>2. \A g \in net' \ net : "RST" \in g.flags \/ (g.to = Peer(e) /\ GoodOf(e, s, g))
    BY <1>3, <2>1, Zenon
  <2>3. SameStream(s, s) /\ Within(s.retransmit_queue, s.retransmit_queue)
    BY WithinFacts, Zenon DEF SameStream
  <2> QED
    BY <1>2, <1>4, <1>6, <2>2, <2>3, SameStep
<1>7. CASE unsent[e] # NoSegment
  <2> DEFINE u == unsent[e]
  <2>1. sending[e] = u
    BY <1>7, Zenon DEF SendingInv
  <2>2. /\ u.to = p /\ Good(e, s, k, k, Lim(p), u)
        /\ Own(e, s, NoSegment, k, got[e], Lim(p), Gone(p), sent[p], Fin(p))
        /\ Further(e, s, k, Gone(e), Lim(p), s, k, k, Lim(p)) /\ Lim(e) <= SendPos(e, s)
        /\ Len(NoSegment.data) = 0 /\ k - Len(NoSegment.data) = k
        /\ SendPos(e, s) - Len(NoSegment.data) = SendPos(e, s)
    BY <1>7, LeavesOwn
  <2>3. \A g \in net' \ net : "RST" \in g.flags \/ (g.to = p /\ Good(e, s, k, k - Len(NoSegment.data), Lim(p), g))
    BY <1>3, <2>1, <2>2, Zenon
  <2>4. /\ Further(e, sock[e], sent[e], Gone(e), Lim(p), s, k, k - Len(NoSegment.data), Lim(p))
        /\ Lim(e) <= SendPos(e, s) - Len(NoSegment.data)
    BY <2>2, Zenon
  <2>5. s.state = "LastAck" => prog'[e] = <<>>
    BY <1>4, Zenon DEF StreamInv, LastCall
  <2> HIDE DEF s, k, u
  <2> QED
    BY <1>1, <1>2, <1>4, <1>5, <2>2, <2>3, <2>4, <2>5, NewStep DEF p
<1> QED
  BY <1>6, <1>7

\* What is sent again is what was sent, in other pieces.
LEMMA RetransmitStream ==
  ASSUME TypeInv, SendingInv, ShortStreams, StreamInv, NEW e \in Ends, Retransmit(e)
  PROVE  StreamInv'
<1> DEFINE s == sock[e]
           q == s.retransmit_queue
<1>1. TypeInv' /\ LocalTo(e)
  BY RetransmitType
<1>2. UNCHANGED <<prog, sending, sent, got>> /\ s.state # "Closed" /\ s.registered
  BY Zenon DEF Retransmit
<1>3. sent'[e] = sent[e] /\ got'[e] = got[e] /\ prog'[e] = prog[e]
  BY <1>2, Zenon
<1>9. \A x \in Ends : sending'[x] = sending[x]
  BY <1>2, Zenon
<1>10. aborted \subseteq aborted'
  BY RetransmitSending
<1>4. s \in Sockets /\ sock \in [Ends -> Sockets] /\ mss \in Nat \ {0}
  BY EndTypes DEF TypeInv
<1>5. OwnOf(e, s)
  BY Zenon DEF StreamInv, OwnInv, OwnOf
<1>6. s.state # "Open"
  BY <1>2, <1>5, Zenon DEF OwnOf, Own, Numbers
<1>7. CASE SetSock(e, DeadSock(s)) /\ aborted' = aborted \cup {e} /\ UNCHANGED <<net, unsent>>
  <2> DEFINE n == DeadSock(s)
  <2>1. sock'[e] = n
    BY <1>4, <1>7, Zenon DEF SetSock
  <2>2. /\ n.state = "Closed" /\ n.send_seq = s.send_seq /\ n.recv_seq = s.recv_seq
        /\ n.receive_queue = <<>> /\ n.out_of_order_queue = <<>> /\ n.retransmit_queue = <<>>
        /\ n.pending_fin_seq = NoFin
    BY <1>4 DEF Sockets, DeadSock
  <2>3. n \in Sockets
    BY <1>1, <2>1, CountsNext
  <2> HIDE DEF n
  <2>4. Onward(e, s, n, Lim(Peer(e)))
    BY <1>4, <2>2, <2>3, SameOnward
  <2>5. \A g \in net' \ net : "RST" \in g.flags \/ (g.to = Peer(e) /\ GoodOf(e, n, g))
    BY <1>7, Zenon
  <2>6. Within(n.retransmit_queue, s.retransmit_queue)
    BY <2>2, WithinFacts
  <2>7. unsent'[e] = unsent[e] /\ Calm(e) /\ e \in aborted'
    BY <1>7, <1>9, <1>10, PeerFacts, Zenon DEF Calm
  <2> QED
    BY <1>1, <1>3, <1>6, <2>1, <2>2, <2>4, <2>5, <2>6, <2>7, ClosedStep
<1>8. ASSUME NEW r, Marked(r, q), SetSock(e, [s EXCEPT !.retransmit_queue = r]), Resent(e)
      PROVE  StreamInv'
  <2> DEFINE n == [s EXCEPT !.retransmit_queue = r]
  <2>1. sock'[e] = n
    BY <1>4, <1>8, Zenon DEF SetSock
  <2>2. /\ SameStream(n, s) /\ Within(n.retransmit_queue, s.retransmit_queue)
        /\ Within(s.retransmit_queue, n.retransmit_queue)
    BY <1>4, <1>8, MarkedSame
  <2>3. n \in Sockets
    BY <1>1, <2>1, CountsNext
  <2> HIDE DEF n
  <2>4. /\ unsent[e] \in Segments /\ sent[e] \in Nat /\ Lim(Peer(e)) \in Int /\ Gone(e) \in Nat
        /\ Gone(e) < SeqSpace /\ Gone(e) \in Int /\ sent[e] \in Int
    <3>1. /\ unsent[e] \in Segments /\ sent[e] \in Nat /\ Lim(Peer(e)) \in Int
      BY Counts, PeerFacts
    <3>2. Gone(e) \in Nat /\ Gone(e) < SeqSpace
      BY ShortFacts
    <3> QED
      BY <3>1, <3>2
  <2>5. Onward(e, s, n, Lim(Peer(e)))
    BY <1>4, <1>5, <2>2, <2>3, <2>4, OwnSame DEF OwnOf
  <2>6. Further(e, s, sent[e], Gone(e), Lim(Peer(e)), n, sent[e], Gone(e), Lim(Peer(e)))
    BY <2>4, <2>5, OnwardFurther
  <2>7. sent[e] < SeqSpace /\ OwnOf(e, n)
    <3>1. sent[e] < SeqSpace
      BY ShortFacts
    <3> QED
      BY <1>4, <1>5, <2>2, <2>3, <2>4, <3>1, OwnSame DEF OwnOf
  <2>8. unsent \in [Ends -> Segments] /\ Peer(e) \in Ends /\ Peer(e) # e
    BY PeerFacts, Zenon DEF TypeInv
  <2>9. CASE unsent[e] = NoSegment \/ unsent' = unsent
    <3>1. unsent'[e] = unsent[e]
      BY <1>8, <2>8, <2>9, Zenon DEF Resent
    <3>2. ASSUME NEW c \in net' \ net
          PROVE  c.to = Peer(e) /\ GoodOf(e, n, c)
      <4>1. PICK i \in DOMAIN q : (q[i].seg # unsent[e] \/ unsent[e] = NoSegment) /\ c \in Chunks(q[i].seg)
        <5>1. CASE unsent[e] = NoSegment
          BY <1>8, <5>1, Zenon DEF Resent
        <5>2. CASE unsent[e] # NoSegment
          <6>1. unsent' # [unsent EXCEPT ![e] = NoSegment]
            BY <2>8, <3>1, <5>2
          <6> QED
            BY <1>8, <6>1, Zenon DEF Resent
        <5> QED
          BY <5>1, <5>2
      <4>2. PICK g \in Segments : g = q[i].seg
        BY <1>4, EntryType
      <4>3. g.to = Peer(e) /\ Good(e, s, sent[e], Gone(e), Lim(Peer(e)), g)
        BY <1>5, <4>1, <4>2, Zenon DEF OwnOf, Own, Queue, Gone
      <4>4. c = g \/ \E j : PieceOf(c, g, j)
        BY <1>4, <4>1, <4>2, ChunkIs
      <4>5. c \in Segments /\ c.to = Peer(e)
        BY <4>2, <4>3, <4>4, Zenon DEF PieceOf
      <4>6. Good(e, s, sent[e], Gone(e), Lim(Peer(e)), c)
        BY <2>4, <4>3, <4>4, PieceGood
      <4>7. Good(e, n, sent[e], Gone(e), Lim(Peer(e)), c)
        BY <1>4, <2>3, <2>4, <2>6, <4>5, <4>6, GoodMono
      <4> QED
        BY <4>5, <4>7, Zenon DEF GoodOf
    <3>3. Calm(e)
      BY <1>9, <1>10, <2>8, <3>1, Zenon DEF Calm
    <3> QED
      BY <1>1, <1>3, <2>1, <2>2, <3>1, <3>2, <3>3, SameStep
  <2>10. CASE unsent[e] # NoSegment /\ unsent' = [unsent EXCEPT ![e] = NoSegment]
    <3> DEFINE p == Peer(e)
               k == sent[e]
    <3>1. /\ unsent[e].to = p /\ Good(e, s, k, k, Lim(p), unsent[e])
          /\ Own(e, s, NoSegment, k, got[e], Lim(p), Gone(p), sent[p], Fin(p))
          /\ Further(e, s, k, Gone(e), Lim(p), s, k, k, Lim(p)) /\ Lim(e) <= SendPos(e, s)
          /\ Len(NoSegment.data) = 0 /\ k - Len(NoSegment.data) = k
          /\ SendPos(e, s) - Len(NoSegment.data) = SendPos(e, s)
      BY <2>10, LeavesOwn
    <3>2. unsent'[e] = NoSegment
      BY <2>8, <2>10, Zenon
    <3>3. Own(e, n, NoSegment, k, got[e], Lim(p), Gone(p), sent[p], Fin(p)) /\ Onward(e, s, n, Lim(p))
      BY <1>4, <2>2, <2>3, <2>4, <3>1, NoSegmentIs, OwnSame
    <3>4. Further(e, s, k, k, Lim(p), n, k, k, Lim(p)) /\ SendPos(e, n) = SendPos(e, s)
      BY <2>4, <3>3, OnwardFurther
    <3>5. Further(e, s, k, Gone(e), Lim(p), n, k, k, Lim(p))
      BY <3>1, <3>4, Zenon DEF Further
    <3>6. ASSUME NEW g \in Segments, Good(e, s, k, k, Lim(p), g)
          PROVE  Good(e, n, k, k, Lim(p), g)
      BY <1>4, <2>3, <2>4, <3>4, <3>6, GoodMono
    <3>7. ASSUME NEW c \in net' \ net
          PROVE  c.to = p /\ Good(e, n, k, k, Lim(p), c)
      <4>1. PICK i \in DOMAIN q : c \in Chunks(q[i].seg)
        BY <1>8, Zenon DEF Resent
      <4>2. PICK g \in Segments : g = q[i].seg
        BY <1>4, EntryType
      <4>3. g.to = p /\ Good(e, s, k, k, Lim(p), g)
        BY <3>1, <4>2, Zenon DEF Own, Queue
      <4>4. c = g \/ \E j : PieceOf(c, g, j)
        BY <1>4, <4>1, <4>2, ChunkIs
      <4>5. c \in Segments /\ c.to = p
        BY <4>2, <4>3, <4>4, Zenon DEF PieceOf
      <4>6. Good(e, s, k, k, Lim(p), c)
        BY <2>4, <2>7, <4>3, <4>4, PieceGood
      <4> QED
        BY <3>6, <4>5, <4>6
    <3>8. sending[e] = unsent[e] /\ sending[e] \in Segments
      BY <2>10, Zenon DEF SendingInv
    <3>9. Good(e, n, k, k, Lim(p), sending[e])
      BY <3>1, <3>6, <3>8
    <3>10. Lim(p)' = Lim(p) /\ Gone(e)' = k
      <4>1. Gone(e)' = k - Len(NoSegment.data)
        BY <1>3, <3>2, Zenon DEF Gone
      <4> QED
        BY <1>1, <2>8, <3>1, <4>1, Still
    <3>11. LeftInv(e)'
      <4>1. Good(e, sock'[e], sent'[e], Gone(e)', Lim(p)', sending'[e])
        BY <1>3, <1>9, <2>1, <3>9, <3>10, Zenon
      <4>2. sending'[e] \in Segments /\ sending'[e].to = p
        BY <1>9, <3>1, <3>8, Zenon
      <4> QED
        BY <4>1, <4>2, Zenon DEF LeftInv, Sent
    <3>12. Calm(e)
      BY <1>9, <1>10, <2>8, <3>11, Zenon DEF Calm
    <3>13. EndOf(e, n, got[e])
      BY <2>2, <3>12, EndSame, Zenon DEF SameStream
    <3>14. Remembers(n, k, Val(p), Recv(p))
      <4>1. Remembers(s, k, Val(p), Recv(p))
        BY InvParts
      <4>2. \A b : Holds(s, b) => Holds(n, b)
        BY <2>2, Zenon DEF Holds, Within
      <4> QED
        BY <2>2, <4>1, <4>2, Zenon DEF Remembers, SameStream
    <3>15. n.state = "LastAck" => prog'[e] = <<>>
      BY <1>3, <2>2, Zenon DEF StreamInv, LastCall, SameStream
    <3>16. /\ Further(e, s, k, Gone(e), Lim(p), n, k, k - Len(NoSegment.data), Lim(p))
           /\ Lim(e) <= SendPos(e, n) - Len(NoSegment.data)
           /\ \A g \in net' \ net : "RST" \in g.flags \/ (g.to = p /\ Good(e, n, k, k - Len(NoSegment.data), Lim(p), g))
      BY <3>1, <3>4, <3>5, <3>7, Zenon
    <3> HIDE DEF k
    <3> QED
      BY <1>1, <1>3, <2>1, <3>2, <3>3, <3>12, <3>13, <3>14, <3>15, <3>16, NewStep DEF p, k
  <2> QED
    BY <1>8, <2>9, <2>10, Zenon DEF Resent
<1> QED
  BY <1>7, <1>8, RetransmitIs, Zenon

\* The segment could not be sent: its number is free again, and it is forgotten.
LEMMA SendFailStream ==
  ASSUME TypeInv, SendingInv, ShortStreams, StreamInv, NEW e \in Ends, SendFail(e), ~escaped',
         Calm(e)
  PROVE  StreamInv'
<1> DEFINE p == Peer(e)
           s == sock[e]
           u == unsent[e]
           k == sent[e]
           q == s.retransmit_queue
<1>1. /\ s \in Sockets /\ u \in Segments /\ k \in Nat /\ got[e] \in Seq(Nat)
      /\ p \in Ends /\ Lim(p) \in Int /\ Gone(e) \in Nat /\ Lim(e) \in Int
      /\ Numbers(e, s, u, k, got[e], Lim(p)) /\ Queue(e, s, u, k, Lim(p))
      /\ Reception(e, s, got[e], Gone(p), sent[p], Fin(p)) /\ Remembers(s, k, Val(p), Recv(p))
      /\ s.state \notin {"Open", "SynSent", "Closed"} => Valid(e, s, Lim(p))
      /\ Gone(e) = k - Len(u.data) /\ Lim(e) = SendPos(e, s) - Len(u.data)
      /\ Len(u.data) \in Nat /\ SendPos(e, s) \in Nat /\ Len(u.data) <= k
  BY InvParts
<1>3. u = sending[e] /\ u # NoSegment /\ UNCHANGED net
  <2>1. sending[e] # NoSegment /\ unsent[e] \in {sending[e], NoSegment}
    BY Zenon DEF SendFail, SendReturns, SendingInv
  <2>2. PICK queued \in BOOLEAN :
          net' = Queued(queued, sending[e]) /\ escaped' = (escaped \/ queued \/ unsent[e] = NoSegment)
    BY Zenon DEF SendFail
  <2>3. ~queued /\ unsent[e] # NoSegment
    BY <2>2
  <2>4. net' = net
    BY <2>2, <2>3, Zenon DEF Queued
  <2> QED
    BY <2>1, <2>3, <2>4
<1>2. /\ TypeInv' /\ LocalTo(e) /\ sock'[e] = FailedSock(s, u) /\ unsent'[e] = NoSegment
      /\ sent'[e] = k - Len(u.data) /\ got'[e] = got[e] /\ prog'[e] = prog[e]
  BY <1>3, SendFailType
<1>4. PICK l \in Nat, j \in Nat : l = Len(u.data) /\ j = k - l
  BY <1>1
<1>5. Fresh(e, s, k, Lim(p), u)
  BY <1>1, <1>3, Zenon DEF Numbers
<1>6. /\ u.flags = {"ACK"} /\ Pos(e, u.seq) = k - Len(u.data) + 1 /\ Valid(e, s, Lim(p)) /\ SendPos(e, s) = k + 1
      /\ u.seq \in Seqs
  <2>1. u.seq \in Seqs
    <3>1. PICK v \in Segments : v = u
      BY <1>1, Zenon
    <3>2. v.seq \in Seqs
      BY DEF Segments
    <3> QED
      BY <3>1, <3>2, Zenon
  <2> QED
    BY <1>5, <2>1, Zenon DEF Fresh
<1>7. Pos(e, u.seq) = j + 1 /\ k + 1 = j + 1 + l
  <2>1. k - Len(u.data) = j
    BY <1>4, Zenon
  <2>2. Pos(e, u.seq) = j + 1
    BY <1>6, <2>1, Zenon
  <2>3. PICK K \in Nat : K = k
    BY <1>1, Zenon
  <2>4. j = K - l
    BY <1>4, <2>3, Zenon
  <2>5. K + 1 = j + 1 + l
    BY <2>4
  <2> QED
    BY <2>2, <2>3, <2>5, Zenon
<1>8. RolledBack(s, u) = u.seq
  <2>1. SegmentEndSeq(u) \in Seqs /\ SegmentEndSeq(u) = Add(u.seq, l)
    BY <1>1, <1>4, <1>6, EndType
  <2>2. /\ SeqSpace \in Nat /\ SeqSpace \div 2 \in Nat /\ SeqSpace \div 2 <= SeqSpace
        /\ k + 2 < SeqSpace \div 2
    BY ShortFacts
  <2>3. PICK x \in Seqs : x = u.seq /\ Pos(e, x) = j + 1
    BY <1>6, <1>7
  <2>4. 0 <= Pos(e, x) + l /\ Pos(e, x) + l < SeqSpace /\ l \in Int /\ Pos(e, x) + l = k + 1
    <3>1. PICK K \in Nat : K = k
      BY <1>1, Zenon
    <3>2. K + 1 = j + 1 + l /\ K + 2 < SeqSpace \div 2 /\ Pos(e, x) + l = j + 1 + l
      BY <1>7, <2>2, <2>3, <3>1, Zenon
    <3> HIDE DEF k
    <3>3. 0 <= j + 1 + l /\ j + 1 + l < SeqSpace /\ l \in Int
      BY <2>2, <3>2
    <3> QED
      BY <3>1, <3>2, <3>3, Zenon
  <2>5. Pos(e, Add(x, l)) = Pos(e, x) + l
    BY <2>4, PosAdd
  <2>6. PICK y \in Seqs, z \in Seqs : y = s.send_seq /\ z = SegmentEndSeq(u) /\ Pos(e, y) = k + 1 /\ Pos(e, z) = k + 1
    <3>1. s.send_seq \in Seqs /\ Pos(e, s.send_seq) = k + 1
      BY <1>1, <1>6 DEF Sockets, SendPos
    <3>2. Pos(e, SegmentEndSeq(u)) = k + 1
      BY <2>1, <2>3, <2>4, <2>5, Zenon
    <3> QED
      BY <2>1, <3>1, <3>2, Zenon
  <2>7. y = z
    BY <2>6, PosOne
  <2> QED
    BY <2>6, <2>7, Zenon DEF RolledBack
<1>9. PICK r : r = Untrack(q, u.seq)
  BY Zenon
<1>10. /\ Fewer(r, q) /\ \A i \in DOMAIN r : r[i].seg.seq # u.seq
       /\ \A i \in DOMAIN q : q[i].seg.seq # u.seq => \E x \in DOMAIN r : r[x] = q[i]
  <2>1. q \in Seq(Tracked)
    BY <1>1 DEF Sockets
  <2> HIDE DEF q
  <2> QED
    BY <1>9, <2>1, UntrackIs
<1>11. PICK n \in Sockets : n = FailedSock(s, u)
  BY <1>2, CountsNext
<1>12. n = [s EXCEPT !.send_seq = u.seq, !.retransmit_queue = r]
  BY <1>8, <1>9, <1>11, Zenon DEF FailedSock
<1>13. /\ n.send_seq = u.seq /\ n.retransmit_queue = r /\ n.state = s.state /\ n.recv_seq = s.recv_seq
       /\ n.receive_queue = s.receive_queue /\ n.out_of_order_queue = s.out_of_order_queue
       /\ n.pending_fin_seq = s.pending_fin_seq
  BY <1>1, <1>12 DEF Sockets
<1>14. SendPos(e, n) = j + 1
  BY <1>7, <1>13, Zenon DEF SendPos
<1>15. /\ RecvPos(e, n) = RecvPos(e, s) /\ (Valid(e, s, Lim(p)) <=> Valid(e, n, Lim(p)))
       /\ Reception(e, n, got[e], Gone(p), sent[p], Fin(p))
  BY <1>1, <1>13, ReceptionSame
<1>16. Further(e, s, k, j, Lim(p), n, j, j, Lim(p))
  <2>1. ~(SendPos(e, s) = k + 2) /\ j <= j /\ RecvPos(e, s) <= RecvPos(e, n)
    BY <1>1, <1>6, <1>15, SockPos
  <2> QED
    BY <1>13, <1>15, <2>1, Zenon DEF Further
<1>17. Len(NoSegment.data) = 0 /\ j - Len(NoSegment.data) = j /\ SendPos(e, n) - Len(NoSegment.data) = j + 1
  BY <1>14, NoSegmentIs
<1>18. s.state \notin {"Open", "SynSent", "SynReceived", "FinWait1", "FinWait2", "LastAck"}
  <2>1. s.state \notin {"Open", "SynSent"}
    BY <1>6, Zenon DEF Valid
  <2>2. s.state \notin {"FinWait1", "FinWait2", "LastAck"}
    <3>1. ~(SendPos(e, s) = k + 2)
      BY <1>1, <1>6
    <3> QED
      BY <1>1, <3>1, Zenon DEF Numbers
  <2>3. s.state # "SynReceived"
    BY <1>1, <1>3 DEF Numbers
  <2> QED
    BY <2>1, <2>2, <2>3
<1>19. Numbers(e, n, NoSegment, j, got[e], Lim(p))
  BY <1>13, <1>14, <1>18, Zenon DEF Numbers
<1>20. Queue(e, n, NoSegment, j, Lim(p))
  <2>1. ASSUME NEW i \in DOMAIN r
        PROVE  LET g == r[i].seg
               IN g.to = p /\ "RST" \notin g.flags /\ Good(e, n, j, j, Lim(p), g)
    <3>1. PICK x \in DOMAIN q : r[i] = q[x]
      BY <1>10, Zenon DEF Fewer
    <3>2. PICK g \in Segments : g = q[x].seg
      BY <1>1, EntryType
    <3>3. g # u
      BY <1>10, <3>1, <3>2, Zenon
    <3>4. g.to = p /\ "RST" \notin g.flags /\ Good(e, s, k, k - Len(u.data), Lim(p), g)
      BY <1>1, <3>2, <3>3, Zenon DEF Queue
    <3>5. Good(e, s, k, j, Lim(p), g)
      BY <1>4, <3>4, Zenon
    <3>6. k \in Int /\ j \in Int
      BY <1>1
    <3>7. Good(e, n, j, j, Lim(p), g)
      <4> HIDE DEF s, k, p, u
      <4> QED
        BY <1>1, <1>16, <3>5, <3>6, GoodMono
    <3> QED
      BY <3>1, <3>2, <3>4, <3>7, Zenon
  <2> QED
    BY <1>13, <1>17, <2>1, Zenon DEF Queue
<1>21. Own(e, n, NoSegment, j, got[e], Lim(p), Gone(p), sent[p], Fin(p))
  BY <1>6, <1>15, <1>19, <1>20, Zenon DEF Own
<1>22. ASSUME NEW b \in Nat \ {0}, b <= j, Holds(s, b)
       PROVE  Holds(n, b)
  <2>1. PICK i \in DOMAIN q : b \in ToSet(q[i].seg.data)
    BY <1>22, Zenon DEF Holds
  <2>2. PICK g \in Segments : g = q[i].seg
    BY <1>1, EntryType
  <2>3. /\ g.data \in Seq(Nat) /\ Len(g.data) \in Nat /\ (g.data = <<>> <=> Len(g.data) = 0) /\ Pos(e, g.seq) \in Nat
    BY SegmentPos
  <2>4. PICK y \in 1..Len(g.data) : b = g.data[y]
    <3>1. DOMAIN g.data = 1..Len(g.data)
      BY <2>3
    <3> QED
      BY <2>1, <2>2, <3>1, Zenon DEF ToSet
  <2>5. g.data # <<>>
    BY <2>3, <2>4
  <2>6. Carries(Pos(e, g.seq), g.data, k)
    <3> HIDE DEF k, u, p
    <3> QED
      BY <1>1, <2>2, <2>5, EntryIs
  <2>7. b = Pos(e, g.seq) + y - 1
    BY <2>4, <2>6, Zenon DEF Carries
  <2>8. g.seq # u.seq
    <3>1. Pos(e, g.seq) # j + 1
      BY <1>22, <2>3, <2>7
    <3> QED
      BY <1>7, <3>1, Zenon
  <2>9. \E x \in DOMAIN r : r[x] = q[i]
    BY <1>10, <2>2, <2>8, Zenon
  <2> QED
    BY <1>13, <2>1, <2>9, Zenon DEF Holds
<1>23. Remembers(n, j, Val(p), Recv(p))
  <2>1. j > 0 => k > 0
    BY <1>1, <1>4
  <2>2. \A b \in Nat : b <= j => b <= k
    BY <1>1, <1>4
  <2> QED
    BY <1>1, <1>13, <1>22, <2>1, <2>2, Zenon DEF Remembers
<1>24. \A g \in net' \ net : "RST" \in g.flags \/ (g.to = p /\ Good(e, n, j, j - Len(NoSegment.data), Lim(p), g))
  BY <1>3, Zenon
<1>25. Further(e, sock[e], sent[e], Gone(e), Lim(p), n, j, j - Len(NoSegment.data), Lim(p)) /\ sent'[e] = j
  BY <1>1, <1>2, <1>4, <1>16, <1>17, Zenon
<1>26. Lim(e) <= SendPos(e, n) - Len(NoSegment.data)
  BY <1>1, <1>4, <1>6, <1>17
<1>27. n.state # "LastAck" /\ sock'[e] = n
  BY <1>2, <1>11, <1>13, <1>18
<1>28. EndOf(e, n, got[e])
  BY <1>13, EndSame
<1> HIDE DEF s, k, u
<1> QED
  BY <1>2, <1>21, <1>23, <1>24, <1>25, <1>26, <1>27, <1>28, NewStep DEF p

\* A call that is sending nothing has nothing under way.
LEMMA NotSending ==
  ASSUME SendingInv, NEW e \in Ends, sending[e] = NoSegment
  PROVE  unsent[e] = NoSegment
BY Zenon DEF SendingInv

\* The entries of a queue to which a segment has been added.
LEMMA TrackSplit ==
  ASSUME NEW q \in Seq(Tracked), Len(q) <= TCP_SEND_WINDOW_SEGMENTS, NEW g \in Segments, NEW r, r = Track(q, g)
  PROVE  /\ \A i \in DOMAIN r : r[i].seg = g \/ \E x \in DOMAIN q : r[i] = q[x]
         /\ \A x \in DOMAIN q : \E i \in DOMAIN r : r[i] = q[x]
         /\ \E i \in DOMAIN r : r[i].seg = g
<1>1. /\ r \in Seq(Tracked) /\ Len(r) = Len(q) + 1 /\ \A i \in 1..Len(q) : r[i] = q[i]
      /\ r[Len(q) + 1].seg = g
  BY TrackIs
<1>2. DOMAIN q = 1..Len(q) /\ DOMAIN r = 1..(Len(q) + 1) /\ Len(q) \in Nat
  BY <1>1
<1>3. \A i \in DOMAIN r : i \in DOMAIN q \/ i = Len(q) + 1
  BY <1>2
<1>4. Len(q) + 1 \in DOMAIN r /\ \A x \in DOMAIN q : x \in DOMAIN r /\ x \in 1..Len(q)
  BY <1>2
<1> QED
  BY <1>1, <1>3, <1>4, Zenon

\* The retransmission queue holds one segment more.
LEMMA TrackHolds ==
  ASSUME NEW s, NEW n, NEW g, s.retransmit_queue \in Seq(Tracked),
         Len(s.retransmit_queue) <= TCP_SEND_WINDOW_SEGMENTS, g \in Segments,
         n.retransmit_queue = Track(s.retransmit_queue, g), NEW b
  PROVE  Holds(s, b) \/ b \in ToSet(g.data) => Holds(n, b)
<1>1. PICK q \in Seq(Tracked) : q = s.retransmit_queue
  BY Zenon
<1>2. PICK r : r = n.retransmit_queue
  BY Zenon
<1>3. Len(q) <= TCP_SEND_WINDOW_SEGMENTS /\ r = Track(q, g)
  BY <1>1, <1>2, Zenon
<1>4. /\ \A x \in DOMAIN q : \E i \in DOMAIN r : r[i] = q[x]
      /\ \E i \in DOMAIN r : r[i].seg = g
  BY <1>3, TrackSplit
<1> QED
  BY <1>1, <1>2, <1>4, Zenon DEF Holds

\* The queue after one more segment.
LEMMA TrackQueue ==
  ASSUME NEW e \in Ends, NEW s \in Sockets, NEW n \in Sockets, NEW g \in Segments, NEW k \in Nat,
         Len(s.retransmit_queue) <= TCP_SEND_WINDOW_SEGMENTS,
         n.retransmit_queue = Track(s.retransmit_queue, g), Queue(e, s, NoSegment, k, Lim(Peer(e))),
         NEW u, NEW kt \in Int, NEW Gt \in Int, Gt = kt - Len(u.data), Lim(Peer(e)) \in Int,
         Further(e, s, k, k, Lim(Peer(e)), n, kt, Gt, Lim(Peer(e))),
         \/ g = u /\ u # NoSegment
         \/ g.to = Peer(e) /\ "RST" \notin g.flags /\ Good(e, n, kt, Gt, Lim(Peer(e)), g)
  PROVE  Queue(e, n, u, kt, Lim(Peer(e)))
<1> DEFINE L == Lim(Peer(e))
<1>1. PICK q \in Seq(Tracked) : q = s.retransmit_queue
  BY DEF Sockets
<1>2. PICK r : r = n.retransmit_queue
  BY Zenon
<1>3. Len(q) <= TCP_SEND_WINDOW_SEGMENTS /\ r = Track(q, g)
  BY <1>1, <1>2, Zenon
<1>4. \A i \in DOMAIN r : r[i].seg = g \/ \E x \in DOMAIN q : r[i] = q[x]
  BY <1>3, TrackSplit
<1>5. k - Len(NoSegment.data) = k
  BY NoSegmentIs
<1>6. ASSUME NEW i \in DOMAIN r
      PROVE  LET f == r[i].seg
             IN \/ f = u /\ u # NoSegment
                \/ f.to = Peer(e) /\ "RST" \notin f.flags /\ Good(e, n, kt, Gt, L, f)
  <2>1. CASE r[i].seg = g
    BY <2>1, Zenon
  <2>2. ASSUME NEW x \in DOMAIN q, r[i] = q[x]
        PROVE  LET f == r[i].seg
               IN f.to = Peer(e) /\ "RST" \notin f.flags /\ Good(e, n, kt, Gt, L, f)
    <3>1. PICK f \in Segments : f = q[x].seg
      BY <1>1, EntryType
    <3>2. f.to = Peer(e) /\ "RST" \notin f.flags /\ Good(e, s, k, k, L, f)
      BY <1>1, <1>5, <3>1, Zenon DEF Queue
    <3>3. k \in Int /\ L \in Int
      OBVIOUS
    <3>4. Good(e, n, kt, Gt, L, f)
      <4> HIDE DEF L
      <4>1. Further(e, s, k, k, L, n, kt, Gt, L)
        BY Zenon DEF L
      <4> QED
        BY <3>2, <3>3, <4>1, GoodMono
    <3> QED
      BY <2>2, <3>1, <3>2, <3>4, Zenon
  <2> QED
    BY <1>4, <2>1, <2>2, Zenon
<1> QED
  BY <1>2, <1>6, Zenon DEF Queue

\* The place after the bytes of a short stream.
LEMMA PlaceAfter ==
  ASSUME NEW e \in Ends, NEW x \in Seqs, NEW k \in Nat, NEW t \in Nat, Pos(e, x) = k + 1,
         k + t + 2 < SeqSpace \div 2
  PROVE  Pos(e, Add(x, t)) = k + t + 1
<1>1. SeqSpace \in Nat /\ SeqSpace \div 2 \in Nat /\ SeqSpace \div 2 <= SeqSpace
  BY SpaceFacts, HalfFacts
<1>2. 0 <= k + 1 + t /\ k + 1 + t < SeqSpace /\ t \in Int /\ k + 1 + t = k + t + 1
  BY <1>1
<1>3. 0 <= Pos(e, x) + t /\ Pos(e, x) + t < SeqSpace
  BY <1>2, Zenon
<1>4. Pos(e, Add(x, t)) = Pos(e, x) + t
  BY <1>2, <1>3, PosAdd
<1> QED
  BY <1>2, <1>4, Zenon

\* send_tracked has numbered and tracked the next segment.
LEMMA SendTrackStream ==
  ASSUME TypeInv, SendingInv, ShortStreams, ShortStreams', StreamInv, NEW e \in Ends, SendTrack(e),
         Calm(e)
  PROVE  StreamInv'
<1> DEFINE p == Peer(e)
           s == sock[e]
           k == sent[e]
<1>1. /\ s \in Sockets /\ k \in Nat /\ got[e] \in Seq(Nat)
      /\ p \in Ends /\ Lim(p) \in Int /\ Gone(e) \in Nat /\ Lim(e) \in Int /\ Recv(p) \in Nat
      /\ Numbers(e, s, unsent[e], k, got[e], Lim(p)) /\ Queue(e, s, unsent[e], k, Lim(p))
      /\ Reception(e, s, got[e], Gone(p), sent[p], Fin(p)) /\ Remembers(s, k, Val(p), Recv(p))
      /\ s.state \notin {"Open", "SynSent", "Closed"} => Valid(e, s, Lim(p))
      /\ Gone(e) = k - Len(unsent[e].data) /\ Lim(e) = SendPos(e, s) - Len(unsent[e].data)
      /\ SendPos(e, s) \in Nat
  BY InvParts
<1>2. TypeInv' /\ LocalTo(e)
  BY SendTrackType
<1>3. /\ unsent[e] = NoSegment /\ CanSend(s) /\ Len(s.retransmit_queue) < TCP_SEND_WINDOW_SEGMENTS
      /\ UNCHANGED <<net, prog, got>>
  BY NotSending, Zenon DEF SendTrack
<1>4. s.state \in {"Established", "CloseWait"}
  BY <1>3, Zenon DEF CanSend
<1>5. PICK g, take, n : Tracks(e, g, take, n)
  BY SendTrackIs
<1>6. /\ take \in Nat /\ take > 0 /\ g \in Segments /\ g.to = p /\ g.seq = s.send_seq /\ g.ack = s.recv_seq
      /\ g.flags = {"ACK"} /\ Len(g.data) = take /\ DOMAIN g.data = 1..take
      /\ \A i \in 1..take : g.data[i] = k + i
      /\ n = [s EXCEPT !.send_seq = Add(s.send_seq, take), !.retransmit_queue = Track(s.retransmit_queue, g)]
      /\ SetSock(e, n) /\ unsent' = [unsent EXCEPT ![e] = g] /\ sent' = [sent EXCEPT ![e] = k + take]
  <2>1. take \in Nat \ {0} => take \in Nat /\ take > 0
    OBVIOUS
  <2> QED
    BY <1>5, <2>1, Zenon DEF Tracks
<1>7. sock'[e] = n /\ unsent'[e] = g /\ sent'[e] = k + take /\ got'[e] = got[e] /\ prog'[e] = prog[e] /\ n \in Sockets
  <2>1. sock'[e] = n
    BY <1>6, SetIs
  <2>2. unsent'[e] = g /\ sent'[e] = k + take
    <3>1. unsent \in [Ends -> Segments] /\ sent \in [Ends -> Nat]
      BY Zenon DEF TypeInv
    <3> HIDE DEF k
    <3> QED
      BY <1>6, <3>1
  <2>3. n \in Sockets
    BY <1>2, <2>1, CountsNext
  <2> QED
    BY <1>3, <2>1, <2>2, <2>3
<1>8. /\ n.send_seq = Add(s.send_seq, take) /\ n.retransmit_queue = Track(s.retransmit_queue, g)
      /\ n.state = s.state /\ n.recv_seq = s.recv_seq
      /\ n.receive_queue = s.receive_queue /\ n.out_of_order_queue = s.out_of_order_queue
      /\ n.pending_fin_seq = s.pending_fin_seq
  BY <1>1, <1>6 DEF Sockets
<1>9. s.send_seq \in Seqs /\ s.retransmit_queue \in Seq(Tracked) /\ Len(s.retransmit_queue) <= TCP_SEND_WINDOW_SEGMENTS
  <2>1. s.send_seq \in Seqs /\ s.retransmit_queue \in Seq(Tracked)
    BY <1>1 DEF Sockets
  <2>2. Len(s.retransmit_queue) \in Nat
    BY <2>1
  <2>3. TCP_SEND_WINDOW_SEGMENTS \in Nat
    BY TcpAssumption
  <2> HIDE DEF s
  <2> QED
    BY <1>3, <2>1, <2>2, <2>3
<1>10. PICK K \in Nat, j \in Nat : K = k /\ j = K + take
  BY <1>1, <1>6
<1>11. sent'[e] = j /\ j - Len(g.data) = K /\ j - take = K /\ j - take + 1 = K + 1 /\ K <= j
  BY <1>6, <1>7, <1>10
<1>12. Pos(e, s.send_seq) = K + 1 /\ SendPos(e, s) = K + 1 /\ ~(SendPos(e, s) = K + 2)
  <2>1. s.state \in Unfinished \ {"Open"}
    BY <1>4 DEF Unfinished
  <2>2. SendPos(e, s) = k + 1
    BY <1>1, <2>1, Zenon DEF Numbers
  <2>3. SendPos(e, s) = K + 1
    BY <1>10, <2>2, Zenon
  <2>4. ~(K + 1 = K + 2)
    OBVIOUS
  <2> QED
    BY <2>3, <2>4, Zenon DEF SendPos
<1>13. j + 2 < SeqSpace \div 2
  <2>1. sent'[e] + 2 < SeqSpace \div 2
    BY Zenon DEF ShortStreams
  <2> QED
    BY <1>11, <2>1, Zenon
<1>14. SendPos(e, n) = j + 1 /\ SendPos(e, n) - Len(g.data) = K + 1
  <2>1. PICK x \in Seqs : x = s.send_seq
    BY <1>9, Zenon
  <2>2. Pos(e, x) = K + 1
    BY <1>12, <2>1, Zenon
  <2>3. K + take + 2 < SeqSpace \div 2
    BY <1>10, <1>13, Zenon
  <2>4. Pos(e, Add(x, take)) = K + take + 1
    BY <1>6, <2>2, <2>3, PlaceAfter
  <2>5. SendPos(e, n) = j + 1
    BY <1>8, <1>10, <2>1, <2>4, Zenon DEF SendPos
  <2>6. j + 1 - take = K + 1
    BY <1>6, <1>10
  <2>7. Len(g.data) = take
    BY <1>6, Zenon
  <2>8. SendPos(e, n) - Len(g.data) = j + 1 - take
    BY <2>5, <2>7
  <2> QED
    BY <2>5, <2>6, <2>8, Zenon
<1>15. /\ RecvPos(e, n) = RecvPos(e, s) /\ (Valid(e, s, Lim(p)) <=> Valid(e, n, Lim(p)))
       /\ Reception(e, n, got[e], Gone(p), sent[p], Fin(p))
  BY <1>1, <1>8, ReceptionSame
<1>16. Valid(e, n, Lim(p))
  BY <1>1, <1>4, <1>15
<1>17. Carries(K + 1, g.data, j)
  <2>1. K + 1 >= 1 /\ K + 1 + take - 1 <= j
    BY <1>6, <1>10
  <2>2. ASSUME NEW i \in 1..take PROVE g.data[i] = K + 1 + i - 1
    <3>1. K + i = K + 1 + i - 1
      BY <1>6
    <3> QED
      BY <1>6, <1>10, <3>1, Zenon
  <2> QED
    BY <1>6, <2>1, <2>2, Zenon DEF Carries
<1>18. g.data # <<>> /\ g # NoSegment
  <2>1. g.data # <<>>
    BY <1>6
  <2> QED
    BY <2>1, NoSegmentIs, Zenon
<1>19. Fresh(e, n, j, Lim(p), g)
  <2>1. Pos(e, g.seq) = K + 1 /\ Pos(e, g.seq) = j - Len(g.data) + 1
    BY <1>6, <1>11, <1>12, Zenon
  <2>2. Pos(p, g.ack) = RecvPos(e, n)
    BY <1>6, <1>15, Zenon DEF RecvPos
  <2>3. 1 <= RecvPos(e, n) /\ RecvPos(e, n) \in Nat
    BY <1>7, <1>16, SockPos DEF Valid
  <2>4. 1 <= Pos(p, g.ack) /\ Pos(p, g.ack) <= RecvPos(e, n)
    BY <2>2, <2>3
  <2> QED
    BY <1>6, <1>14, <1>16, <1>17, <1>18, <2>1, <2>4, Zenon DEF Fresh
<1>20. Numbers(e, n, g, j, got[e], Lim(p))
  <2>1. n.state \notin {"Open", "SynSent", "SynReceived", "FinWait1", "FinWait2", "LastAck"}
    BY <1>4, <1>8
  <2> QED
    BY <1>14, <1>19, <2>1, Zenon DEF Numbers
<1>21. Further(e, s, K, K, Lim(p), n, j, K, Lim(p))
  <2>1. K <= K /\ RecvPos(e, s) <= RecvPos(e, n)
    BY <1>1, <1>15, SockPos
  <2> QED
    BY <1>8, <1>12, <1>15, <2>1, Zenon DEF Further
<1>22. Queue(e, n, g, j, Lim(p))
  <2>1. Queue(e, s, NoSegment, K, Lim(Peer(e))) /\ Lim(Peer(e)) \in Int
        /\ Further(e, s, K, K, Lim(Peer(e)), n, j, K, Lim(Peer(e)))
    BY <1>1, <1>3, <1>10, <1>21, Zenon
  <2>2. j \in Int /\ K \in Int
    OBVIOUS
  <2>3. PICK t \in Sockets : t = s
    BY <1>1, Zenon
  <2>4. Queue(e, t, NoSegment, K, Lim(Peer(e)))
        /\ Further(e, t, K, K, Lim(Peer(e)), n, j, K, Lim(Peer(e)))
        /\ Len(t.retransmit_queue) <= TCP_SEND_WINDOW_SEGMENTS
        /\ n.retransmit_queue = Track(t.retransmit_queue, g)
    BY <1>8, <1>9, <2>1, <2>3, Zenon
  <2> HIDE DEF s, k
  <2> QED
    BY <1>6, <1>7, <1>11, <1>18, <2>1, <2>2, <2>4, TrackQueue DEF p
<1>23. Own(e, n, g, j, got[e], Lim(p), Gone(p), sent[p], Fin(p))
  BY <1>15, <1>16, <1>20, <1>22, Zenon DEF Own
<1>24. Remembers(n, j, Val(p), Recv(p))
  <2>1. Val(p)
    <3>1. s.state \notin {"Open", "SynSent", "SynReceived", "Closed"}
      BY <1>4
    <3> QED
      BY <1>1, <3>1, Zenon DEF Remembers
  <2>2. ASSUME NEW b \in Nat \ {0}, Recv(p) <= b, b <= j PROVE Holds(n, b)
    <3>1. CASE b <= K
      <4>1. s.state \notin {"Open", "SynSent", "Closed"}
        BY <1>4
      <4>2. Holds(s, b)
        BY <1>1, <1>10, <2>2, <3>1, <4>1, Zenon DEF Remembers
      <4> HIDE DEF s
      <4> QED
        BY <1>6, <1>8, <1>9, <4>2, TrackHolds
    <3>2. CASE b > K
      <4>1. PICK i \in 1..take : i = b - K
        BY <1>6, <1>10, <2>2, <3>2
      <4>2. b = K + i
        BY <4>1
      <4>3. b \in ToSet(g.data)
        BY <1>6, <1>10, <4>2, Zenon DEF ToSet
      <4> HIDE DEF s
      <4> QED
        BY <1>6, <1>8, <1>9, <4>3, TrackHolds
    <3> QED
      BY <3>1, <3>2
  <2> QED
    BY <2>1, <2>2, Zenon DEF Remembers
<1>25. \A f \in net' \ net : "RST" \in f.flags \/ (f.to = p /\ Good(e, n, j, j - Len(g.data), Lim(p), f))
  BY <1>3, Zenon
<1>26. Gone(e) = K /\ Lim(e) = K + 1
  <2>1. Len(NoSegment.data) = 0
    BY NoSegmentIs
  <2>2. Len(unsent[e].data) = 0
    BY <1>3, <2>1, Zenon
  <2>3. Gone(e) = K - 0
    BY <1>1, <1>10, <2>2, Zenon
  <2>4. Lim(e) = K + 1 - 0
    <3>1. Lim(e) = SendPos(e, s) - Len(unsent[e].data)
      BY <1>1, Zenon
    <3> HIDE DEF s
    <3> QED
      BY <1>12, <2>2, <3>1
  <2> QED
    BY <2>3, <2>4
<1>27. Further(e, sock[e], sent[e], Gone(e), Lim(p), n, j, j - Len(g.data), Lim(p))
  BY <1>10, <1>11, <1>21, <1>26, Zenon
<1>28. Lim(e) <= SendPos(e, n) - Len(g.data)
  <2>1. K + 1 <= K + 1
    OBVIOUS
  <2> QED
    BY <1>14, <1>26, <2>1, Zenon
<1>29. n.state # "LastAck" /\ EndOf(e, n, got[e])
  BY <1>4, <1>8 DEF EndOf
<1> HIDE DEF s, k
<1> QED
  BY <1>2, <1>7, <1>11, <1>23, <1>24, <1>25, <1>27, <1>28, <1>29, NewStep DEF p

\* A reader takes what is queued.
LEMMA ReadSomeStream ==
  ASSUME TypeInv, StreamInv, NEW e \in Ends, ReadSome(e),
         Calm(e)
  PROVE  StreamInv'
<1> DEFINE p == Peer(e)
           s == sock[e]
           u == unsent[e]
           k == sent[e]
           q == s.receive_queue
<1>1. /\ s \in Sockets /\ u \in Segments /\ k \in Nat /\ got[e] \in Seq(Nat)
      /\ p \in Ends /\ Lim(p) \in Int /\ Gone(e) \in Nat /\ Lim(e) \in Int /\ Recv(p) \in Nat
      /\ Numbers(e, s, u, k, got[e], Lim(p)) /\ Queue(e, s, u, k, Lim(p))
      /\ Reception(e, s, got[e], Gone(p), sent[p], Fin(p)) /\ Remembers(s, k, Val(p), Recv(p))
      /\ s.state \notin {"Open", "SynSent", "Closed"} => Valid(e, s, Lim(p))
      /\ Gone(e) = k - Len(u.data) /\ Lim(e) = SendPos(e, s) - Len(u.data)
      /\ Len(u.data) \in Nat /\ SendPos(e, s) \in Nat
  BY InvParts
<1>2. /\ TypeInv' /\ LocalTo(e) /\ sock'[e] = [s EXCEPT !.receive_queue = <<>>]
      /\ unsent'[e] = u /\ sent'[e] = k /\ prog'[e] = prog[e] /\ got'[e] = got[e] \o q
  BY ReadSomeType
<1>3. q # <<>> /\ UNCHANGED net
  BY Zenon DEF ReadSome
<1>4. PICK n \in Sockets : n = [s EXCEPT !.receive_queue = <<>>]
  BY <1>2, CountsNext
<1>5. /\ n.receive_queue = <<>> /\ n.state = s.state /\ n.send_seq = s.send_seq /\ n.recv_seq = s.recv_seq
      /\ n.out_of_order_queue = s.out_of_order_queue /\ n.retransmit_queue = s.retransmit_queue
      /\ n.pending_fin_seq = s.pending_fin_seq /\ n.registered = s.registered /\ q \in Seq(Nat)
  BY <1>1, <1>4 DEF Sockets
<1>6. Onward(e, s, n, Lim(p)) /\ RecvPos(e, n) = RecvPos(e, s) /\ SendPos(e, n) = SendPos(e, s)
  BY <1>1, <1>5, SameOnward
<1>7. PICK h, c : h = got[e] /\ c = h \o q /\ c = got'[e] /\ h \in Seq(Nat)
  BY <1>1, <1>2, Zenon
<1>8. c \in Seq(Nat) /\ c \o <<>> = h \o q
  <2>1. c \in Seq(Nat)
    BY <1>2, <1>7, CountsNext
  <2>2. c \o <<>> = c
    BY <2>1
  <2> QED
    BY <1>7, <2>1, <2>2, Zenon
<1>9. s.state \notin {"Open", "SynSent", "SynReceived"}
  BY <1>1, <1>3, Zenon DEF Numbers
<1>10. Numbers(e, n, u, k, c, Lim(p))
  <2>1. u # NoSegment => Fresh(e, n, k, Lim(p), u)
    <3>1. ASSUME u # NoSegment PROVE Fresh(e, n, k, Lim(p), u)
      <4>1. Fresh(e, s, k, Lim(p), u)
        BY <1>1, <3>1, Zenon DEF Numbers
      <4> QED
        BY <1>1, <1>6, <4>1, FreshOn
    <3> QED
      BY <3>1
  <2> QED
    BY <1>1, <1>5, <1>6, <1>9, <2>1, Zenon DEF Numbers
<1>11. Queue(e, n, u, k, Lim(p))
  <2>1. Within(n.retransmit_queue, s.retransmit_queue)
    BY <1>5, WithinFacts, Zenon
  <2> QED
    BY <1>1, <1>6, <2>1, QueueOn
<1>12. Reception(e, n, c, Gone(p), sent[p], Fin(p))
  <2>1. c \o n.receive_queue = got[e] \o s.receive_queue
    BY <1>5, <1>7, <1>8, Zenon
  <2> QED
    BY <1>1, <1>5, <1>6, <2>1, Zenon DEF Reception
<1>13. Own(e, n, u, k, c, Lim(p), Gone(p), sent[p], Fin(p))
  <2>1. n.state \notin {"Open", "SynSent", "Closed"} => Valid(e, n, Lim(p))
    BY <1>1, <1>5, <1>6, Zenon DEF Onward
  <2> QED
    BY <1>10, <1>11, <1>12, <2>1, Zenon DEF Own
<1>14. Remembers(n, k, Val(p), Recv(p))
  BY <1>1, <1>5, CrossSame
<1>15. \A g \in net' \ net : "RST" \in g.flags \/ (g.to = p /\ Good(e, n, k, k - Len(u.data), Lim(p), g))
  BY <1>3, Zenon
<1>16. Further(e, sock[e], sent[e], Gone(e), Lim(p), n, k, k - Len(u.data), Lim(p))
  <2>1. Gone(e) \in Int
    BY <1>1
  <2>2. Further(e, s, k, Gone(e), Lim(p), n, k, Gone(e), Lim(p))
    BY <1>6, <2>1, OnwardFurther
  <2> QED
    BY <1>1, <2>2, Zenon
<1>17. Lim(e) <= SendPos(e, n) - Len(u.data)
  <2>1. Lim(e) <= Lim(e)
    BY <1>1
  <2> QED
    BY <1>1, <1>6, <2>1, Zenon
<1>18. n.state = "LastAck" => prog'[e] = <<>>
  BY <1>2, <1>5, Zenon DEF StreamInv, LastCall
<1>19. sock'[e] = n /\ got'[e] = c
  BY <1>2, <1>4, <1>7, Zenon
<1>20. EndOf(e, n, c)
  <2>1. c \o n.receive_queue = got[e] \o s.receive_queue
    BY <1>5, <1>7, <1>8, Zenon
  <2>2. EndInv(e) /\ aborted \subseteq aborted'
    BY Zenon DEF StreamInv, Calm
  <2> QED
    BY <1>5, <2>1, <2>2, Zenon DEF EndOf, EndInv
<1> HIDE DEF s, k, u
<1> QED
  BY <1>2, <1>13, <1>14, <1>15, <1>16, <1>17, <1>18, <1>19, <1>20, NewStep DEF p

\* The FIN takes the place after the last byte.
LEMMA FinStream ==
  ASSUME TypeInv, ShortStreams, StreamInv, NEW e \in Ends, NEW new, TypeInv', LocalTo(e),
         \/ sock[e].state = "Established" /\ new = "FinWait1"
         \/ sock[e].state = "CloseWait" /\ new = "LastAck" /\ prog'[e] = <<>>,
         SendFin(e, new), unsent[e] = NoSegment, sock'[e] = FinSock(e, sock[e], new),
         UNCHANGED <<unsent, sent, got>>,
         Calm(e)
  PROVE  StreamInv'
<1> DEFINE p == Peer(e)
           s == sock[e]
           k == sent[e]
<1>1. /\ s \in Sockets /\ k \in Nat /\ got[e] \in Seq(Nat)
      /\ p \in Ends /\ Lim(p) \in Int /\ Gone(e) \in Nat /\ Lim(e) \in Int /\ Recv(p) \in Nat
      /\ Numbers(e, s, unsent[e], k, got[e], Lim(p)) /\ Queue(e, s, unsent[e], k, Lim(p))
      /\ Reception(e, s, got[e], Gone(p), sent[p], Fin(p)) /\ Remembers(s, k, Val(p), Recv(p))
      /\ s.state \notin {"Open", "SynSent", "Closed"} => Valid(e, s, Lim(p))
      /\ Gone(e) = k - Len(unsent[e].data) /\ Lim(e) = SendPos(e, s) - Len(unsent[e].data)
      /\ SendPos(e, s) \in Nat
  BY InvParts
<1>2. s.state \in {"Established", "CloseWait"} /\ new \in {"FinWait1", "LastAck"}
  OBVIOUS
<1>3. PICK f : f = Segment(p, s.send_seq, s.recv_seq, {"FIN", "ACK"}, <<>>)
  BY Zenon
<1>4. f \in Segments /\ Len(s.retransmit_queue) <= TCP_SEND_WINDOW_SEGMENTS /\ net' = net \cup {f}
  <2>1. /\ f \in Segments /\ Len(s.retransmit_queue) <= TCP_SEND_WINDOW_SEGMENTS
    BY <1>2, <1>3, FinType
  <2> QED
    BY <1>3, <2>1, Zenon DEF SendFin
<1>5. f.to = p /\ f.seq = s.send_seq /\ f.ack = s.recv_seq /\ f.flags = {"FIN", "ACK"} /\ f.data = <<>>
  BY <1>3, SegmentIs
<1>6. PICK n \in Sockets : n = sock'[e]
  BY CountsNext
<1>7. /\ n.send_seq = Add(s.send_seq, 1) /\ n.retransmit_queue = Track(s.retransmit_queue, f)
      /\ n.state = new /\ n.recv_seq = s.recv_seq
      /\ n.receive_queue = s.receive_queue /\ n.out_of_order_queue = s.out_of_order_queue
      /\ n.pending_fin_seq = s.pending_fin_seq
  <2>1. n = [s EXCEPT !.state = new, !.send_seq = Add(@, 1), !.retransmit_queue = Track(@, f)]
    BY <1>3, <1>6, Zenon DEF FinSock
  <2> QED
    BY <1>1, <2>1 DEF Sockets
<1>8. s.send_seq \in Seqs /\ s.retransmit_queue \in Seq(Tracked)
  BY <1>1 DEF Sockets
<1>9. PICK K \in Nat : K = k
  BY <1>1, Zenon
<1>10. Pos(e, s.send_seq) = K + 1 /\ SendPos(e, s) = K + 1 /\ ~(SendPos(e, s) = K + 2)
  <2>1. s.state \in Unfinished \ {"Open"}
    BY <1>2 DEF Unfinished
  <2>2. SendPos(e, s) = k + 1
    BY <1>1, <2>1, Zenon DEF Numbers
  <2>3. SendPos(e, s) = K + 1
    BY <1>9, <2>2, Zenon
  <2>4. ~(K + 1 = K + 2)
    OBVIOUS
  <2> QED
    BY <2>3, <2>4, Zenon DEF SendPos
<1>11. SendPos(e, n) = K + 2
  <2>1. /\ SeqSpace \in Nat /\ SeqSpace \div 2 \in Nat /\ SeqSpace \div 2 <= SeqSpace
        /\ k + 2 < SeqSpace \div 2
    BY ShortFacts
  <2>2. K + 2 < SeqSpace \div 2
    BY <1>9, <2>1, Zenon
  <2>3. PICK x \in Seqs : x = s.send_seq
    BY <1>8, Zenon
  <2>4. Pos(e, x) = K + 1
    BY <1>10, <2>3, Zenon
  <2>5. 0 <= K + 1 + 1 /\ K + 1 + 1 < SeqSpace /\ 1 \in Int /\ K + 1 + 1 = K + 2
    BY <2>1, <2>2
  <2>6. 0 <= Pos(e, x) + 1 /\ Pos(e, x) + 1 < SeqSpace
    BY <2>4, <2>5, Zenon
  <2>7. Pos(e, Add(x, 1)) = Pos(e, x) + 1
    BY <2>5, <2>6, PosAdd
  <2> QED
    BY <1>7, <2>3, <2>4, <2>5, <2>7, Zenon DEF SendPos
<1>12. RecvPos(e, n) = RecvPos(e, s)
  BY <1>7, Zenon DEF RecvPos
<1>13. Valid(e, n, Lim(p)) /\ RecvPos(e, n) \in Nat /\ 1 <= RecvPos(e, n)
  <2>1. Valid(e, s, Lim(p)) /\ n.state \notin {"Open", "SynSent"}
    BY <1>1, <1>2, <1>7
  <2>2. Valid(e, n, Lim(p))
    BY <1>12, <2>1, Zenon DEF Valid
  <2> QED
    BY <2>2, SockPos DEF Valid
<1>14. Further(e, s, K, K, Lim(p), n, K, K, Lim(p))
  <2>1. K <= K /\ RecvPos(e, s) <= RecvPos(e, n) /\ n.state # "Open"
    BY <1>2, <1>7, <1>12, <1>13
  <2> QED
    BY <1>10, <1>13, <2>1, Zenon DEF Further
<1>15. "RST" \notin f.flags /\ Good(e, n, K, K, Lim(p), f)
  <2>1. f.flags \in {{"SYN"}, {"SYN", "ACK"}, {"ACK"}, {"FIN", "ACK"}} /\ "SYN" \notin f.flags /\ "RST" \notin f.flags
        /\ f.flags # {"SYN"}
    <3>1. {"FIN", "ACK"} # {"SYN"} /\ "SYN" \notin {"FIN", "ACK"} /\ "RST" \notin {"FIN", "ACK"}
      OBVIOUS
    <3> QED
      BY <1>5, <3>1, Zenon
  <2>2. Pos(p, f.ack) = RecvPos(e, n)
    BY <1>5, <1>12, Zenon DEF RecvPos
  <2>3. 1 <= Pos(p, f.ack) /\ Pos(p, f.ack) <= RecvPos(e, n)
    BY <1>13, <2>2
  <2>4. Pos(e, f.seq) = K + 1
    BY <1>5, <1>10, Zenon
  <2> QED
    BY <1>5, <1>11, <1>13, <2>1, <2>3, <2>4, Zenon DEF Good
<1>16. Numbers(e, n, NoSegment, K, got[e], Lim(p))
  <2>1. n.state \notin {"Open", "SynSent", "SynReceived"} /\ n.state \notin Unfinished
    BY <1>2, <1>7 DEF Unfinished
  <2> QED
    BY <1>11, <2>1, Zenon DEF Numbers
<1>17. Len(NoSegment.data) = 0 /\ K - Len(NoSegment.data) = K /\ K + 1 - Len(NoSegment.data) = K + 1
       /\ K + 2 - Len(NoSegment.data) = K + 2
  BY NoSegmentIs
<1>18. Queue(e, n, NoSegment, K, Lim(p))
  <2>1. Queue(e, s, NoSegment, K, Lim(Peer(e))) /\ Lim(Peer(e)) \in Int
        /\ Further(e, s, K, K, Lim(Peer(e)), n, K, K, Lim(Peer(e)))
    BY <1>1, <1>9, <1>14, Zenon
  <2>2. K \in Int
    OBVIOUS
  <2>3. PICK t \in Sockets : t = s
    BY <1>1, Zenon
  <2>4. Queue(e, t, NoSegment, K, Lim(Peer(e)))
        /\ Further(e, t, K, K, Lim(Peer(e)), n, K, K, Lim(Peer(e)))
        /\ Len(t.retransmit_queue) <= TCP_SEND_WINDOW_SEGMENTS
        /\ n.retransmit_queue = Track(t.retransmit_queue, f)
    BY <1>4, <1>7, <2>1, <2>3, Zenon
  <2>5. f.to = Peer(e) /\ Good(e, n, K, K, Lim(Peer(e)), f)
    BY <1>5, <1>15, Zenon
  <2> HIDE DEF s, k
  <2> QED
    BY <1>4, <1>15, <1>17, <2>1, <2>2, <2>4, <2>5, TrackQueue DEF p
<1>19. Reception(e, n, got[e], Gone(p), sent[p], Fin(p))
  <2>1. CASE s.state = "Established"
    <3>1. n.state = "FinWait1"
      BY <1>7, <2>1
    <3> QED
      BY <1>1, <1>7, <1>12, <2>1, <3>1, Zenon DEF Reception
  <2>2. CASE s.state = "CloseWait"
    <3>1. n.state = "LastAck"
      BY <1>7, <2>2
    <3> QED
      BY <1>1, <1>7, <1>12, <2>2, <3>1, Zenon DEF Reception
  <2> QED
    BY <1>2, <2>1, <2>2
<1>20. Own(e, n, NoSegment, K, got[e], Lim(p), Gone(p), sent[p], Fin(p))
  BY <1>13, <1>16, <1>18, <1>19, Zenon DEF Own
<1>21. Remembers(n, K, Val(p), Recv(p))
  <2>1. s.state \notin {"Open", "SynSent", "SynReceived", "Closed"}
    BY <1>2
  <2>2. Val(p)
    BY <1>1, <2>1, Zenon DEF Remembers
  <2>3. ASSUME NEW b \in Nat \ {0}, Recv(p) <= b, b <= K PROVE Holds(n, b)
    <3>1. Holds(s, b)
      BY <1>1, <1>9, <2>1, <2>3, Zenon DEF Remembers
    <3> HIDE DEF s
    <3> QED
      BY <1>4, <1>7, <1>8, <3>1, TrackHolds
  <2> QED
    BY <2>2, <2>3, Zenon DEF Remembers
<1>22. \A g \in net' \ net : "RST" \in g.flags \/ (g.to = p /\ Good(e, n, K, K - Len(NoSegment.data), Lim(p), g))
  BY <1>4, <1>5, <1>15, <1>17, Zenon
<1>23. Gone(e) = K /\ Lim(e) = K + 1
  <2>1. Len(unsent[e].data) = 0
    BY <1>17, Zenon
  <2>2. Gone(e) = K - 0
    BY <1>1, <1>9, <2>1, Zenon
  <2>3. Lim(e) = K + 1 - 0
    <3>1. Lim(e) = SendPos(e, s) - Len(unsent[e].data)
      BY <1>1, Zenon
    <3> HIDE DEF s
    <3> QED
      BY <1>10, <2>1, <3>1
  <2> QED
    BY <2>2, <2>3
<1>24. Further(e, sock[e], sent[e], Gone(e), Lim(p), n, K, K - Len(NoSegment.data), Lim(p))
  BY <1>9, <1>14, <1>17, <1>23, Zenon
<1>25. Lim(e) <= SendPos(e, n) - Len(NoSegment.data)
  <2>1. K + 1 <= K + 2
    OBVIOUS
  <2>2. SendPos(e, n) - Len(NoSegment.data) = K + 2
    BY <1>11, <1>17
  <2> QED
    BY <1>23, <2>1, <2>2, Zenon
<1>26. n.state = "LastAck" => prog'[e] = <<>>
  BY <1>7
<1>28. EndOf(e, n, got[e])
  BY <1>2, <1>7 DEF EndOf
<1>27. sock'[e] = n /\ unsent'[e] = NoSegment /\ sent'[e] = K /\ got'[e] = got[e]
  BY <1>6, <1>9
<1> HIDE DEF s, k
<1> QED
  BY <1>20, <1>21, <1>22, <1>24, <1>25, <1>26, <1>27, <1>28, NewStep DEF p

\* shutdown of the sending side.
LEMMA ShutdownStream ==
  ASSUME TypeInv, SendingInv, ShortStreams, StreamInv, NEW e \in Ends, Shutdown(e),
         Calm(e)
  PROVE  StreamInv'
<1>1. /\ TypeInv' /\ LocalTo(e)
      /\ sock'[e] = IF sock[e].state = "Established" THEN FinSock(e, sock[e], "FinWait1") ELSE sock[e]
  BY ShutdownType
<1>2. /\ prog[e] # <<>> /\ unsent[e] = NoSegment /\ UNCHANGED <<unsent, sent, got>>
      /\ IF sock[e].state = "Established" THEN SendFin(e, "FinWait1") ELSE UNCHANGED <<sock, net>>
  BY NotSending, Zenon DEF Shutdown, At
<1>3. CASE sock[e].state = "Established"
  BY <1>1, <1>2, <1>3, FinStream
<1>4. CASE sock[e].state # "Established"
  <2>1. UNCHANGED <<sock, net>>
    BY <1>2, <1>4, Zenon
  <2>2. sock'[e] = sock[e] /\ unsent'[e] = unsent[e] /\ sent'[e] = sent[e] /\ got'[e] = got[e]
        /\ \A g \in net' \ net : "RST" \in g.flags
    BY <1>2, <2>1
  <2> QED
    BY <1>1, <1>2, <2>2, IdleStep
<1> QED
  BY <1>3, <1>4

\* A close that ends the connection at once.
LEMMA EndStream ==
  ASSUME TypeInv, TypeInv', StreamInv, NEW e \in Ends, LocalTo(e), sock[e].state # "Open",
         sock'[e] = EndedSock(sock[e]), UNCHANGED <<net, unsent, sent, got>>,
         Calm(e), e \in aborted'
  PROVE  StreamInv'
<1>1. PICK s \in Sockets : s = sock[e]
  BY EndTypes
<1>2. PICK n \in Sockets : n = sock'[e]
  BY CountsNext
<1>3. /\ n.state = "Closed" /\ n.receive_queue = <<>> /\ n.out_of_order_queue = <<>>
      /\ n.retransmit_queue = <<>> /\ n.pending_fin_seq = NoFin /\ n.send_seq = s.send_seq
      /\ n.recv_seq = s.recv_seq
  <2>1. n = EndedSock(s)
    BY <1>1, <1>2, Zenon
  <2> QED
    BY <2>1 DEF EndedSock, Sockets
<1>4. Onward(e, s, n, Lim(Peer(e)))
  <2>1. n.state \notin {"Open", "SynSent"}
    BY <1>3
  <2> QED
    BY <1>3, <2>1, SameOnward
<1>5. Within(n.retransmit_queue, s.retransmit_queue)
  BY <1>3, WithinFacts, Zenon
<1>6. /\ n.receive_queue \in {sock[e].receive_queue, <<>>}
      /\ n.out_of_order_queue \in {sock[e].out_of_order_queue, <<>>}
      /\ n.pending_fin_seq \in {sock[e].pending_fin_seq, NoFin}
      /\ Onward(e, sock[e], n, Lim(Peer(e))) /\ Within(n.retransmit_queue, sock[e].retransmit_queue)
  BY <1>1, <1>3, <1>4, <1>5, Zenon
<1>7. /\ unsent'[e] = unsent[e] /\ sent'[e] = sent[e] /\ got'[e] = got[e] /\ net' \ net = {}
  OBVIOUS
<1> QED
  BY <1>2, <1>3, <1>6, <1>7, ClosedStep

\* close.
LEMMA CloseStream ==
  ASSUME TypeInv, SendingInv, ShortStreams, StreamInv, NEW e \in Ends, Close(e),
         Calm(e)
  PROVE  StreamInv'
<1>1. /\ TypeInv' /\ LocalTo(e)
      /\ sock'[e] = IF sock[e].state = "Established" THEN FinSock(e, sock[e], "FinWait1")
                    ELSE IF sock[e].state = "CloseWait" THEN FinSock(e, sock[e], "LastAck")
                    ELSE IF sock[e].state = "Closed" THEN sock[e] ELSE EndedSock(sock[e])
  BY CloseType
<1>2. /\ prog[e] # <<>> /\ Head(prog[e]).op = "close" /\ unsent[e] = NoSegment /\ sock[e].state # "Open"
      /\ NextCall(e) /\ UNCHANGED <<unsent, sent, got>>
      /\ IF sock[e].state = "Established" THEN SendFin(e, "FinWait1")
         ELSE IF sock[e].state = "CloseWait" THEN SendFin(e, "LastAck")
         ELSE IF sock[e].state = "Closed" THEN UNCHANGED <<sock, net>>
         ELSE UNCHANGED net
  BY NotSending, Zenon DEF Close, At
<1>3. prog'[e] = <<>>
  BY <1>2, NextCallType
<1>4. CASE sock[e].state = "Established"
  BY <1>1, <1>2, <1>4, FinStream
<1>5. CASE sock[e].state = "CloseWait"
  <2>1. sock'[e] = FinSock(e, sock[e], "LastAck") /\ SendFin(e, "LastAck")
    BY <1>1, <1>2, <1>5
  <2> QED
    BY <1>1, <1>2, <1>3, <1>5, <2>1, FinStream
<1>6. CASE sock[e].state = "Closed"
  <2>1. UNCHANGED <<sock, net>>
    BY <1>2, <1>6
  <2>2. sock'[e] = sock[e] /\ unsent'[e] = unsent[e] /\ sent'[e] = sent[e] /\ got'[e] = got[e]
        /\ \A g \in net' \ net : "RST" \in g.flags
    BY <1>2, <2>1
  <2> QED
    BY <1>1, <1>2, <2>2, IdleStep
<1>7. CASE sock[e].state \notin {"Established", "CloseWait", "Closed"}
  <2>1. sock'[e] = EndedSock(sock[e]) /\ UNCHANGED <<net, unsent, sent, got>>
    BY <1>1, <1>2, <1>7
  <2>2. e \in aborted'
    BY <1>7, Zenon DEF Close
  <2> QED
    BY <1>1, <1>2, <2>1, <2>2, EndStream
<1> QED
  BY <1>4, <1>5, <1>6, <1>7

-----------------------------------------------------------------------------
(* The invariant of the streams *)

\* Two sockets that have not started.
LEMMA InitStream ==
  ASSUME Init
  PROVE  StreamInv
<1>1. TypeInv
  BY InitType
<1>2. ASSUME NEW e \in Ends
      PROVE  OwnInv(e) /\ CrossInv(e) /\ LastCall(e) /\ EndInv(e) /\ LeftInv(e)
  <2>1. sock[e] = NewSocket(e) /\ unsent[e] = NoSegment /\ sent[e] = 0 /\ got[e] = <<>>
    BY Zenon DEF Init
  <2>2. PICK s \in Sockets : s = sock[e]
    BY <1>1, EndTypes
  <2>3. /\ s.state = "Open" /\ s.send_seq = Iss[e] /\ s.receive_queue = <<>> /\ s.out_of_order_queue = <<>>
        /\ s.retransmit_queue = <<>> /\ s.pending_fin_seq = NoFin /\ s.registered = FALSE
    BY <2>1, <2>2 DEF NewSocket
  <2>4. SendPos(e, s) = 0
    <3>1. PICK x \in Seqs : x = Iss[e]
      BY SpaceFacts
    <3>2. Pos(e, x) = IF x >= Iss[e] THEN x - Iss[e] ELSE x - Iss[e] + SeqSpace
      BY PosFacts
    <3>3. Pos(e, x) = 0
      BY <3>1, <3>2, SpaceFacts DEF Seqs
    <3> QED
      BY <2>3, <3>1, <3>3, Zenon DEF SendPos
  <2>5. Numbers(e, s, NoSegment, 0, <<>>, Lim(Peer(e)))
    <3>1. s.state \notin {"FinWait1", "FinWait2", "LastAck"}
      BY <2>3
    <3> QED
      BY <2>3, <2>4, <3>1, Zenon DEF Numbers
  <2>6. DOMAIN s.retransmit_queue = {} /\ DOMAIN s.out_of_order_queue = {}
    BY <2>3
  <2>7. Queue(e, s, NoSegment, 0, Lim(Peer(e)))
    BY <2>6, Zenon DEF Queue
  <2>8. Reception(e, s, <<>>, Gone(Peer(e)), sent[Peer(e)], Fin(Peer(e)))
    <3>1. <<>> \o <<>> = <<>> /\ Len(<<>>) = 0 /\ <<>> \in Seq(Nat) /\ 0 \in Nat
      OBVIOUS
    <3>2. <<>> = Bytes(0)
      BY DEF Bytes
    <3>3. s.state \notin {"SynReceived", "Established", "FinWait1", "FinWait2", "CloseWait", "LastAck"}
      BY <2>3
    <3>4. <<>> \o s.receive_queue = Bytes(Len(<<>> \o s.receive_queue))
      BY <2>3, <3>1, <3>2, Zenon
    <3> QED
      BY <2>3, <2>6, <3>3, <3>4, Zenon DEF Reception
  <2>9. OwnInv(e)
    <3>1. s.state \in {"Open", "SynSent", "Closed"}
      BY <2>3
    <3> QED
      BY <2>1, <2>2, <2>5, <2>7, <2>8, <3>1, Zenon DEF OwnInv, Own
  <2>10. CrossInv(e)
    <3>1. ~(0 > 0)
      OBVIOUS
    <3> QED
      BY <2>1, <2>2, <2>3, <3>1, Zenon DEF CrossInv, Remembers
  <2>11. LastCall(e)
    BY <2>2, <2>3 DEF LastCall
  <2>12. EndInv(e)
    BY <2>2, <2>3 DEF EndInv
  <2>13. LeftInv(e)
    BY Zenon DEF LeftInv, Init
  <2> QED
    BY <2>9, <2>10, <2>11, <2>12, <2>13
<1>3. \A m \in net : Sent(Peer(m.to), m)
  BY Zenon DEF Init
<1> QED
  BY <1>2, <1>3, Zenon DEF StreamInv

\* Nothing happens.
LEMMA StutterStream ==
  ASSUME TypeInv, StreamInv, UNCHANGED vars
  PROVE  StreamInv'
<1>1. UNCHANGED <<sock, net, prog, sending, unsent, sent, got, aborted>>
  BY Zenon DEF vars, appVars, fate
<1> QED
  BY <1>1, Zenon DEF StreamInv, OwnInv, CrossInv, LastCall, EndInv, LeftInv, Sent, Gone, Lim, Fin, Val, Recv

\* A step that leaves alone what is being sent.
LEMMA CalmSame ==
  ASSUME NEW e, aborted \subseteq aborted', UNCHANGED <<sending, unsent>>
  PROVE  Calm(e)
BY Zenon DEF Calm

\* A call that sends, or has sent.
LEMMA CalmSend ==
  ASSUME TypeInv, SendingInv, NEW e \in Ends, SendTrack(e) \/ SendOk(e) \/ SendFail(e),
         aborted \subseteq aborted'
  PROVE  Calm(e)
<1>1. PICK g : sending' = [sending EXCEPT ![e] = g] /\ unsent' = [unsent EXCEPT ![e] = g]
  BY Zenon DEF SendTrack, SendOk, SendFail, SendReturns
<1>2. sending \in [Ends -> Segments] /\ unsent \in [Ends -> Segments] /\ Peer(e) \in Ends /\ Peer(e) # e
  BY PeerFacts, EndTypes DEF SendingInv, TypeInv
<1>3. sending'[e] = g /\ unsent'[e] = g /\ sending'[Peer(e)] = sending[Peer(e)]
  BY <1>1, <1>2
<1> QED
  BY <1>3, Zenon DEF Calm

\* A received segment.
LEMMA CalmRcv ==
  ASSUME NEW m, Rcv(m), aborted \subseteq aborted'
  PROVE  Calm(m.to)
<1>1. UNCHANGED <<sending, unsent>>
  BY Zenon DEF Rcv, RcvListen, RcvReset, RcvSynSent, RcvSynReceived, RcvEstablished, RcvFinWait1,
     RcvFinWait2, RcvHalfClosed, RcvLastAck, RcvIgnored, RcvUnmatched, Receive, appVars
<1> QED
  BY <1>1, CalmSame

\* Every step keeps the streams.
LEMMA NextStream ==
  ASSUME TypeInv, SendingInv, ShortStreams, ShortStreams', StreamInv, Next, ~escaped'
  PROVE  StreamInv'
<1>1. Client \in Ends /\ Server \in Ends
  BY Zenon DEF Ends
<1>2. aborted \subseteq aborted'
  BY NextSending
<1>3. CASE Connect \/ ConnectFail \/ ConnectAgain \/ ConnectDone \/ ConnectTimeout \/ Accept
  <2>1. UNCHANGED <<sending, unsent>>
    BY <1>3, Zenon DEF Connect, ConnectFail, ConnectAgain, ConnectDone, ConnectTimeout, Accept
  <2>2. Calm(Client) /\ Calm(Server)
    BY <1>2, <2>1, CalmSame
  <2> QED
    BY <1>1, <1>3, <2>2, ConnectStream, ConnectFailStream, ReturnsStream, ConnectTimeoutStream,
       ConnectDoneStream
<1>4. ASSUME NEW e \in Ends, App(e) \/ PollClosed(e) \/ PmtuUpdate(e)
      PROVE  StreamInv'
  <2>1. CASE SendTrack(e) \/ SendOk(e) \/ SendFail(e)
    <3>1. Calm(e)
      BY <1>2, <2>1, CalmSend
    <3> QED
      BY <2>1, <3>1, SendTrackStream, SendOkStream, SendFailStream
  <2>2. CASE \/ SendBegin(e) \/ SendRefused(e) \/ SendTimeout(e) \/ ReadSome(e) \/ ReadEof(e)
             \/ Shutdown(e) \/ Close(e) \/ PollClosed(e) \/ PmtuUpdate(e)
    <3>1. UNCHANGED <<sending, unsent>>
      BY <2>2, Zenon DEF SendBegin, SendRefused, SendTimeout, ReadSome, ReadEof, Shutdown, Close,
         PollClosed, PmtuUpdate, appVars
    <3>2. Calm(e)
      BY <1>2, <3>1, CalmSame
    <3> QED
      BY <2>2, <3>2, SendBeginStream, SendRefusedStream, ReadSomeStream, ReturnsStream, ShutdownStream,
         CloseStream, PollClosedStream, PmtuUpdateStream
  <2> QED
    BY <1>4, <2>1, <2>2, Zenon DEF App
<1>5. ASSUME NEW m \in net, Rcv(m)
      PROVE  StreamInv'
  <2>1. Calm(m.to)
    BY <1>2, <1>5, CalmRcv
  <2> QED
    BY <1>5, <2>1, RcvListenStream, RcvResetStream, RcvSynSentStream, RcvSynReceivedStream,
       RcvEstablishedStream, RcvFinWaitStream, RcvLastAckStream, RcvIgnoredStream, RcvUnmatchedStream DEF Rcv
<1> QED
  BY <1>3, <1>4, <1>5, RetransmitStream, Zenon DEF Next

\* The bytes before a place.
LEMMA BytesBefore ==
  ASSUME NEW e \in Ends, NEW x \in Seqs
  PROVE  /\ (x - Iss[e] - 1) % SeqSpace \in Nat
         /\ Pos(e, x) >= 1 => (x - Iss[e] - 1) % SeqSpace = Pos(e, x) - 1
<1>1. PICK i \in Seqs : i = Iss[e]
  BY SpaceFacts
<1>2. SeqSpace \in Nat /\ SeqSpace > 1
  BY SpaceFacts
<1>3. Pos(e, x) = IF x >= i THEN x - i ELSE x - i + SeqSpace
  BY <1>1, PosFacts
<1>4. PICK a \in Int : a = x - i - 1
  BY DEF Seqs
<1>5. /\ Mod(a) \in Seqs
      /\ 0 <= a /\ a < SeqSpace => Mod(a) = a
      /\ 0 - SeqSpace <= a /\ a < 0 => Mod(a) = a + SeqSpace
  BY ModFacts
<1>6. Mod(a) \in Nat
  BY <1>5 DEF Seqs
<1>7. (x - Iss[e] - 1) % SeqSpace = Mod(a)
  BY <1>1, <1>4, Zenon DEF Mod
<1>8. ASSUME Pos(e, x) >= 1 PROVE Mod(a) = Pos(e, x) - 1
  <2>1. PICK y \in Int : y = Pos(e, x)
    <3>1. Pos(e, x) \in Nat
      BY PosFacts
    <3> QED
      BY <3>1
  <2>2. y >= 1 /\ y = IF x >= i THEN x - i ELSE x - i + SeqSpace
    BY <1>3, <1>8, <2>1, Zenon
  <2>3. Mod(a) = y - 1
    <3> HIDE DEF Mod
    <3> QED
      BY <1>2, <1>4, <1>5, <2>2 DEF Seqs
  <2> QED
    BY <2>1, <2>3
<1> QED
  BY <1>6, <1>7, <1>8, Zenon

\* recv_seq, as a count of bytes.
LEMMA ReceivedIs ==
  ASSUME TypeInv, NEW e \in Ends
  PROVE  LET k == sent[Peer(e)]
         IN /\ Received(e) \in Nat /\ k \in Nat /\ Received(e) <= k /\ Recv(e) \in Nat
            /\ Recv(e) >= 1 => Received(e) = IF Recv(e) - 1 <= k THEN Recv(e) - 1 ELSE k
<1>1. Peer(e) \in Ends
  BY PeerFacts
<1>2. PICK k \in Nat : k = sent[Peer(e)]
  BY <1>1, Counts
<1>3. PICK x \in Seqs : x = sock[e].recv_seq
  <2>1. sock[e] \in Sockets
    BY Counts
  <2> QED
    BY <2>1 DEF Sockets
<1>4. PICK y \in Nat : y = Pos(Peer(e), x) /\ y = Recv(e)
  <2>1. Pos(Peer(e), x) \in Nat
    BY <1>1, PosFacts
  <2> QED
    BY <1>3, <2>1, Zenon DEF Recv, RecvPos
<1>5. PICK b \in Nat : b = (x - Iss[Peer(e)] - 1) % SeqSpace /\ (y >= 1 => b = y - 1)
  <2>1. /\ (x - Iss[Peer(e)] - 1) % SeqSpace \in Nat
        /\ Pos(Peer(e), x) >= 1 => (x - Iss[Peer(e)] - 1) % SeqSpace = Pos(Peer(e), x) - 1
    BY <1>1, BytesBefore
  <2> QED
    BY <1>4, <2>1, Zenon
<1>6. Received(e) = Min({b, k})
  BY <1>2, <1>3, <1>5, Zenon DEF Received
<1>7. Min({b, k}) = IF b <= k THEN b ELSE k
  BY MinTwo
<1>8. Received(e) \in Nat /\ Received(e) <= k /\ (y >= 1 => Received(e) = IF y - 1 <= k THEN y - 1 ELSE k)
  BY <1>5, <1>6, <1>7
<1> QED
  BY <1>2, <1>4, <1>8, Zenon

\* What has been received in order, in each state.
LEMMA ReceptionIs ==
  ASSUME TypeInv, StreamInv, NEW e \in Ends
  PROVE  LET c == got[e] \o sock[e].receive_queue
         IN /\ c = Bytes(Len(c))
            /\ Connected(e) /\ sock[e].state # "Closed" => Len(c) = Received(e)
            /\ sock[e].state \in {"CloseWait", "LastAck"} => Len(c) = sent[Peer(e)]
<1> DEFINE p == Peer(e)
           s == sock[e]
           c == got[e] \o s.receive_queue
<1>1. /\ s \in Sockets /\ Gone(p) \in Nat /\ p \in Ends
      /\ Reception(e, s, got[e], Gone(p), sent[p], Fin(p))
      /\ s.state \notin {"Open", "SynSent", "Closed"} => Valid(e, s, Lim(p))
  BY InvParts
<1>2. sent[p] \in Nat /\ Gone(p) <= sent[p]
  BY <1>1, Counts
<1>3. /\ Received(e) \in Nat
      /\ Recv(e) >= 1 => Received(e) = IF Recv(e) - 1 <= sent[p] THEN Recv(e) - 1 ELSE sent[p]
  BY ReceivedIs
<1>4. PICK k \in Nat, G \in Nat, y \in Nat : k = sent[p] /\ G = Gone(p) /\ y = Recv(e) /\ y = RecvPos(e, s)
  BY <1>1, <1>2, ReceivedIs, Zenon DEF Recv
<1>5. G <= k /\ (y >= 1 => Received(e) = IF y - 1 <= k THEN y - 1 ELSE k)
  BY <1>2, <1>3, <1>4, Zenon
<1>6. c = Bytes(Len(c))
  BY <1>1, Zenon DEF Reception
<1>7. CASE s.state \in {"CloseWait", "LastAck"}
  <2>1. Len(c) = k /\ y = k + 2
    BY <1>1, <1>4, <1>7, Zenon DEF Reception
  <2>2. Received(e) = k
    BY <1>5, <2>1
  <2> QED
    BY <1>4, <1>6, <2>1, <2>2, Zenon
<1>8. CASE s.state \in {"SynReceived", "Established", "FinWait1", "FinWait2"}
  <2>1. Len(c) = y - 1 /\ y <= G + 1
    BY <1>1, <1>4, <1>8, Zenon DEF Reception
  <2>2. y >= 1
    <3>1. Valid(e, s, Lim(p))
      BY <1>1, <1>8
    <3>2. 1 <= RecvPos(e, s)
      BY <3>1, Zenon DEF Valid
    <3>3. 1 <= y
      BY <1>4, <3>2, Zenon
    <3> QED
      BY <3>3
  <2>3. Received(e) = y - 1
    BY <1>5, <2>1, <2>2
  <2>4. s.state \notin {"CloseWait", "LastAck"}
    BY <1>8
  <2> QED
    BY <1>6, <2>1, <2>3, <2>4, Zenon
<1>9. CASE s.state \in {"Open", "SynSent", "Closed"}
  <2>1. s.state \notin {"CloseWait", "LastAck"} /\ ~(Connected(e) /\ s.state # "Closed")
    BY <1>9 DEF Connected
  <2> QED
    BY <1>6, <2>1, Zenon
<1>10. s.state \in States
  BY <1>1 DEF Sockets
<1> QED
  BY <1>7, <1>8, <1>9, <1>10 DEF States

\* What has not been received is tracked.
LEMMA HeldIs ==
  ASSUME TypeInv, StreamInv, NEW e \in Ends, Connected(e), sock[e].state # "Closed",
         NEW b \in (Received(Peer(e)) + 1)..sent[e]
  PROVE  Holds(sock[e], b)
<1> DEFINE p == Peer(e)
<1>1. p \in Ends /\ Peer(p) = e /\ sent[e] \in Nat /\ Remembers(sock[e], sent[e], Val(p), Recv(p))
  BY InvParts, PeerFacts
<1>2. PICK k \in Nat : k = sent[e]
  BY <1>1
<1>3. PICK y \in Nat, r \in Nat : /\ y = Recv(p) /\ r = Received(p)
                                  /\ r <= k /\ (y >= 1 => r = IF y - 1 <= k THEN y - 1 ELSE k)
  <2>1. /\ Received(p) \in Nat /\ Received(p) <= sent[Peer(p)] /\ Recv(p) \in Nat
        /\ Recv(p) >= 1 => Received(p) = IF Recv(p) - 1 <= sent[Peer(p)] THEN Recv(p) - 1 ELSE sent[Peer(p)]
    BY <1>1, ReceivedIs
  <2> QED
    BY <1>1, <1>2, <2>1, Zenon
<1>4. b \in (r + 1)..k
  BY <1>2, <1>3, Zenon
<1>5. b \in Nat \ {0} /\ y <= b /\ b <= k
  BY <1>3, <1>4
<1>6. sock[e].state \notin {"Open", "SynSent", "Closed"}
  BY DEF Connected
<1> QED
  BY <1>1, <1>2, <1>3, <1>5, <1>6, Zenon DEF Remembers

\* The three properties, from the invariant.
LEMMA StreamImplied ==
  ASSUME TypeInv, ~escaped => StreamInv
  PROVE  PrefixDelivered /\ EofAfterAllData /\ NothingForgotten
<1>1. PrefixDelivered
  BY ReceptionIs, Zenon DEF PrefixDelivered
<1>2. ASSUME StreamInv, NEW e \in Ends \ aborted, sock[e].state \in {"CloseWait", "LastAck", "Closed"}
      PROVE  Len(got[e] \o sock[e].receive_queue) = sent[Peer(e)]
  <2>1. CASE sock[e].state \in {"CloseWait", "LastAck"}
    BY <1>2, <2>1, ReceptionIs
  <2>2. CASE sock[e].state = "Closed"
    BY <1>2, <2>2, Zenon DEF StreamInv, EndInv
  <2> QED
    BY <1>2, <2>1, <2>2
<1>3. EofAfterAllData
  BY <1>2, Zenon DEF EofAfterAllData
<1>4. NothingForgotten
  BY HeldIs, Zenon DEF NothingForgotten, Holds
<1> QED
  BY <1>1, <1>3, <1>4

\* The invariants hold.
LEMMA StreamInvariant ==
  Spec /\ []ShortStreams => [](TypeInv /\ SendingInv /\ (~escaped => StreamInv))
<1>1. Init => TypeInv /\ SendingInv /\ (~escaped => StreamInv)
  BY InitType, InitSending, InitStream
<1>2. TypeInv /\ SendingInv /\ (~escaped => StreamInv) /\ ShortStreams /\ ShortStreams' /\ [Next]_vars
        => (TypeInv /\ SendingInv /\ (~escaped => StreamInv))'
  <2>1. ASSUME TypeInv, SendingInv, ~escaped => StreamInv, ShortStreams, ShortStreams', Next
        PROVE  TypeInv' /\ SendingInv' /\ (~escaped' => StreamInv')
    <3>1. TypeInv' /\ SendingInv' /\ (escaped => escaped')
      BY <2>1, NextType, NextSending
    <3>2. ASSUME ~escaped' PROVE StreamInv'
      BY <2>1, <3>1, <3>2, NextStream
    <3> QED
      BY <3>1, <3>2
  <2>2. ASSUME TypeInv, SendingInv, ~escaped => StreamInv, UNCHANGED vars
        PROVE  TypeInv' /\ SendingInv' /\ (~escaped' => StreamInv')
    <3>1. TypeInv' /\ SendingInv' /\ escaped' = escaped
      BY <2>2, StutterType, StutterSending DEF vars, fate
    <3>2. ASSUME ~escaped' PROVE StreamInv'
      BY <2>2, <3>1, <3>2, StutterStream
    <3> QED
      BY <3>1, <3>2
  <2> QED
    BY <2>1, <2>2
<1> QED
  BY <1>1, <1>2, PTL DEF Spec

\* ingest_payload and drain_out_of_order deliver the peer's stream: what has been
\* read and what waits is its first bytes, as many as recv_seq acknowledges,
\* whatever is lost, repeated, reordered, sent again in other pieces or before its
\* send has returned, or rolled back after a failed send, for every initial sequence
\* number and thus across its wrap.  It holds until a segment whose send failed is in
\* the network after all, from the neighbour's queue or by a retransmission (escaped).
THEOREM DeliversThePrefix == Spec /\ []ShortStreams => []PrefixDelivered
BY StreamInvariant, StreamImplied, PTL

\* ack_retransmit_queue retires no byte that the peer has not received: what an
\* open connection has accepted is with the peer or still tracked, as long as no
\* segment whose send failed is in the network.
THEOREM ForgetsNothing == Spec /\ []ShortStreams => []NothingForgotten
BY StreamInvariant, StreamImplied, PTL

\* CloseWait, LastAck and Closed, in which read returns 0 once the receive queue is
\* empty, are entered when all bytes of the peer have been received, by the peer's
\* FIN in every state that takes one (Established, FinWait1, FinWait2); or else the
\* connection was reset, given up or closed by its own end (aborted).
THEOREM EofComesLast == Spec /\ []ShortStreams => []EofAfterAllData
BY StreamInvariant, StreamImplied, PTL

-----------------------------------------------------------------------------
(* The acknowledgement of the FIN *)

\* The FIN of e is taken for acknowledged.
Finished(e) ==
  \/ sock[e].state = "FinWait1" /\ sock'[e].state = "FinWait2"
  \/ sock[e].state = "LastAck" /\ sock'[e].state = "Closed" /\ sock'[e].so_error = "none"

\* A segment has come that acknowledges it.
AckedFin(e) == \E m \in net : m.to = e /\ "RST" \notin m.flags /\ FinAcked(m, Acked(m))

\* Sockets of a step that does not finish.
LEMMA NotFinished ==
  ASSUME NEW e, \/ sock'[e].state = sock[e].state
                \/ sock[e].state \notin {"FinWait1", "LastAck"}
                \/ sock'[e].state \notin {"FinWait2", "Closed"}
                \/ sock'[e].state = "Closed" /\ sock'[e].so_error # "none"
  PROVE  ~Finished(e)
BY DEF Finished

\* Neither does a step of the other end.
LEMMA OtherNotFinished ==
  ASSUME NEW x \in Ends, LocalTo(x), NEW e \in Ends, Finished(e)
  PROVE  x = e
<1>1. ASSUME x # e PROVE FALSE
  <2>1. sock'[e] = sock[e]
    BY <1>1, Still
  <2> QED
    BY <2>1, NotFinished
<1> QED
  BY <1>1

\* No call of an application does.
LEMMA AppNotFinished ==
  ASSUME TypeInv, SendingInv, StreamInv, NEW e \in Ends, App(e)
  PROVE  ~Finished(e) /\ LocalTo(e)
<1>1. sock[e] \in Sockets
  BY EndTypes
<1>2. CASE SendBegin(e) \/ SendTimeout(e) \/ SendOk(e) \/ ReadEof(e)
  <2>1. sock'[e] = sock[e] /\ LocalTo(e)
    BY <1>2, SendBeginType, SendTimeoutType, SendOkType, ReturnsType
  <2> QED
    BY <2>1, NotFinished
<1>3. CASE SendRefused(e)
  <2>1. sock'[e] = [sock[e] EXCEPT !.so_error = "none"] /\ LocalTo(e)
    BY <1>3, SendRefusedType
  <2>2. sock'[e].state = sock[e].state
    BY <1>1, <2>1 DEF Sockets
  <2> QED
    BY <2>1, <2>2, NotFinished
<1>4. CASE SendTrack(e)
  <2>1. CanSend(sock[e])
    BY <1>4, Zenon DEF SendTrack
  <2>2. sock[e].state \notin {"FinWait1", "LastAck"}
    BY <2>1 DEF CanSend
  <2> QED
    BY <1>4, <2>2, NotFinished, SendTrackType
<1>5. CASE SendFail(e)
  <2>1. sock'[e] = FailedSock(sock[e], sending[e]) /\ LocalTo(e)
    BY <1>5, SendFailType
  <2>2. sock'[e].state = sock[e].state
    BY <1>1, <2>1 DEF FailedSock, Sockets
  <2> QED
    BY <2>1, <2>2, NotFinished
<1>6. CASE ReadSome(e)
  <2>1. sock'[e] = [sock[e] EXCEPT !.receive_queue = <<>>] /\ LocalTo(e)
    BY <1>6, ReadSomeType
  <2>2. sock'[e].state = sock[e].state
    BY <1>1, <2>1 DEF Sockets
  <2> QED
    BY <2>1, <2>2, NotFinished
<1>7. CASE Shutdown(e)
  <2>1. LocalTo(e) /\ (sock[e].state # "Established" => sock'[e] = sock[e])
    BY <1>7, ShutdownType
  <2>2. sock[e].state \notin {"FinWait1", "LastAck"} \/ sock'[e].state = sock[e].state
    BY <2>1
  <2> QED
    BY <2>1, <2>2, NotFinished
<1>8. CASE Close(e)
  <2>1. /\ LocalTo(e)
        /\ sock'[e] = IF sock[e].state = "Established" THEN FinSock(e, sock[e], "FinWait1")
                      ELSE IF sock[e].state = "CloseWait" THEN FinSock(e, sock[e], "LastAck")
                      ELSE IF sock[e].state = "Closed" THEN sock[e] ELSE EndedSock(sock[e])
    BY <1>8, CloseType
  <2>2. prog[e] # <<>>
    BY <1>8, Zenon DEF Close, At
  <2>3. sock[e].state # "LastAck"
    BY <2>2, Zenon DEF StreamInv, LastCall
  <2>4. sock[e].state = "FinWait1" => sock'[e].state = "Closed"
    <3>1. EndedSock(sock[e]).state = "Closed"
      BY <1>1 DEF EndedSock, Sockets
    <3>2. sock[e].state = "FinWait1" => sock'[e] = EndedSock(sock[e])
      BY <2>1
    <3> QED
      BY <3>1, <3>2, Zenon
  <2> QED
    BY <2>1, <2>3, <2>4 DEF Finished
<1> QED
  BY <1>2, <1>3, <1>4, <1>5, <1>6, <1>7, <1>8, Zenon DEF App

\* No timer does, and no start of a connection.
LEMMA TimerNotFinished ==
  ASSUME TypeInv, SendingInv, NEW e \in Ends,
         \/ Retransmit(e) \/ PollClosed(e) \/ PmtuUpdate(e)
         \/ e = Client /\ (Connect \/ ConnectFail \/ ConnectAgain \/ ConnectDone \/ ConnectTimeout)
         \/ e = Server /\ Accept
  PROVE  ~Finished(e) /\ LocalTo(e)
<1>1. sock[e] \in Sockets
  BY EndTypes
<1>2. CASE Retransmit(e)
  <2>1. CASE SetSock(e, DeadSock(sock[e]))
    <3>1. sock'[e] = DeadSock(sock[e])
      BY <2>1, SetIs
    <3>2. sock'[e].state = "Closed" /\ sock'[e].so_error # "none"
      BY <1>1, <3>1 DEF DeadSock, Sockets
    <3> QED
      BY <1>2, <3>2, NotFinished, RetransmitType
  <2>2. ASSUME NEW r, SetSock(e, [sock[e] EXCEPT !.retransmit_queue = r])
        PROVE  ~Finished(e) /\ LocalTo(e)
    <3>1. sock'[e] = [sock[e] EXCEPT !.retransmit_queue = r]
      BY <2>2, SetIs
    <3>2. sock'[e].state = sock[e].state
      BY <1>1, <3>1 DEF Sockets
    <3> QED
      BY <1>2, <3>2, NotFinished, RetransmitType
  <2> QED
    BY <1>2, <2>1, <2>2, RetransmitIs
<1>3. CASE PollClosed(e)
  <2>1. sock[e].state \notin {"FinWait1", "LastAck"}
    BY <1>3 DEF PollClosed
  <2> QED
    BY <1>3, <2>1, NotFinished, PollClosedType
<1>4. CASE PmtuUpdate(e)
  <2>1. PICK r : SetSock(e, [sock[e] EXCEPT !.retransmit_queue = r])
    BY <1>4, PmtuIs
  <2>2. sock'[e] = [sock[e] EXCEPT !.retransmit_queue = r]
    BY <2>1, SetIs
  <2>3. sock'[e].state = sock[e].state
    BY <1>1, <2>2 DEF Sockets
  <2> QED
    BY <1>4, <2>3, NotFinished, PmtuUpdateType
<1>5. CASE e = Client /\ (Connect \/ ConnectFail)
  <2>1. sock[e].state \notin {"FinWait1", "LastAck"}
    BY <1>5 DEF Connect, ConnectFail
  <2>2. LocalTo(e)
    BY <1>5, ConnectType, ConnectFailType
  <2> QED
    BY <2>1, <2>2, NotFinished
<1>7. CASE e = Client /\ ConnectDone
  <2>1. sock'[e] \in {sock[e], [sock[e] EXCEPT !.so_error = "none"]} /\ LocalTo(e)
    BY <1>7, ConnectDoneType
  <2>2. sock'[e].state = sock[e].state
    BY <1>1, <2>1 DEF Sockets
  <2> QED
    BY <2>1, <2>2, NotFinished
<1>8. CASE e = Client /\ ConnectTimeout
  <2>1. SetSock(e, [sock[e] EXCEPT !.state = "Closed", !.registered = FALSE, !.so_error = "ETIMEDOUT"])
    BY <1>8, Zenon DEF ConnectTimeout
  <2>2. sock'[e] = [sock[e] EXCEPT !.state = "Closed", !.registered = FALSE, !.so_error = "ETIMEDOUT"]
    BY <2>1, SetIs
  <2>3. sock'[e].state = "Closed" /\ sock'[e].so_error # "none"
    BY <1>1, <2>2 DEF Sockets
  <2> QED
    BY <1>8, <2>3, NotFinished, ConnectTimeoutType
<1>6. CASE (e = Client /\ ConnectAgain) \/ (e = Server /\ Accept)
  <2>1. sock'[e] = sock[e] /\ LocalTo(e)
    BY <1>6, ReturnsType
  <2> QED
    BY <2>1, NotFinished
<1> QED
  BY <1>2, <1>3, <1>4, <1>5, <1>6, <1>7, <1>8

\* What is received after the own FIN does not change the state, but for the peer's FIN.
LEMMA HalfClosedState ==
  ASSUME TypeInv, NEW m \in net, NEW a \in Sockets, Windows(a, unsent[m.to], sent[m.to]), RcvHalfClosed(m, a)
  PROVE  sock'[m.to].state \in {a.state, "Closed"}
<1> DEFINE s == IngestPayload(a, m.seq, m.data)
           fin == DoneSock(s)
<1>1. s \in Sockets /\ SameButInput(s, a)
  BY Ingested
<1>2. s.state = a.state
  BY <1>1, Zenon DEF SameButInput
<1>3. SetSock(m.to, fin) \/ SetSock(m.to, s)
  BY Zenon DEF RcvHalfClosed, DoneSock, Receive
<1>4. m.to \in Ends
  BY NetType
<1> HIDE DEF s
<1>5. fin.state = "Closed"
  BY <1>1 DEF DoneSock, Sockets
<1> HIDE DEF fin
<1>6. CASE SetSock(m.to, fin)
  <2>1. sock'[m.to] = fin
    BY <1>4, <1>6, SetIs
  <2> QED
    BY <1>5, <2>1, Zenon
<1>7. CASE SetSock(m.to, s)
  <2>1. sock'[m.to] = s
    BY <1>4, <1>7, SetIs
  <2> QED
    BY <1>2, <2>1, Zenon
<1> QED
  BY <1>3, <1>6, <1>7

\* Of the segments only an acknowledgement of the FIN does.
LEMMA RcvFinished ==
  ASSUME TypeInv, NEW m \in net, Rcv(m), Finished(m.to)
  PROVE  AckedFin(m.to) /\ LocalTo(m.to)
<1>1. m.to \in Ends /\ sock[m.to] \in Sockets
  BY NetType
<1>2. Acked(m) \in Sockets /\ Acked(m).state = sock[m.to].state /\ Windows(Acked(m), unsent[m.to], sent[m.to])
  BY AckedIs, Zenon DEF AckedFrom
<1>3. sock[m.to].state \in {"FinWait1", "LastAck"} /\ sock'[m.to].state # sock[m.to].state
  BY DEF Finished
<1>4. LocalTo(m.to)
  BY RcvListenType, RcvResetType, RcvSynSentType, RcvSynReceivedType, RcvEstablishedType,
     RcvFinWaitType, RcvLastAckType, RcvIgnoredType, RcvUnmatchedType DEF Rcv
<1>5. CASE RcvListen(m) \/ RcvSynSent(m) \/ RcvSynReceived(m) \/ RcvEstablished(m) \/ RcvFinWait2(m)
           \/ RcvIgnored(m)
  BY <1>3, <1>5 DEF RcvListen, RcvSynSent, RcvSynReceived, RcvEstablished, RcvFinWait2, RcvIgnored, Matched
<1>6. CASE RcvReset(m)
  <2>1. sock'[m.to] = ResetSock(sock[m.to])
    BY <1>6, RcvResetType
  <2>2. sock'[m.to].state = "Closed" /\ sock'[m.to].so_error # "none"
    BY <1>1, <2>1 DEF ResetSock, Sockets
  <2> QED
    BY <2>2, NotFinished
<1>7. CASE RcvUnmatched(m)
  BY <1>3, <1>7, RcvUnmatchedType
<1>8. CASE RcvFinWait1(m)
  <2>1. "RST" \notin m.flags /\ sock[m.to].state = "FinWait1"
    BY <1>8, Zenon DEF RcvFinWait1, Matched
  <2>2. CASE FinAcked(m, Acked(m))
    BY <1>4, <2>1, <2>2, Zenon DEF AckedFin
  <2>3. CASE ~FinAcked(m, Acked(m))
    <3>1. RcvHalfClosed(m, Acked(m))
      BY <1>8, <2>3, Zenon DEF RcvFinWait1
    <3>2. PICK a \in Sockets : a = Acked(m)
      BY <1>2, Zenon
    <3>3. RcvHalfClosed(m, a) /\ Windows(a, unsent[m.to], sent[m.to]) /\ a.state = "FinWait1"
      BY <1>2, <2>1, <3>1, <3>2, Zenon
    <3>4. sock'[m.to].state \in {a.state, "Closed"}
      BY <3>3, HalfClosedState
    <3>5. sock'[m.to].state # "FinWait2"
      BY <3>3, <3>4
    <3> QED
      BY <2>1, <3>5 DEF Finished
  <2> QED
    BY <2>2, <2>3
<1>9. CASE RcvLastAck(m)
  <2>1. "RST" \notin m.flags
    BY <1>9, Zenon DEF RcvLastAck, Matched
  <2>2. sock'[m.to] = IF FinAcked(m, Acked(m)) THEN GoneSock(Acked(m)) ELSE Acked(m)
    BY <1>9, RcvLastAckType
  <2>3. FinAcked(m, Acked(m))
    BY <1>2, <1>3, <2>2, Zenon
  <2> QED
    BY <1>4, <2>1, <2>3, Zenon DEF AckedFin
<1> QED
  BY <1>5, <1>6, <1>7, <1>8, <1>9, Zenon DEF Rcv

\* An acknowledgement of the FIN was sent by a peer that has received it.
LEMMA AckedFinIs ==
  ASSUME TypeInv, StreamInv, NEW e \in Ends, AckedFin(e)
  PROVE  sock[Peer(e)].recv_seq = sock[e].send_seq
<1> DEFINE p == Peer(e)
<1>1. PICK m \in net : m.to = e /\ "RST" \notin m.flags /\ FinAcked(m, Acked(m))
  BY Zenon DEF AckedFin
<1>2. "ACK" \in m.flags /\ m.ack = sock[e].send_seq
  <2>1. Acked(m).send_seq = sock[m.to].send_seq
    BY AckedIs, Zenon DEF AckedFrom
  <2> QED
    BY <1>1, <2>1, Zenon DEF FinAcked
<1>3. Val(p) /\ Pos(e, m.ack) <= Recv(p)
  <2>1. Val(Peer(m.to)) /\ Pos(m.to, m.ack) <= Recv(Peer(m.to))
    BY <1>1, <1>2, AckIs
  <2> QED
    BY <1>1, <2>1, Zenon
<1>4. p \in Ends /\ Peer(p) = e
  BY PeerFacts
<1>5. Recv(p) <= Lim(e)
  <2>1. RecvPos(p, sock[p]) <= Lim(Peer(p))
    BY <1>3, Zenon DEF Val, Valid
  <2> QED
    BY <1>4, <2>1, Zenon DEF Recv
<1>6. /\ Lim(e) = SendPos(e, sock[e]) - Len(unsent[e].data) /\ Len(unsent[e].data) \in Nat
      /\ SendPos(e, sock[e]) \in Nat /\ sock[e] \in Sockets
  BY InvParts
<1>7. Recv(p) \in Nat /\ sock[p] \in Sockets
  BY <1>4, Counts
<1>8. SendPos(e, sock[e]) <= Recv(p)
  BY <1>2, <1>3, Zenon DEF SendPos
<1>9. Recv(p) = SendPos(e, sock[e])
  BY <1>5, <1>6, <1>7, <1>8
<1>10. Pos(e, sock[p].recv_seq) = Pos(e, sock[e].send_seq)
  BY <1>4, <1>9, Zenon DEF Recv, RecvPos, SendPos
<1>11. sock[p].recv_seq \in Seqs /\ sock[e].send_seq \in Seqs
  BY <1>6, <1>7 DEF Sockets
<1> QED
  BY <1>10, <1>11, PosOne

\* A step that takes the FIN of e for acknowledged.
LEMMA FinishedIs ==
  ASSUME TypeInv, SendingInv, StreamInv, Next, NEW e \in Ends, Finished(e)
  PROVE  AckedFin(e)
<1>1. Client \in Ends /\ Server \in Ends
  BY Zenon DEF Ends
<1>2. ASSUME NEW x \in Ends, ~Finished(x) /\ LocalTo(x) PROVE FALSE
  BY <1>2, OtherNotFinished
<1>3. CASE Connect \/ ConnectFail \/ ConnectAgain \/ ConnectDone \/ ConnectTimeout \/ Accept
  BY <1>1, <1>2, <1>3, TimerNotFinished
<1>4. ASSUME NEW x \in Ends, App(x) \/ Retransmit(x) \/ PollClosed(x) \/ PmtuUpdate(x)
      PROVE  FALSE
  BY <1>2, <1>4, AppNotFinished, TimerNotFinished
<1>5. ASSUME NEW m \in net, Rcv(m)
      PROVE  AckedFin(e)
  <2>1. m.to \in Ends
    BY NetType
  <2>2. LocalTo(m.to)
    BY <1>5, RcvListenType, RcvResetType, RcvSynSentType, RcvSynReceivedType, RcvEstablishedType,
       RcvFinWaitType, RcvLastAckType, RcvIgnoredType, RcvUnmatchedType DEF Rcv
  <2>3. m.to = e
    BY <2>1, <2>2, OtherNotFinished
  <2> QED
    BY <1>5, <2>3, RcvFinished
<1> QED
  BY <1>3, <1>4, <1>5, Zenon DEF Next

\* FinWait2, and an error-free Closed after LastAck, mean that the peer has
\* received every byte and the FIN, as long as no segment whose send failed is in the
\* network.
THEOREM ClosesDelivered == Spec /\ []ShortStreams => CloseDelivers
<1>1. TypeInv /\ SendingInv /\ (~escaped => StreamInv) /\ [Next]_vars =>
        [~escaped =>
           \A e \in Ends :
             \/ sock[e].state = "FinWait1" /\ sock'[e].state = "FinWait2"
             \/ /\ sock[e].state = "LastAck" /\ sock'[e].state = "Closed"
                /\ sock'[e].so_error = "none"
             => sock[Peer(e)].recv_seq = sock[e].send_seq]_vars
  <2>1. ASSUME TypeInv, SendingInv, StreamInv, Next, NEW e \in Ends, Finished(e)
        PROVE  sock[Peer(e)].recv_seq = sock[e].send_seq
    BY <2>1, FinishedIs, AckedFinIs
  <2> QED
    BY <2>1 DEF Finished
<1> QED
  BY <1>1, StreamInvariant, PTL DEF Spec, CloseDelivers

=============================================================================
