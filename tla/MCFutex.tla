------------------------------ MODULE MCFutex -------------------------------
(* Futex for two waiters, one waker and one scheduler loop over two words.    *)
(* The programs are the uses that meet each other: condition variables and    *)
(* joins (one word, store then wake), bit masks, requeue, wake-op, waitv.     *)
EXTENDS Futex, TLC

CONSTANTS t1, t2, w1, c1, k1, k2, b1, b2

TwoWaiters == {t1, t2}
OneWaker   == {w1}
OneCpu     == {c1}
TwoKeys    == {k1, k2}
TwoBits    == {b1, b2}

Wait(k, mask, timeout) == [keys |-> <<k>>, mask |-> mask, timeout |-> timeout, vector |-> FALSE]
Waitv(ks, timeout)     == [keys |-> ks, mask |-> Bits, timeout |-> timeout, vector |-> TRUE]
Wake(k, n, mask)       == [op |-> "wake", key |-> k, n |-> n, mask |-> mask]
Store(k, v)            == [op |-> "store", key |-> k, new |-> v]
Exit(k)                == [op |-> "exit", key |-> k]
CmpRequeue(a, b, n, m, v) ==
  [op |-> "requeue", key |-> a, key2 |-> b, n |-> n, m |-> m, cmp |-> v]
WakeOp(a, b, n, m, v, x) ==
  [op |-> "wakeop", key |-> a, key2 |-> b, n |-> n, m |-> m, new |-> v, cmp |-> x]

Program(p1, p2, p3) == t1 :> p1 @@ t2 :> p2 @@ w1 :> p3

Forever == NoDeadline

Mix ==
  { \* a condition variable: change the word, wake everybody
    Program(<<Wait(k1, Bits, Forever)>>, <<Wait(k1, Bits, 1)>>,
            <<Store(k1, 1), Wake(k1, 2, Bits)>>),
    \* the same waiter twice, and a wake for each
    Program(<<Wait(k1, Bits, Forever), Wait(k1, Bits, Forever)>>, <<>>,
            <<Wake(k1, 1, Bits), Store(k1, 1), Wake(k1, 1, Bits)>>),
    \* a timed wait, then one without a timeout
    Program(<<Wait(k1, Bits, 1), Wait(k2, Bits, Forever)>>, <<>>,
            <<Wake(k1, 1, Bits), Wake(k2, 1, Bits)>>),
    \* masks
    Program(<<Wait(k1, {b1}, Forever)>>, <<Wait(k1, {b2}, Forever)>>,
            <<Store(k1, 1), Wake(k1, 1, {b2}), Wake(k1, 1, {b1})>>),
    \* a condition variable that requeues its waiters to the mutex word
    Program(<<Wait(k1, Bits, Forever)>>, <<Wait(k1, Bits, Forever)>>,
            <<CmpRequeue(k1, k2, 1, 1, 0), Store(k2, 1), Wake(k2, 2, Bits)>>),
    \* waits on both words, woken through either
    Program(<<Waitv(<<k1, k2>>, 1)>>, <<Wait(k2, Bits, Forever)>>,
            <<WakeOp(k1, k2, 1, 1, 1, 0)>>),
    Program(<<Waitv(<<k1, k2>>, Forever), Wait(k2, Bits, 1)>>, <<>>,
            <<CmpRequeue(k1, k2, 0, 1, 0), Wake(k2, 2, Bits)>>),
    \* a join
    Program(<<Wait(k1, Bits, Forever)>>, <<>>, <<Store(k1, 1), Exit(k1)>>),
    \* two deadlines
    Program(<<Wait(k1, Bits, 1)>>, <<Wait(k2, Bits, 2)>>, <<>>) }
=============================================================================
