SPECIFICATION FairSpec
CONSTANTS
  t1 = t1
  t2 = t2
  w1 = w1
  c1 = c1
  k1 = k1
  k2 = k2
  b1 = b1
  b2 = b2
  Waiters <- TwoWaiters
  Wakers <- OneWaker
  Cpus <- OneCpu
  Keys <- TwoKeys
  Bits <- TwoBits
  MaxVal = 1
  MaxTime = 2
  MaxSignals = 1
  Programs <- Mix
INVARIANTS
  TypeOK
  NoSlippedWake
  ClaimedOnce
  EntryBelongsToWaiter
  DeadlineCovered
PROPERTIES
  TimedWaitEnds
  ClaimedWaitEnds
CHECK_DEADLOCK FALSE
