SPECIFICATION FairSpec
CONSTANTS
  a = a
  b = b
  c = c
  pA = pA
  pB = pB
  Tasks = {a, b, c}
  Pipes = {pA, pB}
  PAGE_SIZE = 2
  PIPE_BUF = 2
  DEFAULT_PIPE_CAPACITY = 4
  MaxByte = 80
  MaxSignals = 2
  Programs <- Mix
INVARIANTS TypeOK NoSleepOverData NoSleepOverRoom NoPollOverEvent SmallWriteWhole
PROPERTIES ImplementsFifo AllFinish
CHECK_DEADLOCK FALSE
