SPECIFICATION FairSpec
CONSTANTS
  t1 = t1
  t2 = t2
  t3 = t3
  NoTask = NoTask
  Tasks <- ThreeTasks
  Fair = TRUE
  Interval = 3
  Stray = TRUE
INVARIANTS
  TypeOK
  MutualExclusion
  WaiterIsFindable
  NoForgottenWaiter
PROPERTIES
  SleeperIsWoken
CHECK_DEADLOCK FALSE
