SPECIFICATION Spec
CONSTANTS
  init = init
  pP = pP
  pC = pC
  pD = pD
  i1 = i1
  p1 = p1
  p2 = p2
  c1 = c1
  d1 = d1
  nobody = nobody
  any = any
  Procs <- AllProcs
  InitProc <- init
  Tasks <- AllTasks
  ProcOf <- InProc
  Leader <- Leaders
  Nobody <- nobody
  AnyChild <- any
  Scenarios <- Mix
INVARIANTS
  TypeOK
  NoSleepOverExit
  VforkHandshake
  ReapAfterSwitch
CHECK_DEADLOCK FALSE
