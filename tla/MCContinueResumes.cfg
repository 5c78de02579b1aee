SPECIFICATION Spec
CONSTANTS
  t1 = t1
  t2 = t2
  c1 = c1
  c2 = c2
  a1 = a1
  a2 = a2
  NoCpu = NoCpu
  NoTask = NoTask
  Tasks <- OneTask
  Cpus <- TwoCpus
  Agents <- OneAgent
  Ops <- StopOps
INVARIANT
  ContinueResumes
