SPECIFICATION Spec
CONSTANTS
  t1 = t1  t2 = t2  p1 = p1  p2 = p2  self = self  child = child
  Tids = {t1,t2}
  Pids = {self,child}
  PidOf <- MCPidOf
  NoPid = NoPid
  RingSize = 2
  MaxSamples = 2
  MaxNoise = 0
  TidReuse = FALSE
  MayFail = TRUE
  Profilers = {p1,p2}
  TargetOf <- MCTargetOf
  MaxOpen = 2
INVARIANTS
  TypeOK
  NothingCountedTwice
  NothingSkipped
  WorkerServes
