SPECIFICATION FairSpec
CONSTANTS
  t1 = t1  t2 = t2  p1 = p1  p2 = p2  self = self  child = child
  Tids = {t1,t2}
  Pids = {self}
  PidOf <- MCPidOfOne
  NoPid = NoPid
  RingSize = 1
  MaxSamples = 1
  MaxNoise = 1
  TidReuse = FALSE
  MayFail = FALSE
  Profilers = {p1}
  TargetOf <- MCTargetOne
  MaxOpen = 2
PROPERTIES
  StopReturns
  ThreadsGetAttached
  SamplesGetRead
