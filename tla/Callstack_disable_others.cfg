SPECIFICATION Spec
CONSTANTS
  t1 = t1  t2 = t2  p1 = p1  p2 = p2  self = self  child = child
  Tids = {t1}
  Pids = {self}
  PidOf <- MCPidOfOne
  NoPid = NoPid
  RingSize = 2
  MaxSamples = 1
  MaxNoise = 0
  TidReuse = FALSE
  MayFail = FALSE
  Profilers = {p1,p2}
  TargetOf <- MCTargetOne
  MaxOpen = 2
INVARIANTS
  SamplingWhileEnabled
