SPECIFICATION FairSpec
CONSTANTS
  Blocks = {b1, b2}
  Copies = {c1, c2}
  Kernels = {k1}
  None = None
  MaxSamples = 1
  MaxReadings = 1
INVARIANTS TypeOK ReportedOnce LastReadingComplete
PROPERTIES DestructorReturns
CHECK_DEADLOCK FALSE
