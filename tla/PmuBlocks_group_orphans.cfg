SPECIFICATION FairSpec
CONSTANTS
  b1 = b1
  b2 = b2
  Blocks = {b1, b2}
  Main = main
  Grouped = {b1}
  Sampled = {}
  Fds = {f1, f2, f3}
  NoFd = NoFd
  Events <- MCEvents
  Cores <- MCOne
  NumCntrs = 3
  MayFail = FALSE
INVARIANTS RunningIsManaged
