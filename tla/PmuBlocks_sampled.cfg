SPECIFICATION FairSpec
CONSTANTS
  b1 = b1
  b2 = b2
  Blocks = {b1, b2}
  Main = main
  Grouped = {}
  Sampled = {b1, b2}
  Fds = {f1, f2}
  NoFd = NoFd
  Events <- MCOne
  Cores <- MCOne
  NumCntrs = 3
  MayFail = FALSE
INVARIANTS RunningBelongsToLiveBlock MeasuringWhenQuiet
PROPERTIES CallsEnd
