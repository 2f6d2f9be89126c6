SPECIFICATION Spec
CONSTANTS
  b1 = b1
  b2 = b2
  Blocks = {b1, b2, b3}
  Main = main
  Grouped = {b1, b3}
  Sampled = {}
  Fds = {f1, f2, f3, f4}
  NoFd = NoFd
  Events <- MCMixedEvents
  Cores <- MCMixedCores
  NumCntrs = 3
  MayFail = TRUE
SYMMETRY FdSymmetry
INVARIANTS TypeOK BooksBalance RegisteredAreOpenLeaders OwnDescriptors NothingLost
