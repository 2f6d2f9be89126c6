SPECIFICATION FairSpec
CONSTANTS
  Daemons = {daemon}
  Tools = {}
  Restores = {daemon}
  Package <- MCInterleaved
  HwMin = 1
  HwMax = 3
  UncoreMin = 1
  UncoreMax = 2
  Predictions = {1, 2, 4}
  Requests = {}
  Available <- MCAvailable
  Offlines <- MCOfflines
  Limits = {}
  Threshold = 2
  MayUnplug = {1, 2}
  MaxPredictions = 2
  MaxUses = 0
  MaxSignals = 2
INVARIANTS TypeOK LastAppliedInForce
PROPERTIES SignalEnds
CHECK_DEADLOCK FALSE
