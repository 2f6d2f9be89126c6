SPECIFICATION Spec
CONSTANTS
  Daemons = {daemon}
  Tools = {tool}
  Restores = {daemon, tool}
  Package <- MCPackage
  HwMin = 1
  HwMax = 2
  UncoreMin = 1
  UncoreMax = 2
  Predictions = {4}
  Requests = {2}
  Available <- MCAvailable
  Offlines <- MCOfflines
  Limits = {0}
  Threshold = 2
  MayUnplug = {2}
  MaxPredictions = 1
  MaxUses = 1
  MaxSignals = 1
INVARIANTS CoresRestored UncoreRestored
CHECK_DEADLOCK FALSE
