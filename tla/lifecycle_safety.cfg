SPECIFICATION Spec
CONSTANTS
  Tasks = {t1}
  UserOps <- AllOps
  FaultKinds <- AllFaults
  WatchMode = FALSE
  MaxRestarts = 1
  MaxTrees = 8
  MaxOps = 3
  MaxExits = 2
  MaxFaults = 2
  MaxChanges = 0
INVARIANTS LiveTreesOwned OneServing RunningIsDesired
CHECK_DEADLOCK FALSE
