SPECIFICATION Spec
CONSTANTS
  Tasks = {t1}
  UserOps = {"start", "delete"}
  FaultKinds = {}
  WatchMode = FALSE
  MaxRestarts = 1
  MaxTrees = 8
  MaxOps = 2
  MaxExits = 1
  MaxFaults = 0
  MaxChanges = 0
INVARIANT DeletedIsStopped
CHECK_DEADLOCK FALSE
