SPECIFICATION FairSpec
CONSTANTS
  Tasks = {"t1"}
  UserOps = {"start_existing", "stop", "update"}
  FaultKinds = {"spawn", "cleanup"}
  WatchMode = FALSE
  MaxRestarts = 1
  MaxTrees = 8
  MaxOps = 2
  MaxExits = 2
  MaxFaults = 1
  MaxChanges = 0
PROPERTIES RequestsFinish TransitionsSettle CrashIsNoticed
CHECK_DEADLOCK FALSE
