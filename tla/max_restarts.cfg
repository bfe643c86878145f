SPECIFICATION FairSpec
CONSTANTS
  Tasks = {t1}
  UserOps = {"start", "restart"}
  FaultKinds = {}
  WatchMode = FALSE
  MaxRestarts = 1
  MaxTrees = 8
  MaxOps = 3
  MaxExits = 1
  MaxFaults = 0
  MaxChanges = 0
PROPERTY ExhaustedIsErrored
CHECK_DEADLOCK FALSE
