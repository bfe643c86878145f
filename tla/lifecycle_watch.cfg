SPECIFICATION Spec
CONSTANTS
  Tasks = {t1, t2}
  UserOps <- AllOps
  FaultKinds <- AllFaults
  WatchMode = TRUE
  MaxRestarts = 1
  MaxTrees = 8
  MaxOps = 2
  MaxExits = 1
  MaxFaults = 1
  MaxChanges = 1
SYMMETRY TaskSymmetry
INVARIANTS CleanupExclusive SpawnsDistinct GenerationsOrdered KillsOwnSpawn
PROPERTY ManualStopSticks
CHECK_DEADLOCK FALSE
