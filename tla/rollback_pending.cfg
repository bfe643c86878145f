SPECIFICATION Spec
CONSTANTS
  None = None
  MaxSaves = 1
  MaxFaults = 2
  MaxCrashes = 0
PROPERTY RollbackRemainsPending
CHECK_DEADLOCK FALSE
