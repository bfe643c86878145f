SPECIFICATION Spec
CONSTANTS
  None = None
  MaxSaves = 3
  MaxFaults = 1
  MaxCrashes = 2
INVARIANTS SameVersion NeverStuck BackupsForgetFailures
PROPERTY OneCell
CHECK_DEADLOCK FALSE
