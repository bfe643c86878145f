SPECIFICATION Spec
CONSTANTS
  Entries = {"web"}
  Cron = {}
  Watched = {}
  Requests = {"killPort"}
  MaxTrees = 2
  MaxOps = 1
  MaxOff = 0
  MaxMishaps = 1
  MaxAttempts = 2
INVARIANT EveryChangeSaved
CHECK_DEADLOCK FALSE
