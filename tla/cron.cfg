SPECIFICATION FairSpec
CONSTANTS
  Slots = {"r1", "r2"}
  UserOps = {"start", "stop", "restart", "delete", "disable", "enable"}
  MaxTrees = 5
  MaxTicks = 1
  MaxClaims = 2
  MaxOps = 2
  MaxFaults = 1
INVARIANTS NoOverlap SleepingIsQuiet ScheduleMatches
PROPERTIES StopCancelsRuns StartingSettles
CHECK_DEADLOCK FALSE
