SPECIFICATION DaemonSpec
CONSTANTS
  MaxProcs = 4
  MaxRestarts = 2
  MaxSignals = 1
  MaxMishaps = 1
  MaxLines = 3
  MaxWriters = 2
  MaxSize = 1
  MaxFiles = 2
  MaxQueue = 1
  MaxDates = 2
  KeepDates = 0
  MaxErrors = 1
INVARIANTS OneOwner ListenerOwnsPid   ServiceReturns LinesKept
CHECK_DEADLOCK FALSE
