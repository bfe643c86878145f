SPECIFICATION Spec
CONSTANTS
  Clients = {c1, c2}
  Callers = {c1, c2}
  Requests = {c1, c2}
  Tokens = {i1, i2}
  Tunnels = {i1, i2}
  Pids = {i1, i2}
  Passwords = {p1, p2}
  Pins = {n1}
  Tickets = {k1}
  MaxSessions = 1
  MaxLogins = 2
  MaxRequests = 3
  MaxChances = 2
  MaxActive = 2
  MaxCalls = 4
  Platform = "macos"
  MaxScripts = 1
  MaxProbes = 1
  MaxTerminals = 1
  BotTokens = {i1, i2}
  MaxUpdates = 2
  MaxSwitches = 2
  MaxMishaps = 2
  Exts = {"sh", "py"}
  Runs = {"r"}
  MaxSaves = 4
  MaxFaults = 3
SYMMETRY Symmetric
INVARIANTS CredentialsCurrent  TunnelsAccounted  CommandsAccounted ScriptsKept
CHECK_DEADLOCK FALSE
