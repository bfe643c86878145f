SPECIFICATION Spec
CONSTANTS
  Entries = {"web", "job"}
  Cron = {"job"}
  Watched = {"web"}
  Requests = {"create", "clone", "delete", "stop", "start", "restart", "update", "toggle",
              "notify", "reset", "assign", "ecosystem", "nsStart", "nsStop", "nsRestart",
              "project", "projectAction", "tgStart", "tgStop", "tgRestart",
              "tgStartNs", "tgStopNs", "tgRestartNs", "killPort", "pull", "save"}
  MaxTrees = 3
  MaxOps = 1
  MaxOff = 1
  MaxMishaps = 3
  MaxAttempts = 2
INVARIANTS  RollbackRestores AcknowledgedSurvives 
CHECK_DEADLOCK FALSE
