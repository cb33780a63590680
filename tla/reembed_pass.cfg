SPECIFICATION Spec
CONSTANTS
  boot = boot
  tool = tool
  Runs <- ToolOnly
  Boot = boot
  BatchSize = 2
  SeedIds = 2
  MaxIds = 4
  Limits = {0, 3}
  Scopes = {"all", "missing"}
  MaxCrashes = 0
INVARIANTS
  ResultAddsUp LimitRespected AllVisitsOnce SweepComplete BackfillComplete
CHECK_DEADLOCK FALSE
