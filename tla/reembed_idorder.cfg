SPECIFICATION Spec
CONSTANTS
  boot = boot
  tool = tool
  Runs <- ToolOnly
  Boot = boot
  BatchSize = 2
  SeedIds = 2
  MaxIds = 4
  Limits = {0}
  Scopes = {"missing"}
  MaxCrashes = 0
CHECK_DEADLOCK FALSE
PROPERTY CreatedInIdOrder
