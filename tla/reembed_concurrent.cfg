SPECIFICATION FairSpec
CONSTANTS
  boot = boot
  tool = tool
  Runs <- BootAndTool
  Boot = boot
  BatchSize = 1
  SeedIds = 1
  MaxIds = 2
  Limits = {0}
  Scopes = {"all", "missing", "one"}
  MaxCrashes = 1
INVARIANTS
  TypeOK SuccessIsDurable
PROPERTIES MemoriesLiveOnce EveryPassEnds
CHECK_DEADLOCK FALSE
