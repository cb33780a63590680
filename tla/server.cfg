SPECIFICATION FairSpec
CONSTANTS
  MaxAttempts = 5
  MaxBackoff = 4
  Statements = 7
  Requests = {r1, r2}
  MaxBoots = 3
INVARIANTS TypeOK ConnectPolicy SchemaBeforeUse DriverOutlivesRequests
PROPERTIES NothingHangs
CHECK_DEADLOCK FALSE
