SPECIFICATION FairSpec
CONSTANTS
  MaxRetries = 3
  MaxTexts = 2
  MaxItems = 3
INVARIANTS TypeOK OutcomeFollowsPolicy VectorsMatchTexts
PROPERTIES EmbedReturns
CHECK_DEADLOCK FALSE
