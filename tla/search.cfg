SPECIFICATION SearchFairSpec
CONSTANTS
  MaxRetries = 2
  MaxTexts = 1
  MaxItems = 1
  MaxDoc = 3
  Limits = {0, 1, 2}
  DefaultLimit = 2
  Factor = 2
  RankConstant = 60
  Suggest = 1
INVARIANTS SearchTypeOK FallbackKeepsAnswer SemanticNearest FusionRespectsRanks SuggestionsRight StoredIsRecoverable
PROPERTIES SearchReturns
CHECK_DEADLOCK FALSE
