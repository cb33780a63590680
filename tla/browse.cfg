SPECIFICATION Spec
CONSTANTS
  MaxId = 3
  Labels = {"rel", "cites"}
  PathBound = 2
  RelatedBound = 2
  Limits = {0, 1}
  DefaultLimit = 2
  MaxWrites = 3
INVARIANTS TypeOK AnswersWereTrue WalkComplete
CHECK_DEADLOCK FALSE
