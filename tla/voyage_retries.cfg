SPECIFICATION Spec
CONSTANTS
  MaxRetries = 3
  MaxTexts = 1
  MaxItems = 1
INVARIANTS RetriesPreferTransient
CHECK_DEADLOCK FALSE
