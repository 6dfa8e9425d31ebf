SPECIFICATION Spec
CONSTANTS
  RecordCount = 3
  max_concurrency = 2
  retries = 2
  None = None
INVARIANTS
  RequestBudget
  OwnAnswer
  ParsedIsUsed
  FailureShown
PROPERTY
  BatchEnds
CHECK_DEADLOCK FALSE
