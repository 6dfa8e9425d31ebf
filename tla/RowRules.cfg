SPECIFICATION Spec
CONSTANTS
  Null = Null
  MaxLength = 10
  SeparatorLength = 3
  Candidate <- MCCandidate
  Response <- MCResponse
CHECK_DEADLOCK FALSE
INVARIANTS ReleasedIsWhole ReleasedIsSure NothingInvented
