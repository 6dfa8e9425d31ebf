SPECIFICATION Spec
CONSTANTS
  None = None
  Input <- MCInput
CHECK_DEADLOCK FALSE
INVARIANTS Coupled GoneNeedsVisit Settled ReasonKept NegativeKept
