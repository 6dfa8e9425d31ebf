SPECIFICATION Spec
CONSTANTS
  Null = Null
  Book <- MCBook
  Window <- MCWindow
  Limit = 4
  Preferred = 3
  Floor = 2
INVARIANTS
  CountsReconcile
  WithinLimit
  ReasonFitsVisit
  NumbersLeadBack
PROPERTY
  ReimportFaithful
CHECK_DEADLOCK FALSE
