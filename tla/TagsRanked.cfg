SPECIFICATION Spec
CONSTANTS
  Null = Null
  Book <- MCBook
  Window <- MCWindow
  Limit = 4
  Preferred = 3
  Floor = 2
INVARIANT TagsAreRanked
CHECK_DEADLOCK FALSE
