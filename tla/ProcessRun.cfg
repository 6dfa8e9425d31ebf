SPECIFICATION Spec
CONSTANTS
  chA = chA
  chB = chB
  None = None
  n1 = n1
  Number = {n1}
  Label = {1, 2}
  Ch = {chA, chB}
  VolareRow <- MCVolareRow
  FieldRow <- MCFieldRow
  Master <- MCMaster
  Upload = {volare_drr, field_result}
CHECK_DEADLOCK FALSE
INVARIANTS RefsDistinct EachCandidateOnce CleanIsBacked ExceptionsWait
  ReconciliationHolds CopiesRemoved
