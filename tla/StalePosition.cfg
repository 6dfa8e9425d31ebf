SPECIFICATION Spec
CONSTANTS
  f1 = f1
  f2 = f2
  f3 = f3
  medical = medical
  illness = illness
  None = None
  Keep = Keep
  Run = {r1}
  Client = {c1}
  Ref <- MCRef
  ChCode <- MCChCode
  ListedRfd = {medical}
  OtherRfd = {illness}
  Intake <- MCIntake
  TargetField = {"row_id"}
  FormKind = {"untouched", "changed", "blank"}
  Capacity = 2
  MaxBatch = 2
PROPERTY DecisionHitsSeenRow
