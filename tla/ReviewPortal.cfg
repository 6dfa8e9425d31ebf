SPECIFICATION Spec
CONSTANTS
  f1 = f1
  f2 = f2
  f3 = f3
  medical = medical
  illness = illness
  None = None
  Keep = Keep
  Run = {r1}
  Client = {c1, c2}
  Ref <- MCRef
  ChCode <- MCChCode
  ListedRfd = {medical}
  OtherRfd = {illness}
  Intake <- MCIntake
  TargetField = {"row_id", "source_row_ref"}
  FormKind = {"changed"}
  Capacity = 2
  MaxBatch = 1
SYMMETRY Tabs
INVARIANTS Reconciled NoRowTwice WorkbooksCurrent
PROPERTIES RefDecisionHitsSeenRow LedgerKept
