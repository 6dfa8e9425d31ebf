SPECIFICATION Spec
CONSTANTS
  Custom = {"mine"}
  Text = {"edited"}
  Factory = "factory"
  Target = {"mine"}
  Stream = {"s1"}
  Loop = "loop"
  BatchSize = 1
  MaxEvents = 2
CHECK_DEADLOCK FALSE
INVARIANTS CustomsStand CalmBatchIsUniform StreamInOrder
PROPERTY StreamServed
