SPECIFICATION Spec
CONSTANTS
  None = None
  Session = {s1, s2}
  Run = {r1}
  Source = {src1}
  Snapshot = {c1, c2}
  Outcome = {o1, o2}
  Artifact = {a1}
  State = {"REQUESTED", "RUNNING"}
  Initial = "REQUESTED"
  Hash = {h1, h2}
  MaxEvents = 2
  MaxRows = 5
SYMMETRY Alike
INVARIANT
  StateIsLastEvent
