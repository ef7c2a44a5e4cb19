\* Two owners and a member of the staff share one approval; anything may fail.
CONSTANTS
  Owner = {o1, o2}
  Staff = {s1}
  Payload = {p1, p2}
  Nothing = Nothing
  Solo = TRUE
  Faults = TRUE
  MaxRev = 2
SPECIFICATION Spec
SYMMETRY Symmetry
INVARIANTS
  WriterRunsOnce
  ExecutedIsOnRecord
  DecisionIsAudited
\* An approval that is decided takes no further step.
CHECK_DEADLOCK FALSE
