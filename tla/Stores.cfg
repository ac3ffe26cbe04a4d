SPECIFICATION Spec
CONSTANTS
  t1 = t1
  t2 = t2
  t3 = t3
  e1 = e1
  e2 = e2
  Tasks = {t1, t2, t3}
  Envelopes = {e1, e2}
  MaxTime = 2
SYMMETRY Symmetry
INVARIANTS
  AllOrNothing
  NewestFirst
CHECK_DEADLOCK FALSE
