SPECIFICATION Spec
CONSTANTS
  Users = {u1}
  EnvelopeIds = {e1}
  ProviderIds = {p1}
  Calls = {c1, c2}
  None = None
  MaxTime = 1
  MaxFailures = 1
  Hooks = {h1, h2}
  FinalAtProvider = TRUE
INVARIANT VerdictOnce
CHECK_DEADLOCK FALSE
