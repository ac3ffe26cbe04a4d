SPECIFICATION Spec
CONSTANTS
  Users = {u1, u2}
  EnvelopeIds = {e1}
  ProviderIds = {p1, p2}
  Calls = {c1, c2}
  Hooks = {h1, h2}
  None = None
  MaxTime = 1
  FinalAtProvider = FALSE
  MaxFailures = 0
VIEW WithoutDue
SYMMETRY Symmetry
INVARIANTS
  TrailMatchesStatus
  UrlHasOwnedEnvelope
  StatusWasReported
PROPERTY NeverReopened
CHECK_DEADLOCK FALSE
