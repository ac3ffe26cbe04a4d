SPECIFICATION FairSpec
CONSTANTS
  Users = {u1}
  EnvelopeIds = {e1}
  ProviderIds = {p1}
  Calls = {c1, c2}
  Hooks = {h1}
  None = None
  MaxTime = 0
  FinalAtProvider = FALSE
  MaxFailures = 2
INVARIANTS
  VerdictOnce
PROPERTIES
  TerminalIsFinal
  ImplementsLifecycle
  VerdictIsRecorded
CHECK_DEADLOCK FALSE
