SPECIFICATION Spec
CONSTANTS
  None = None
  MaxCalls = 3
  Kinds <- MCKinds
  Pinned <- MCPinned
INVARIANTS
  TimerGuardsTheCall
  MountsItsSession
  TellsWhatHappened
PROPERTIES
  WaitingEnds
  RestartKeepsEnvelope
CHECK_DEADLOCK FALSE
