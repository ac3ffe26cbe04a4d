SPECIFICATION FairSpec
CONSTANTS
  Callers = {c1, c2}
  Refreshes = {r1, r2, r3}
  None = None
  Lifetime = 2
  Margin = 1
  MaxLatency = 1
  MaxTime = 4
  MaxClears = 2
INVARIANTS
  JoinIsFresh
  OneRefresh
PROPERTIES
  HandedTokenIsLive
  EveryCallerIsAnswered
CHECK_DEADLOCK FALSE
