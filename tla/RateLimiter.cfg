SPECIFICATION Spec
CONSTANTS
  Routes = {mint, webhook}
  Clients = {c1, c2}
  None = None
  Limit <- MCLimit
  WindowMs = 3
  MaxWindows = 3
  MaxTime = 5
  MaxRequests = 5
SYMMETRY Symmetry
INVARIANTS
  BurstBounded
  RefusedOnlyOverLimit
  MemoryBounded
CHECK_DEADLOCK FALSE
