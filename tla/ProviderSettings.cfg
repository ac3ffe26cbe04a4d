SPECIFICATION Spec
CONSTANTS
  Ops = {o1}
  MaxAttempts = 3
INVARIANT RefusedBeforeAnyRequest
CHECK_DEADLOCK FALSE
