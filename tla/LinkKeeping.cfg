SPECIFICATION Spec
CONSTANTS
  Retry = 1
  Ceiling = 5
  Grace = 3
  MaxTime = 6
  MaxAttempts = 4
CHECK_DEADLOCK FALSE
INVARIANTS PolicyKept WaitsBounded
