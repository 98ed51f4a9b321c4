\* A merged job and an unmerged one, no publish block; no call fails, one crash.
CONSTANTS
  a = a  b = b  c = c
  Jobs = {a, b}
  Scope <- WithUnmerged
  Publishes = FALSE
  MaxAttempts = 2
  MaxFaults = 0
  MaxCrashes = 1
SPECIFICATION Spec
CHECK_DEADLOCK FALSE
INVARIANTS IntegratedNotFailed
