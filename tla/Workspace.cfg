\* Two merged jobs and one that executes in the Run worktree, two attempts each,
\* one call that fails or loses its answer, one crash; the result is published.
CONSTANTS
  a = a  b = b  c = c
  Jobs = {a, b, c}
  Scope <- WithRunScope
  Publishes = TRUE
  MaxAttempts = 2
  MaxFaults = 1
  MaxCrashes = 1
SPECIFICATION Spec
CHECK_DEADLOCK FALSE
INVARIANTS CompletedIsIntegrated OnlyLastAttemptIntegrated ExecutesInWorktree
           ResultsPublished
