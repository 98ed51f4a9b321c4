\* Three scripts in one batch, a (two steps) and b read-only and of one queue, c writable; each may write
\* back the state it read before the others completed.  Then d, a writable agent, after
\* b; one crash.
CONSTANTS
  a = a  b = b  c = c  d = d  g = g
  Jobs = {a, b, c, d}
  Needs <- Free4
  Activation <- NoneDeclared
  FailurePolicy <- AllFail
  ReadOnly = {a, b}
  QueueGroup <- FirstTwoQueued
  NoGroup = NoGroup
  MaxAttempts <- AllOnce
  OnExceeded <- AllBlocked
  Steps <- FirstHasTwo
  Kind <- LastIsAgent
  Parallelism = 3
  FailFast = FALSE
  ScriptOnFailure = "failed"
  AgentErrors = {"fail"}
  SetupErrors = TRUE
  MaxIterations = 6
  MayAbort = FALSE
  MaxCrashes = 1
SPECIFICATION Spec
INVARIANTS OneWritableExecutes ReturnsWithVerdict
