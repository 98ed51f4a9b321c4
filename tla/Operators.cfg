\* A job with a gate and a job that needs it; two shells and an invocation, any of
\* which may be killed once.
CONSTANTS
  a = a  b = b  s1 = s1  s2 = s2  i = i
  Jobs = {a, b}
  Needs <- OneNeedsOther
  Activation <- Undeclared
  FailurePolicy <- Policies
  ReadOnly = {}
  QueueGroup <- Groups
  NoGroup = NoGroup
  MaxAttempts <- Once
  OnExceeded <- Exceeded
  Steps <- GateThenWork
  Kind <- Agents
  Parallelism = 1
  Gated = {a}
  Shells = {s1, s2}
  Invocation = i
  AttemptCap = 2
  MaxCommands = 2
  MaxCrashes = 1
SYMMETRY Shelled
SPECIFICATION Spec
INVARIANTS BehindGateApproved PausedIsAwaiting OpenGateIsUndecided
 
