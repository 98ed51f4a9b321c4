\* Three agent jobs: a and b read-only and parallel, c writable and after both;
\* a may retry once and its last failure blocks, b's failure is tolerated;
\* fail-fast, one abort, one crash.
CONSTANTS
  a = a  b = b  c = c  d = d  g = g
  Jobs = {a, b, c}
  Needs <- Join3
  Activation <- NoneDeclared
  FailurePolicy <- BlockContinue
  ReadOnly = {a, b}
  QueueGroup <- NoGroups
  NoGroup = NoGroup
  MaxAttempts <- FirstRetries
  OnExceeded <- AllFailed
  Steps <- AllOnce
  Kind <- AllAgents
  Parallelism = 2
  FailFast = TRUE
  ScriptOnFailure = "failed"
  AgentErrors = {"fail", "failReport", "failConfig"}
  SetupErrors = TRUE
  MaxIterations = 6
  MayAbort = TRUE
  MaxCrashes = 1
SPECIFICATION FairSpec
INVARIANTS NeedsMetWhileExecuting VerdictMatchesJobs CompletionLogged
           CancelledForAReason NoEngineDeadlock
PROPERTIES CompletedStaysCompleted ImplementsLifecycle InvocationReturns
