\* Two parallel script jobs.
CONSTANTS
  a = a  b = b  c = c  d = d  g = g
  Jobs = {a, b}
  Needs <- Free2
  Activation <- NoneDeclared
  FailurePolicy <- AllFail
  ReadOnly = {a, b}
  QueueGroup <- NoGroups
  NoGroup = NoGroup
  MaxAttempts <- AllOnce
  OnExceeded <- AllBlocked
  Steps <- AllOnce
  Kind <- AllScripts
  Parallelism = 2
  FailFast = FALSE
  ScriptOnFailure = "failed"
  AgentErrors = {}
  SetupErrors = FALSE
  MaxIterations = 6
  MayAbort = FALSE
  MaxCrashes = 0
SPECIFICATION Spec
PROPERTIES CompletedStaysCompleted
