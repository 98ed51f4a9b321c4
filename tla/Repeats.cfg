\* The group {a, b, c} is repeated until c approves, at most twice; d comes after it;
\* the list of the traverse is an output of a.  One item is force-set, one crash.
CONSTANTS
  a = a  b = b  c = c  d = d  g = g
  Jobs = {a, b, c, d}
  Needs <- Diamond
  Activation <- Undeclared
  FailurePolicy <- Policies
  ReadOnly = {a, b}
  QueueGroup <- Unqueued
  NoGroup = NoGroup
  MaxAttempts <- Attempts
  OnExceeded <- Exceeded
  Steps <- OneStep
  Kind <- AllAgents
  Parallelism = 2
  Groups = {g}
  NoJob = NoJob
  GroupOf <- Grouped
  MaxIterations <- Twice
  Until <- ByJudge
  InputJob = a
  MaxItems = 2
  Concurrency = 1
  ItemFailure = {"continue", "fail_all"}
  MaxForced = 1
  MaxCrashes = 1
SPECIFICATION Spec
INVARIANTS GroupInStep AfterGroup GroupVerdict ItemsAccounted
