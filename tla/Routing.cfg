\* a: two agent steps that jump, retry their own job by status, activate and
\* leave; b: a read-only router; c: an optional job whose first step, an agent,
\* retries its own job by its output or blocks it by its status, whose second is a
\* conditional check, and whose third, a check, sends a back; d: a one-step agent
\* whose output retries its own job.  One crash.
CONSTANTS
  a = a  b = b  c = c  d = d
  Jobs = {a, b, c, d}
  Needs <- Shape
  Activation <- Declaring
  FailurePolicy <- Policies
  ReadOnly = {b, c}
  QueueGroup <- Groups
  NoGroup = NoGroup
  MaxAttempts <- Twice
  OnExceeded <- Exceeded
  Steps <- Lengths
  Kind <- Agents
  Parallelism = 2
  StepKind <- Kinds
  Routes <- AllRoutes
  Conditional <- Second
  MaxVisits = 2
  MaxCrashes = 1
CONSTRAINT NoCollision
SPECIFICATION Spec
INVARIANTS StepsNotRepeated RetriedAttemptRuns VisitLimitHolds
  CompletedRunIsSettled
