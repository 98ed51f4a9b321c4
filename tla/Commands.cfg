\* Three shells that create a run each and two mishaps; then prompt, next and step
\* on one of the runs, with one crash.
CONSTANTS
  a = a  b = b  c = c
  Jobs = {a, b, c}
  Needs <- Shape
  Activation <- Declaring
  FailurePolicy <- Policies
  ReadOnly = {}
  QueueGroup <- Groups
  NoGroup = NoGroup
  MaxAttempts <- Attempts
  OnExceeded <- Exceeded
  Steps <- Lengths
  Kind <- Agents
  Parallelism = 1
  StepKind <- Kinds
  Routes <- NoRoutes
  Conditional = {}
  MaxVisits = 2
  MaxCrashes = 1
  Vars = {"mode"}
  Values = {"ok", "again", "done", "redo"}
  VarValues <- Modes
  Blocks = {"notes"}
  InitialVar <- FirstMode
  InitialText <- FirstNotes
  Contract <- Contracts
  Signals <- Signal
  Written <- AllWritten
  NoReport = NoReport
  MaxAccepts = 4
  s1 = s1  s2 = s2  s3 = s3
  Shells = {s1, s2, s3}
  MaxTries = 3
  DenialLimit = 2
  MaxMishaps = 2
SYMMETRY ShellsAlike
SPECIFICATION CommandsSpec
CHECK_DEADLOCK FALSE
INVARIANTS OwnRunDirectory ContextIsReported OutputsAreReported
PROPERTY StepNeedsReport
