\* Three jobs and two groups, with every graph between them, one file for each check
\* of the loader that passes it and one that does not, and the conditions.
CONSTANTS
  Names <- MCNames
  Definitions <- MCDefinitions
  Written <- MCWritten
  Facts <- MCFacts
SPECIFICATION ConditionsSpec
CHECK_DEADLOCK FALSE
INVARIANTS AcceptedIsRunnable CycleIsReal ConditionAsWritten
PROPERTY ImplementsGate
