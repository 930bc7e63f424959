\* Execute returns, ExecuteSwarm returns or blocks for good: the system stops.
SPECIFICATION PipelinesFairSpec
CONSTANTS
  Steps = {s1, s2, s3}
  Ghosts = {g}
  Budgets = {1}
  N = 3
  Limits = {0, 1, 2, 5}
CHECK_DEADLOCK FALSE
INVARIANTS
  OrderIsTopological SortFailsIffStuck AtMostOneLateCall FinalStatuses
  MissingAreUnsent
PROPERTIES ImplementsDagRun CallsOfExecuteReturn AgentsOfSwarmsAreAsked
