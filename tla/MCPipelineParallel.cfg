\* Execute returns: the system stops.
SPECIFICATION SlowAgentsSpec
CONSTANTS
  Steps = {s1, s2}
  Ghosts = {}
  Budgets = {0}
CHECK_DEADLOCK FALSE
PROPERTIES IndependentStepsStart
