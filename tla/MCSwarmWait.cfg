SPECIFICATION SwarmSpec
CONSTANTS
  N = 2
  Limits = {0}
CHECK_DEADLOCK FALSE
INVARIANTS WaitsForAll
