\* Every turn is used up: the bounded system stops.  No symmetry: liveness
\* properties are checked.
SPECIFICATION TurnsFairSpec
CONSTANTS
  Agents = {a1}
  Sessions = {s1}
  Turns = {t1, t2}
  Limit = 1
  Window = 2
  MaxIter = 1
  MaxTime = 2
  MaxBoots = 2
  Callers = {t1, t2}
  Rules <- MCRules
  Defaults <- MCDefaults
  Unknown = Unknown
  Lists <- MCLists
  MaxChanges = 1
CHECK_DEADLOCK FALSE
INVARIANTS RateLimited RepliesCounted
PROPERTIES ImplementsTranscript  NamesSettle
