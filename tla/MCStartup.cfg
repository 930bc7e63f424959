\* No symmetry: a liveness property is checked.
SPECIFICATION FairSpec
CONSTANTS
  Procs = {p1, p2}
  NoFile = NoFile
  NotANumber = NotANumber
  Malformed = Malformed
  OldFiles <- MCOldFiles
  Env <- MCEnv
  OldRuns = {0, 18, 21}
  MaxBoots = 3
INVARIANTS OwnFileIsLoadable ReferencesResolve
PROPERTIES SchemaIsALedger RacingStartsComplete
CHECK_DEADLOCK FALSE
