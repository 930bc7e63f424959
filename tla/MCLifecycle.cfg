\* No symmetry: liveness properties are checked.
SPECIFICATION FairSpec
CONSTANTS
  Contents <- MCContents
  Env <- MCEnv
  NotANumber = NotANumber
  Malformed = Malformed
  NoConfig = NoConfig
  MaxSaves = 2
INVARIANTS NoReloadAfterClose
PROPERTIES CallbacksSeeAChain ReloadCatchesUp ShutdownCloses
CHECK_DEADLOCK FALSE
