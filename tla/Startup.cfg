SPECIFICATION StartupFairSpec
CONSTANTS
  NaN = NaN
  Files <- MCFiles
  Flags <- MCFlags
  Envs <- MCEnvs
  MaxEdits = 1
  MaxRecords = 2
INVARIANTS
  StartupTypeOK
  OverridesDecide
  RunsAsConfigured
  BoundariesAreOrdered
  NothingIsLost
  ReturnReleases
  ScrapesAreAnswered
PROPERTIES
  WorkersLiveInOrder
  SignalEndsTheRun
CHECK_DEADLOCK FALSE
