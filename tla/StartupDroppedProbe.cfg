SPECIFICATION StartupSpec
CONSTANTS
  NaN = NaN
  Files <- MCFiles
  Flags <- MCFlags
  Envs <- MCEnvs
  MaxEdits = 0
  MaxRecords = 0
INVARIANT EveryProbeRuns
CHECK_DEADLOCK FALSE
