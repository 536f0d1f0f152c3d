CONSTANTS
  NumProbes = 1
  Threads = {s1, s2}
  NoThread = NoThread
  ResumeMayExpire = FALSE
SPECIFICATION AgentFairSpec
PROPERTIES
  ShutdownCompletes
  ExecuteExclusiveReturns
  SpeedtestsKeepRunning
  ProbesKeepMeasuring
