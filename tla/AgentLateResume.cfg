CONSTANTS
  NumProbes = 2
  Threads = {s1, s2}
  NoThread = NoThread
  ResumeMayExpire = TRUE
SPECIFICATION AgentSpec
SYMMETRY SpeedtestSymmetry
INVARIANT Exclusive
