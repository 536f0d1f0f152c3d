CONSTANTS
  NumProbes = 2
  Threads = {s1, s2}
  NoThread = NoThread
  ResumeMayExpire = FALSE
SPECIFICATION AgentSpec
SYMMETRY SpeedtestSymmetry
INVARIANTS
  AgentTypeOK
  AgentInv
  Exclusive
  NoStrandedProbe
  ResumeNeverBlocks
PROPERTIES
  ImplementsAccess
  WorkersLiveInOrder
  CallsGoTheWholeWay
