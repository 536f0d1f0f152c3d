CONSTANTS
  NumProbes = 2
  Threads = {c1}
  NoThread = NoThread
  Calls = {"exec", "pause", "resume"}
  CtxMayEnd = FALSE
  MaxStarts = 1
SPECIFICATION APISpec
INVARIANTS
  PausedIsTruthful
CHECK_DEADLOCK FALSE
