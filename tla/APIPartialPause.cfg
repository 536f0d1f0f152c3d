CONSTANTS
  NumProbes = 2
  Threads = {c1}
  NoThread = NoThread
  Calls = {"exec"}
  CtxMayEnd = TRUE
  MaxStarts = 1
SPECIFICATION APISpec
INVARIANT FailedPauseIsUndone
