CONSTANTS
  NumProbes = 1
  Threads = {c1, c2}
  NoThread = NoThread
  Calls = {"exec"}
  CtxMayEnd = TRUE
  MaxStarts = 2
SPECIFICATION APIFairSpec
INVARIANTS
  APITypeOK
  FnHasTheNetwork
PROPERTIES
  CallsReturn
  ClientsHaveAccess
