SPECIFICATION EchoSpec
CONSTANTS
  p1 = p1
  h1 = h1
  h2 = h2
  t1 = t1
  t2 = t2
  Pings = {p1}
  Hops = {h1, h2}
  Targets = {t1, t2}
  TargetOf <- MCTargetOf
  Numbers = {0, 1}
  Ports = {1, 2}
  MaxRequests = 3
  NoRequest = NoRequest
  Silence = Silence
INVARIANTS
  EchoTypeOK
  HopsAreOwn
  ReachedIsReal
  UnprivilegedPingsAreOwn
CHECK_DEADLOCK FALSE
