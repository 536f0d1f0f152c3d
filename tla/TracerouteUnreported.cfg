CONSTANTS
  LossThreshold = 5
  LatencyThreshold = 1
  MaxHops = 2
  HopTimeout = 2
  MaxOverhead = 2
  MaxTraces = 2
  Routers = {r1}
  Target = target
  Silent = silent
SPECIFICATION TracerouteSpec
PROPERTIES
  AnomalyIsReported
