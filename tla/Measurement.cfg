CONSTANTS
  IsHTTP = TRUE
  StatusCodes = {200, 301, 404, 500}
  ExpectedCode = 200
  RTTs = {0, 1, 3}
  MaxChecks = 4
SPECIFICATION MeasurementSpec
INVARIANTS
  MeasurementTypeOK
  JitterIsConsecutive
  SamplesArePaired
CHECK_DEADLOCK FALSE
