SPECIFICATION RunSpec
CONSTANTS
  Candidates = 1
  RateRetries = 1
  FaultRetries = 1
  RereadLimit = 1
  MaxRunFaults = 2
CHECK_DEADLOCK FALSE
INVARIANT FailedTraceIsComplete
