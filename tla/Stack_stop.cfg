CONSTANTS
  Services = 2
  FailureThreshold = 2
  MaxRestarts = 2
  Attempts = 2
SPECIFICATION StackSpec
INVARIANT StopEndsProcess
CHECK_DEADLOCK FALSE
