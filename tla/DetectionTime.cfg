\* The values of sim_config.h, in units of 50 ms.
CONSTANTS
  FaultThreshold = 3
  StateDepth = 8
  ResetDepth = 1
  PollPeriod = 5
  ResetTimeout = 40
  TickPeriod = 10
  LogPeriod = 4
  LogDepth = 32
  WordSize = 64
  AgeBound = 20
SPECIFICATION TFairSpec
CHECK_DEADLOCK FALSE
PROPERTIES
  DetectionTime
