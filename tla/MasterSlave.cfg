\* Queues small enough to overflow, a word small enough to wrap.
CONSTANTS
  FaultThreshold = 3
  StateDepth = 2
  ResetDepth = 1
  PollPeriod = 2
  ResetTimeout = 4
  WordSize = 7
SPECIFICATION FairSpec
CHECK_DEADLOCK FALSE
INVARIANTS
  TypeOK
  BeliefFollows
  MirrorWhenQuiet
  RecoveryUnderWay
  WatchdogArmed
  IInv
PROPERTIES
  DebouncedEscalation
  KeepsResetting
