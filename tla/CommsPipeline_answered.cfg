CONSTANTS
  kReadBufSize = 3
  kMaxProbeSize = 1
  kMaxLineLen = 2
  kMaxCobsSize = 1
  QueueCapacity = 1
  kMaxCommandsPerTick = 1
  MaxCommands = 2
SPECIFICATION FairSpec
PROPERTY EveryCommandAnswered
CHECK_DEADLOCK FALSE
