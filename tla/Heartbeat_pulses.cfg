CONSTANTS
  MaxWrites = 5
  kAngleSteps = 2
  MaxIterations = 3
  kMaxRounds = 5
  kPingIntervalUs = 3
  PingHorizon = 24
  PeriodOf <- MCPeriodOf
  kNumPulses = 5
  kNumReports = 5
  kDrainMs <- MCDrainMs
  kRunMs = 20
  kReadings = 3
  kLogInterval = 4
  BuildTimes = {0, 1}
  TickTimes = {1, 2}
  kPeriodUs = 10
  kMaxIoRetries = 10
  kConversionDelay = 3
  kLogThreshold = 5
  kRunTime = 36
  TurnTimes = {0, 1, 4}
  kRxBufSize = 3
  kTmpSize = 2
  MaxBytes = 6
SPECIFICATION MCSpec
INVARIANT FivePulses
CHECK_DEADLOCK FALSE
