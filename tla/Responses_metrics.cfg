CONSTANTS
  Uses <- MCDefault
  DamageLen = 16
  SeqNum = {0}
  Wild = {0, 3, 255}
  Damages = 0
  kCapacity = 16
  SnapshotTasksMax = 1
  Lens = {1, 2, 20, 150, 1000}
  MantissaBits = 14
  FracBits = 15
  U32 = 32768
  Floats <- MCFloats
  Sweep <- MCSweep
  MaxAppends = 3
SPECIFICATION MCSpec
INVARIANT MetricsAnswered
CHECK_DEADLOCK FALSE
