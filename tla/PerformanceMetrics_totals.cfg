CONSTANTS
  Durations = {0, 2, 7}
  Overheads = {1}
  PeerGap = 2
  Depths = {0, 2}
  Epochs = {0, 9}
  kHistogramBuckets = 3
  kHistogramBucketWidthUs = 2
  MetricsWindowUs = 4
  declaredWcetUs = 2
  SchedulerHealthWired = FALSE
  kWindowTicks = 2
  MaxTicks = 3
  MaxPeerGaps = 1
  MaxSnapshots = 1
SPECIFICATION Spec
INVARIANT TotalsAggregated
CHECK_DEADLOCK FALSE
