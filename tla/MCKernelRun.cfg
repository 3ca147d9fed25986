CONSTANTS
  N_CORES = 2
  Polls = 2
  CrunchCores = {1}
  MaxOverruns = 2
  OverrunWidth = 4
SPECIFICATION FairSpec
INVARIANT BarriersMeanAll
INVARIANT AbortLatency
INVARIANT EndsInShutdown
PROPERTY StopEndsRun
CHECK_DEADLOCK FALSE
