CONSTANTS
  Configs <- MCConfigs
  UserTask = {"fast", "twin", "top", "rapid"}
  CrunchTask = {"servo", "hasty"}
  Background = {"logger"}
  Attr <- MCAttr
  CrunchPeriod <- MCCrunchPeriod
  kMaxTasks = 4
  kMaxMonitoredTasks = 3
  kMaxStopConditions = 1
  MaxCalls = 5
SPECIFICATION Spec
PROPERTY DispatchOrder
PROPERTY EveryTaskTickedOnce
PROPERTY FullyWired
