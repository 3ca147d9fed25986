CONSTANTS
  Scheduled <- MCScheduled
  Ring <- MCRing3
  ControlBudget = 4
  TaskTimes = {0, 1, 2}
  Overstay = FALSE
  Gaps = {0, 1}
  StartTimes = {1, 2}
  TimeWidth = 64
  MaxTime = 14
  AgeCap = 5
SPECIFICATION Spec
INVARIANT NoneOverdue
INVARIANT GapRespected
PROPERTY PeriodRespected
CHECK_DEADLOCK FALSE
