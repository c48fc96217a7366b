SPECIFICATION AnomalySpec
CONSTANTS
  Cnt = 2
  Interval = 1
  Start = 1
  Repeats <- MCRepeats
  Horizon = 2
  MaxLines = 2
  Tasks <- MCTasks
  Silent <- MCSilent
  BufLen = 4
  EventSizes = {1, 2, 5}
  Budgets <- MCBudgets
INVARIANTS AnomalyTypeOK RingIsRecent ResourcesFollowChecks AlarmTellsEvents
PROPERTIES AlarmIsReadBurst SettingsSurvive ReportsGoOn TamperIsReported
CHECK_DEADLOCK FALSE
