SPECIFICATION FairSpec
CONSTANTS
  p1 = p1
  p2 = p2
  s1 = s1
  s2 = s2
  NoReport = NoReport
  Day = 4
  Minute = 2
  DaysPerWeek = 7
  Rules <- TimerRules
  Reporters = {p1}
  Slots = {s1}
  Services = {"smoke"}
  Values = {0, 1}
  HandlerValues = {1}
  Boot = 24
  Horizon = 29
  LateHorizon = 27
  MaxReports = 1
  Prompt = {TRUE, FALSE}
INVARIANTS TypeOK DailyAtMostOnce TimersOnSchedule RangeIsUnionOfWindows
PROPERTIES ReportTriggers RoundsEnd
CHECK_DEADLOCK FALSE
