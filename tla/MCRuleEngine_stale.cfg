SPECIFICATION Spec
CONSTANTS
  p1 = p1
  p2 = p2
  s1 = s1
  s2 = s2
  NoReport = NoReport
  Day = 4
  Minute = 2
  DaysPerWeek = 7
  Rules <- ReportRules
  Reporters = {p1}
  Slots = {s1}
  Services = {"smoke"}
  Values = {0, 1}
  HandlerValues = {0}
  Boot = 24
  Horizon = 24
  LateHorizon = 24
  MaxReports = 3
  Prompt = {FALSE}
PROPERTIES LoneReportTriggers
CHECK_DEADLOCK FALSE
