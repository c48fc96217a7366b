SPECIFICATION DispatchSpec
CONSTANTS
  MaxId = 2
  Callers = {"a", "b"}
  Kinds = {"login"}
  MaxDraws = 4
  MaxServices = 4
  MaxEvents = 3
  Scenarios <- UndefinedScenarios
INVARIANTS UndefinedReachesCallback
CHECK_DEADLOCK FALSE
